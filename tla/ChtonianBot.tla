---------------------------- MODULE ChtonianBot ----------------------------
(***************************************************************************)
(* The bot (class ChtonianBot) on top of the gloox client: the rooms it    *)
(* keeps, the client's registries that decide which room sees a stanza,    *)
(* the read chunk being parsed, and the commands.                          *)
(*                                                                         *)
(* The bot is one thread.  It reads a chunk of the socket, and handles     *)
(* every stanza of the chunk before it reads again; one action handles one *)
(* stanza, with everything its handler calls.                              *)
(*                                                                         *)
(* Abstractions.  A message body is what parseCommand() makes of it: the   *)
(* command name, the number of arguments, the room they name and the last  *)
(* text among them.  A response is a text without arguments.  The chat     *)
(* log is the sequence of the lines confLog() writes.  Login is one step   *)
(* (OnConnect), and so is a lost connection.                               *)
(***************************************************************************)
EXTENDS Naturals, Sequences, FiniteSets, MUCRoom

CONSTANTS Masters,         \* master.jid of the configuration
          DefaultService,  \* muc.default_service
          AutoJoin,        \* autojoin.room, in file order
          ConfigNick,      \* info.nick
          Replies,         \* the fixed texts of the commands
          BfOutput,        \* the text a program of !bf prints
          ChunkMax         \* bound: stanzas in one read of the socket

NoRoom == [local |-> CHOOSE l \in Locals : TRUE, service |-> NoService]

ReplyNames == {"help", "entering", "nickset", "sent", "notfound"}

ASSUME BotAssumption ==
    /\ Masters \subseteq Address /\ Masters # {}
    /\ Locals # {} /\ NoService \in Services
    /\ DefaultService \in Services
    /\ AutoJoin \in Seq(Address)
    /\ ConfigNick \in Texts \ {NoText}
    /\ Replies \in [ReplyNames -> Texts]
    /\ BfOutput \in [Texts -> Texts]
    /\ ChunkMax \in Nat \ {0}

\* What parseCommand() and the commands tell apart in a message body.
Body == [name : Texts, argc : 0..2, room : Address, text : Texts]

\* A text without arguments, as a body: the bot reads its own replies so.
Plain(text) == [name |-> text, argc |-> 0, room |-> NoRoom, text |-> NoText]

\* Stanzas the bot sends, and stanzas it receives.
Outgoing == [kind : {"presence", "groupchat", "chat", "subscribed", "unsubscribed"},
             to : Address, res : Texts, body : Body]
Incoming == [kind : {"presence", "message", "subscribe"},
             type : {"available", "error", "groupchat", "chat", "normal", "headline"},
             from : Address, res : Texts, body : Body,
             flags : SUBSET PresenceFlags, newNick : Texts,
             id : Nat, delayed : BOOLEAN, threaded : BOOLEAN, subject : BOOLEAN]

VARIABLES conn,      \* "login", "online", "off" (the bot left) or "lost"
          rooms,     \* ChtonianBot::rooms
          handlers,  \* rooms (their places) in m_presenceJidHandlers
          sessions,  \* rooms whose session is in m_messageSessions
          inbox,     \* stanzas on their way to the bot
          chunk,     \* stanzas read from the socket and not yet handled
          outbox,    \* stanzas the bot wrote and the server has not read
          confLogs   \* lines of the chat logs: the room and the message

botVars == <<conn, rooms, handlers, sessions, inbox, chunk, outbox, confLogs>>

BotTypeOK ==
    /\ conn \in {"login", "online", "off", "lost"}
    /\ rooms \in Seq(Room)
    /\ handlers \subseteq DOMAIN rooms /\ sessions \subseteq DOMAIN rooms
    /\ inbox \in Seq(Incoming) /\ chunk \in Seq(Incoming)
    /\ outbox \in Seq(Outgoing)
    /\ confLogs \in Seq([room : Address, id : Nat, delayed : BOOLEAN])

BotInit ==
    /\ conn = "login" /\ rooms = <<>> /\ handlers = {} /\ sessions = {}
    /\ inbox = <<>> /\ chunk = <<>> /\ outbox = <<>> /\ confLogs = <<>>
-----------------------------------------------------------------------------
(***************************************************************************)
(* The bot's own helpers.                                                  *)
(***************************************************************************)
FinishRoomName(name) ==
    IF name.service = NoService THEN [name EXCEPT !.service = DefaultService]
                                ELSE name

\* The places of the rooms under a name; getRoom() returns the first of them.
RoomsNamedAsTyped(name) ==      \* mutant: the service is not completed
    {i \in DOMAIN rooms : rooms[i].addr = name}
RoomsNamed(name) == {i \in DOMAIN rooms : rooms[i].addr = FinishRoomName(name)}
HasRoom(name) == RoomsNamed(name) # {}
GetRoom(name) == CHOOSE i \in RoomsNamed(name) : \A k \in RoomsNamed(name) : i <= k

AccessLevel(jid) == IF jid \in Masters THEN 100 ELSE 0

\* ClientBase::send drops what is sent after the connection is gone.  A send may also fail:
\* then the connection is lost in the middle of the handler, which runs on, and nobody reads
\* what was written before.
Send(stanzas) ==
    \/ /\ outbox' = IF conn = "online" THEN outbox \o stanzas ELSE outbox
       /\ UNCHANGED conn
    \/ /\ conn = "online" /\ stanzas # <<>>
       /\ conn' = "lost"
       /\ UNCHANGED outbox

PresenceTo(addr, nick) ==
    [kind |-> "presence", to |-> addr, res |-> nick, body |-> Plain(NoText)]
MessageTo(kind, addr, res, body) ==
    [kind |-> kind, to |-> addr, res |-> res, body |-> body]

Commands == <<
    [name |-> "!bf",    argsCount |-> 1, accessLevel |-> 0],
    [name |-> "!enter", argsCount |-> 1, accessLevel |-> 100],
    [name |-> "!exit",  argsCount |-> 0, accessLevel |-> 100],
    [name |-> "!help",  argsCount |-> 0, accessLevel |-> 0],
    [name |-> "!nick",  argsCount |-> 2, accessLevel |-> 100],
    [name |-> "!say",   argsCount |-> 2, accessLevel |-> 100] >>

\* executeCommand: a command runs when its name and its number of arguments
\* match and the access level suffices.
RunsAtAnyLevel(body, level, name) ==      \* mutant: the level is not checked
    \E k \in DOMAIN Commands :
        /\ Commands[k].name = name /\ body.name = name
        /\ body.argc = Commands[k].argsCount
Runs(body, level, name) ==
    \E k \in DOMAIN Commands :
        /\ Commands[k].name = name /\ body.name = name
        /\ body.argc = Commands[k].argsCount
        /\ level >= Commands[k].accessLevel

RunsNothing(body, level) ==
    \A k \in DOMAIN Commands : ~Runs(body, level, Commands[k].name)
-----------------------------------------------------------------------------
(***************************************************************************)
(* The commands.  `back' is the stanza that answers, but for its body.     *)
(***************************************************************************)
Answer(back, text) == [back EXCEPT !.body = Plain(text)]

sameRooms == UNCHANGED <<rooms, handlers, sessions>>

BfCmd(body, back) ==
    /\ Send(<<Answer(back, BfOutput[body.text])>>)
    /\ sameRooms

HelpCmd(back) == Send(<<Answer(back, Replies["help"])>>) /\ sameRooms

\* enterRoom and MUCRoom::join for a room the bot does not have yet.
EnterCmd(body, back) ==
    LET addr  == FinishRoomName(body.room)
        place == Len(rooms) + 1
        reply == Answer(back, Replies["entering"])
    IN  \/ /\ ~HasRoom(body.room)
           /\ rooms' = Append(rooms, JoinedRoom(addr, ConfigNick))
           /\ handlers' = handlers \cup {place}
           /\ sessions' = sessions \cup {place}
           /\ Send(<<PresenceTo(addr, ConfigNick), reply>>)
        \/ /\ HasRoom(body.room)
           /\ Send(<<reply>>)
           /\ sameRooms

NickCmd(body, back) ==
    /\ \/ /\ HasRoom(body.room)
          /\ LET i == GetRoom(body.room)
                 request == PresenceTo(rooms[i].addr, body.text)
                 reply   == Answer(back, Replies["nickset"])
             IN  /\ rooms' = [rooms EXCEPT ![i] = AfterSetNick(@, body.text)]
                 /\ Send(IF rooms[i].joined THEN <<request, reply>> ELSE <<reply>>)
       \/ /\ ~HasRoom(body.room)
          /\ Send(<<Answer(back, Replies["notfound"])>>)
          /\ UNCHANGED rooms
    /\ UNCHANGED <<handlers, sessions>>

SayCmd(body, back) ==
    /\ \/ /\ HasRoom(body.room)
          /\ LET i == GetRoom(body.room)
                 said  == MessageTo("groupchat", rooms[i].addr, NoText, Plain(body.text))
                 reply == Answer(back, Replies["sent"])
             IN  Send(IF rooms[i].joined THEN <<said, reply>> ELSE <<reply>>)
       \/ /\ ~HasRoom(body.room)
          /\ Send(<<Answer(back, Replies["notfound"])>>)
    /\ sameRooms

\* Client::disconnect closes the socket, if there is one; the rest of the chunk stays.
ExitCmd ==
    /\ conn' = IF conn = "online" THEN "off" ELSE conn
    /\ sameRooms /\ UNCHANGED outbox

Execute(body, level, back) ==
    \/ Runs(body, level, "!bf")    /\ BfCmd(body, back)
    \/ Runs(body, level, "!help")  /\ HelpCmd(back)
    \/ Runs(body, level, "!enter") /\ EnterCmd(body, back)
    \/ Runs(body, level, "!nick")  /\ NickCmd(body, back)
    \/ Runs(body, level, "!say")   /\ SayCmd(body, back)
    \/ Runs(body, level, "!exit")  /\ ExitCmd
    \/ RunsNothing(body, level) /\ sameRooms /\ UNCHANGED <<conn, outbox>>
-----------------------------------------------------------------------------
(***************************************************************************)
(* Stanza handlers.  Each takes the first stanza of the chunk.             *)
(***************************************************************************)
TakeStanza(kind) == chunk # <<>> /\ Head(chunk).kind = kind /\ chunk' = Tail(chunk)

\* notifyMessageHandlers: the sessions that would take the message.  A room
\* session has no thread of its own, does not honour foreign ones, and does
\* not list headlines among its types; the first one registered wins.
SessionsFor(msg) ==
    {i \in sessions : /\ rooms[i].addr = msg.from
                      /\ ~msg.threaded
                      /\ msg.type # "headline"}
SessionFor(msg) == CHOOSE i \in SessionsFor(msg) : \A k \in SessionsFor(msg) : i <= k

\* ChtonianBot::handleMessage: any message no room session takes, whatever
\* its type, is a command of its sender and is answered as a chat message.
HandleMessage ==
    LET msg == Head(chunk)
    IN  /\ TakeStanza("message")
        /\ SessionsFor(msg) = {}
        /\ Execute(msg.body, AccessLevel(msg.from),
                   MessageTo("chat", msg.from, msg.res, Plain(NoText)))
        /\ UNCHANGED <<inbox, confLogs>>

\* MUCRoom::handleMessage and ChtonianBot::handleMUCMessage: errors, subjects,
\* empty and private messages are dropped; the rest is logged and run as a
\* command without privileges, delayed (historical) messages included.
LogLine(room, msg) == [room |-> room.addr, id |-> msg.id, delayed |-> msg.delayed]

LogForEverySession(room, msg) ==      \* mutant: every matching session logs it
    confLogs' = confLogs \o [n \in 1..Cardinality(SessionsFor(msg)) |-> LogLine(room, msg)]
LogCommandsOnly(room, msg) ==      \* mutant: confLog() under the test of the response
    confLogs' = IF RunsNothing(msg.body, 0) THEN confLogs
                ELSE Append(confLogs, LogLine(room, msg))
ConfLog(room, msg) == confLogs' = Append(confLogs, LogLine(room, msg))

HandleMUCMessage ==
    LET msg  == Head(chunk)
        room == rooms[SessionFor(msg)]
    IN  /\ TakeStanza("message")
        /\ SessionsFor(msg) # {}
        /\ \/ /\ ForTheRoom(msg)
              /\ ConfLog(room, msg)
              /\ Execute(msg.body, 0,
                         MessageTo("groupchat", room.addr, NoText, Plain(NoText)))
           \/ /\ ~ForTheRoom(msg)
              /\ sameRooms /\ UNCHANGED <<conn, outbox, confLogs>>
        /\ UNCHANGED inbox

\* removePresenceHandler, called by a room that gives up: the entries of this
\* handler under this address, one here because a room joins once.
ErasedUnderAddress(i) ==      \* mutant: every handler of the address goes
    {k \in handlers : rooms[k].addr = rooms[i].addr}
Erased(i) == {k \in handlers : rooms[k].addr = rooms[i].addr /\ k = i}

\* notifyPresenceHandlers walks the registered rooms in order while those that
\* give up are erased from what it walks: the next entry is taken before the
\* call, and a room is called unless one before it erased it.
Matched(pres) == {i \in handlers : rooms[i].addr = pres.from}
GivingUp(pres) == {i \in Matched(pres) : GivesUpOn(rooms[i], pres)}
Called(pres) ==
    {k \in Matched(pres) : \A i \in GivingUp(pres) : i < k => k \notin Erased(i)}
Leaving(pres) == Called(pres) \cap GivingUp(pres)

\* Every room that is called handles the presence; one that gives up erases its
\* handler and has its session disposed of.
HandlePresence ==
    LET pres == Head(chunk)
    IN  /\ TakeStanza("presence")
        /\ rooms' = [i \in DOMAIN rooms |->
                        IF i \in Called(pres) THEN AfterPresence(rooms[i], pres)
                                              ELSE rooms[i]]
        /\ handlers' = handlers \ UNION {Erased(i) : i \in Leaving(pres)}
        /\ sessions' = sessions \ Leaving(pres)
        /\ UNCHANGED <<conn, inbox, outbox, confLogs>>

\* A master's request is accepted, twice: the second send repeats the
\* acceptance where the welcome message was meant.
HandleSubscription ==
    LET sub    == Head(chunk)
        answer(kind) == MessageTo(kind, sub.from, sub.res, Plain(NoText))
    IN  /\ TakeStanza("subscribe")
        /\ Send(IF AccessLevel(sub.from) >= 100
                  THEN <<answer("subscribed"), answer("subscribed")>>
                  ELSE <<answer("unsubscribed")>>)
        /\ sameRooms /\ UNCHANGED <<inbox, confLogs>>

Handle == HandleMessage \/ HandleMUCMessage \/ HandlePresence \/ HandleSubscription
-----------------------------------------------------------------------------
\* Logged in: onConnect enters the rooms of the configuration one by one, also when a send
\* fails.
OnConnect ==
    /\ conn = "login"
    /\ \/ conn' = "online"
       \/ conn' = "lost" /\ AutoJoin # <<>>
    /\ rooms' = [i \in DOMAIN AutoJoin |->
                    JoinedRoom(FinishRoomName(AutoJoin[i]), ConfigNick)]
    /\ handlers' = DOMAIN AutoJoin
    /\ sessions' = DOMAIN AutoJoin
    /\ outbox' = [i \in DOMAIN AutoJoin |->
                    PresenceTo(FinishRoomName(AutoJoin[i]), ConfigNick)]
    /\ UNCHANGED <<inbox, chunk, confLogs>>

ReceiveFull ==      \* mutant: a read waits until the buffer is full
    /\ conn = "online" /\ chunk = <<>> /\ ChunkMax <= Len(inbox)
    /\ chunk' = SubSeq(inbox, 1, ChunkMax)
    /\ inbox' = SubSeq(inbox, ChunkMax + 1, Len(inbox))
    /\ UNCHANGED <<conn, rooms, handlers, sessions, outbox, confLogs>>

\* One read of the socket, of any length up to the size of the buffer.
Receive ==
    /\ conn = "online" /\ chunk = <<>>
    /\ \E n \in 1..ChunkMax :
          /\ n <= Len(inbox)
          /\ chunk' = SubSeq(inbox, 1, n)
          /\ inbox' = SubSeq(inbox, n + 1, Len(inbox))
    /\ UNCHANGED <<conn, rooms, handlers, sessions, outbox, confLogs>>

\* A read fails or the server closes the stream: onDisconnect does nothing, the receive loop
\* ends, and main returns.  Send has the loss in the middle of a chunk.
ConnectionLost ==
    /\ conn \in {"login", "online"} /\ chunk = <<>>
    /\ conn' = "lost"
    /\ UNCHANGED <<rooms, handlers, sessions, inbox, chunk, outbox, confLogs>>

BotNext == OnConnect \/ Receive \/ Handle \/ ConnectionLost
=============================================================================
