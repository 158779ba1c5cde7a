------------------------------ MODULE MUCRoom ------------------------------
(***************************************************************************)
(* gloox's client-side record of one multi-user chat room (class MUCRoom), *)
(* as far as the bot can tell rooms apart by it: where the room is, the    *)
(* nick the library believes it holds, the nick it last asked for, and     *)
(* whether it believes it has joined.                                      *)
(*                                                                         *)
(* m_session is non-null exactly while m_joined holds: join() sets both,   *)
(* the error branch of handlePresence() clears both, and nothing else in   *)
(* the bot's use of the class touches them.  `joined' stands for the pair; *)
(* what the registries of the client hold is kept by ChtonianBot.          *)
(***************************************************************************)
CONSTANTS Locals,      \* local parts of room and user addresses
          Services,    \* domains of room and user addresses
          Texts        \* nicks, message texts, command names

NoService == ""        \* a room name typed without '@'
NoText    == ""        \* an empty std::string

ASSUME TextsAssumption == NoText \in Texts /\ Texts \subseteq STRING
ASSUME ServicesAssumption == Services \subseteq STRING /\ Locals \subseteq STRING

\* A bare JID.
Address == [local : Locals, service : Services]

\* The presence flags of gloox's MUCUser extension that the room looks at.
PresenceFlags == {"self", "assigned", "changed"}

Room == [addr : Address, nick : Texts, newNick : Texts, joined : BOOLEAN]

\* A room object after its constructor and join(): m_joined is set, and the
\* join presence sent, before the service has answered anything.
JoinedRoom(addr, nick) ==
    [addr |-> addr, nick |-> nick, newNick |-> NoText, joined |-> TRUE]

\* A message without a text has no words.
Empty(body) == body.name = NoText /\ body.argc = 0

\* handleMessage: an error is no message of the room, one with a subject only sets the topic,
\* one without a text is dropped, and the handler is told which ones are private.
ForTheRoom(msg) ==
    /\ msg.type \notin {"error", "chat", "normal"}
    /\ ~msg.subject
    /\ ~Empty(msg.body)

\* setNick: a joined room only records its request and waits for the service;
\* a room that is not joined changes the nick of its next join.
AfterSetNickUnrecorded(room, nick) ==      \* mutant: the request is not recorded
    IF room.joined THEN room ELSE [room EXCEPT !.nick = nick]
AfterSetNick(room, nick) ==
    IF room.joined THEN [room EXCEPT !.newNick = nick]
                   ELSE [room EXCEPT !.nick = nick]

\* An error presence means "nick change refused" if a requested nick is on
\* record, and "join refused" otherwise: then the room gives up its place.
GivesUpOn(room, pres) == pres.type = "error" /\ room.newNick = NoText

\* A nick change is the bot's own if the service says so (status 110), or if
\* the old nick and the requested nick both match.
OwnNickChange(room, pres) ==
    /\ "changed" \in pres.flags
    /\ pres.newNick # NoText
    /\ \/ "self" \in pres.flags
       \/ room.nick = pres.res /\ room.newNick = pres.newNick

\* A refusal either ends the join or forgets the requested nick.
AfterError(room) ==
    IF room.newNick = NoText THEN [room EXCEPT !.joined = FALSE]
                             ELSE [room EXCEPT !.newNick = NoText]

\* Any other presence: take a nick the service assigned, then the new nick of
\* an own nick change.  m_newNick is kept, answered or not.
AfterNews(room, pres) ==
    LET named == IF "assigned" \in pres.flags
                   THEN [room EXCEPT !.nick = pres.res] ELSE room
    IN  IF OwnNickChange(named, pres)
          THEN [named EXCEPT !.nick = pres.newNick] ELSE named

\* handlePresence: the room after a presence from its own address.
AfterPresence(room, pres) ==
    IF pres.type = "error" THEN AfterError(room) ELSE AfterNews(room, pres)
=============================================================================
