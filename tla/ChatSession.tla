---------------------------- MODULE ChatSession ----------------------------
(***************************************************************************)
(* One run of the bot against its XMPP server: the bot (ChtonianBot), the  *)
(* chat service with its rooms, and the people who talk to the bot.  The   *)
(* two streams of the connection deliver in order and lose nothing until   *)
(* the connection is lost.                                                 *)
(*                                                                         *)
(* The service is not part of the repository.  It is modelled from what    *)
(* the library handles: it may refuse a join or a nick, assign another     *)
(* nick, mark a nick change as the bot's own or leave that out, replay a   *)
(* historical message on entry, expel the bot, and bounce a message.       *)
(* It folds the spelling of addresses (Canon); the library, built without  *)
(* libidn, compares them as typed.                                         *)
(***************************************************************************)
EXTENDS ChtonianBot

CONSTANTS Canon,         \* the service's spelling of an address
          Rooms,         \* rooms of the service, in its spelling
          Users,         \* bare JIDs of the people who write to the bot
          UserBodies,    \* what they write
          Assigned,      \* nicks the service may assign instead
          MaxStimuli     \* bound: messages and events from outside

ASSUME SessionAssumption ==
    /\ Canon \in [Address -> Address]
    /\ Rooms \subseteq {a \in Address : Canon[a] = a} /\ Users \subseteq Address
    /\ UserBodies \subseteq Body /\ Assigned \subseteq Texts \ {NoText}
    /\ "someone" \in Texts /\ MaxStimuli \in Nat

VARIABLES occ,        \* the bot's nick in each room, NoText when it is outside
          said,       \* the room of every line delivered to the bot, by id
          disturbed,  \* history: rooms asked again before they had answered,
                      \* under another spelling or for no nick at all, and
                      \* rooms that expelled the bot
          stimuli     \* how many messages and events came from outside

worldVars == <<occ, said, disturbed, stimuli>>
vars == <<botVars, worldVars>>

TypeOK ==
    /\ BotTypeOK
    /\ occ \in [Address -> Texts] /\ said \in Seq(Address)
    /\ disturbed \subseteq Address /\ stimuli \in Nat

Init ==
    /\ BotInit
    /\ occ = [a \in Address |-> NoText] /\ said = <<>>
    /\ disturbed = {} /\ stimuli = 0
-----------------------------------------------------------------------------
(***************************************************************************)
(* Stanzas of the service.                                                 *)
(***************************************************************************)
Presence(type, room, nick, flags, newNick) ==
    [kind |-> "presence", type |-> type, from |-> room, res |-> nick,
     body |-> Plain(NoText), flags |-> flags, newNick |-> newNick,
     id |-> 0, delayed |-> FALSE, threaded |-> FALSE, subject |-> FALSE]

Message(type, from, res, body, id) ==
    [kind |-> "message", type |-> type, from |-> from, res |-> res,
     body |-> body, flags |-> {}, newNick |-> NoText,
     id |-> id, delayed |-> FALSE, threaded |-> FALSE, subject |-> FALSE]

\* A line of a room is counted in `said' if it has a text.
SayLine(room, counts) == said' = IF counts THEN Append(said, room) ELSE said
LineId(counts) == IF counts THEN Len(said) + 1 ELSE 0

Arrive(stanzas) == inbox' = inbox \o stanzas

Take(kind) ==
    /\ conn = "online" /\ outbox # <<>> /\ Head(outbox).kind = kind
    /\ outbox' = Tail(outbox)

serverUnchanged == UNCHANGED <<conn, rooms, handlers, sessions, chunk, confLogs>>

\* A request for a place or a nick that has no answer the bot has handled yet.
AskedFor(room) ==
    \E k \in DOMAIN outbox :
        outbox[k].kind = "presence" /\ Canon[outbox[k].to] = room
AnswerFrom(stanza, room) == stanza.kind = "presence" /\ stanza.from = room
AnswerOnItsWay(room) ==
    \/ \E k \in DOMAIN inbox : AnswerFrom(inbox[k], room)
    \/ \E k \in DOMAIN chunk : AnswerFrom(chunk[k], room)
Unanswered(room) == AskedFor(room) \/ AnswerOnItsWay(room)
-----------------------------------------------------------------------------
(***************************************************************************)
(* The service answers the bot's stanzas in the order it sent them.        *)
(***************************************************************************)
\* A join or a nick is refused: nick conflict, ban, unknown room...
Refuse ==
    LET asked == Head(outbox)
    IN  /\ Take("presence")
        /\ Arrive(<<Presence("error", Canon[asked.to], asked.res, {}, NoText)>>)
        /\ UNCHANGED worldVars /\ serverUnchanged

\* The bot is let in, under its nick or an assigned one; some services then
\* replay what was said before.
Admit ==
    LET asked == Head(outbox)
        room  == Canon[asked.to]
    IN  /\ Take("presence")
        /\ room \in Rooms /\ occ[room] = NoText
        /\ \E nick \in {asked.res} \cup Assigned, replay \in BOOLEAN :
              /\ nick # NoText
              /\ replay => stimuli < MaxStimuli
              /\ occ' = [occ EXCEPT ![room] = nick]
              /\ stimuli' = IF replay THEN stimuli + 1 ELSE stimuli
              /\ \E body \in UserBodies :
                    LET entered == Presence("available", room, nick,
                            IF nick = asked.res THEN {"self"}
                                                ELSE {"self", "assigned"}, NoText)
                        old == [Message("groupchat", room, nick, body, 0)
                                  EXCEPT !.delayed = TRUE]
                    IN  Arrive(IF replay THEN <<entered, old>> ELSE <<entered>>)
        /\ UNCHANGED <<said, disturbed>> /\ serverUnchanged

\* A new nick is granted; status 110 may be missing from the announcement.
Rename ==
    LET asked == Head(outbox)
        room  == Canon[asked.to]
    IN  /\ Take("presence")
        /\ occ[room] # NoText /\ asked.res # NoText
        /\ occ' = [occ EXCEPT ![room] = asked.res]
        /\ \E flags \in {{"changed"}, {"changed", "self"}} :
              Arrive(<<IF asked.res = occ[room]
                         THEN Presence("available", room, asked.res, {"self"}, NoText)
                         ELSE Presence("available", room, occ[room], flags, asked.res)>>)
        /\ UNCHANGED <<said, disturbed, stimuli>> /\ serverUnchanged

\* What the bot says in a room comes back to it; outside it is an error.
Broadcast ==
    LET sent == Head(outbox)
        room == Canon[sent.to]
        line == ~Empty(sent.body)
    IN  /\ Take("groupchat")
        /\ \/ /\ occ[room] # NoText
              /\ SayLine(room, line)
              /\ Arrive(<<Message("groupchat", room, occ[room], sent.body, LineId(line))>>)
           \/ /\ occ[room] = NoText
              /\ Arrive(<<Message("error", room, NoText, sent.body, 0)>>)
              /\ UNCHANGED said
        /\ UNCHANGED <<occ, disturbed, stimuli>> /\ serverUnchanged

\* A chat message reaches its reader, or is bounced with its text.
Deliver ==
    LET sent == Head(outbox)
    IN  /\ Take("chat")
        /\ \/ UNCHANGED <<inbox, stimuli>>
           \/ /\ stimuli < MaxStimuli
              /\ stimuli' = stimuli + 1
              /\ Arrive(<<Message("error", sent.to, sent.res, sent.body, 0)>>)
        /\ UNCHANGED <<occ, said, disturbed>> /\ serverUnchanged

AnswerSubscription ==
    /\ Take("subscribed") \/ Take("unsubscribed")
    /\ UNCHANGED inbox /\ UNCHANGED worldVars /\ serverUnchanged

Service == Refuse \/ Admit \/ Rename \/ Broadcast \/ Deliver \/ AnswerSubscription
-----------------------------------------------------------------------------
(***************************************************************************)
(* The world outside: MaxStimuli bounds what it does.                      *)
(***************************************************************************)
Stimulus ==
    /\ conn = "online" /\ stimuli < MaxStimuli /\ stimuli' = stimuli + 1
    /\ UNCHANGED outbox /\ serverUnchanged

\* A person writes to the bot directly.
Direct ==
    /\ Stimulus
    /\ \E user \in Users, body \in UserBodies :
          Arrive(<<Message("chat", user, NoText, body, 0)>>)
    /\ UNCHANGED <<occ, said, disturbed>>

\* Someone speaks in a room the bot is in; some clients add a thread id, some
\* bots there send headlines, and someone may change the subject.  Only a plain
\* line with a text counts as said.
Forms == {"plain", "threaded", "headline", "subject"}
IsLine(form, body) == form = "plain" /\ ~Empty(body)
Spoken(form, room, body) ==
    [Message(IF form = "headline" THEN form ELSE "groupchat", room, "someone", body,
             LineId(IsLine(form, body)))
       EXCEPT !.threaded = form = "threaded", !.subject = form = "subject"]

Speak ==
    /\ Stimulus
    /\ \E room \in Rooms, body \in UserBodies, form \in Forms :
          /\ occ[room] # NoText
          /\ SayLine(room, IsLine(form, body))
          /\ Arrive(<<Spoken(form, room, body)>>)
    /\ UNCHANGED <<occ, disturbed>>

\* Someone in a room writes to the bot's nick there.
Whisper ==
    /\ Stimulus
    /\ \E room \in Rooms, body \in UserBodies :
          /\ occ[room] # NoText
          /\ Arrive(<<Message("chat", room, "someone", body, 0)>>)
    /\ UNCHANGED <<occ, said, disturbed>>

Expel ==
    /\ Stimulus
    /\ \E room \in Rooms :
          /\ occ[room] # NoText
          /\ occ' = [occ EXCEPT ![room] = NoText]
          /\ disturbed' = disturbed \cup {room}
          /\ Arrive(<<Presence("available", room, occ[room], {"self"}, NoText)>>)
    /\ UNCHANGED said

Subscribe ==
    /\ Stimulus
    /\ \E user \in Users :
          Arrive(<<[Presence("available", user, NoText, {}, NoText)
                      EXCEPT !.kind = "subscribe"]>>)
    /\ UNCHANGED <<occ, said, disturbed>>

World == Direct \/ Speak \/ Whisper \/ Expel \/ Subscribe
-----------------------------------------------------------------------------
\* The presences this step of the bot adds to the outbox.
NewRequests ==
    {k \in DOMAIN outbox' : k > Len(outbox) /\ outbox'[k].kind = "presence"}

\* The rooms they disturb: asked again too early, under another spelling, or
\* for an empty nick.
NewlyDisturbed ==
    {Canon[outbox'[k].to] : k \in
        {n \in NewRequests :
            LET room == Canon[outbox'[n].to]
            IN  \/ outbox'[n].to # room \/ outbox'[n].res = NoText
                \/ Unanswered(room)
                \/ \E m \in NewRequests : m < n /\ Canon[outbox'[m].to] = room}}

BotStep ==
    /\ BotNext
    /\ disturbed' = disturbed \cup NewlyDisturbed
    /\ UNCHANGED <<occ, said, stimuli>>

Next == BotStep \/ Service \/ World

Spec == Init /\ [][Next]_vars

\* The bot's thread runs on while the process lives, and the service answers;
\* nobody is bound to speak, and no connection is bound to fail.
FairSpec ==
    /\ Spec
    /\ WF_vars(OnConnect /\ BotStep) /\ WF_vars(Receive /\ BotStep)
    /\ WF_vars(Handle /\ BotStep) /\ WF_vars(Service)
-----------------------------------------------------------------------------
(***************************************************************************)
(* Properties.                                                             *)
(***************************************************************************)
\* The library and the bot agree on the rooms at every step: a room believes
\* it has joined exactly while its presence handler and its message session
\* are registered (MUCRoom::join, MUCRoom::handlePresence), so no room takes
\* part in the dispatch after its session was deleted, and none is deaf.
RegistriesMatch ==
    \A i \in DOMAIN rooms :
        /\ rooms[i].joined <=> i \in handlers
        /\ rooms[i].joined <=> i \in sessions

Undisturbed(i) ==
    /\ conn = "online"
    /\ Canon[rooms[i].addr] = rooms[i].addr
    /\ rooms[i].addr \notin disturbed

\* With every request answered and handled, a room that believes it has
\* joined is in the room, under the nick it believes it has, and one that gave
\* up (MUCRoom::handlePresence, error branch) is outside, for good, with nothing
\* under way that could give it a place: the library's optimistic m_joined and
\* its reading of refusals (m_newNick) come out right.
MembershipTrue ==
    \A i \in DOMAIN rooms :
        Undisturbed(i) =>
            IF rooms[i].joined
            THEN ~Unanswered(rooms[i].addr) =>
                     occ[rooms[i].addr] = rooms[i].nick /\ rooms[i].nick # NoText
            ELSE occ[rooms[i].addr] = NoText /\ ~Unanswered(rooms[i].addr)

\* Only an undisturbed room is sure to have one object: getRoom() before
\* enterRoom() in enter_cmd keeps a typed name from being joined twice.
OneObjectPerRoom ==
    \A i, k \in DOMAIN rooms :
        Undisturbed(i) /\ rooms[i].addr = rooms[k].addr => i = k

\* No message of a room is written to the chat logs twice, and the lines are
\* in the order of the service, also when several room objects listen to the
\* same room (ClientBase::notifyMessageHandlers takes the first session only).
LoggedOnceInOrder ==
    \A m, n \in DOMAIN confLogs :
        m < n /\ confLogs[m].id # 0 /\ confLogs[n].id # 0
            => confLogs[m].id < confLogs[n].id

\* Nothing said in an undisturbed room is lost while the bot is online: what is
\* logged, being handled and on its way is what the service sent, but for
\* messages without a text (MUCRoom::handleMessage).  When a send fails in the
\* middle of a chunk the rest of it is handled with requests that go nowhere,
\* and a room may go deaf before its last lines.
Logged(room) ==
    {confLogs[k].id : k \in {l \in DOMAIN confLogs : confLogs[l].room = room}} \ {0}
FromRoom(room, stanza) == stanza.kind = "message" /\ stanza.from = room
Coming(room) ==
    ({chunk[k].id : k \in {c \in DOMAIN chunk : FromRoom(room, chunk[c])}}
        \cup {inbox[k].id : k \in {c \in DOMAIN inbox : FromRoom(room, inbox[c])}}) \ {0}
LogComplete ==
    conn = "online" =>
        \A room \in Rooms \ disturbed :
            Logged(room) \cup Coming(room) = {n \in DOMAIN said : said[n] = room}

\* Whoever is not a master gets at most one answer out of the bot, to where
\* the message came from; rooms, nicks and the connection are beyond him,
\* in a room as in a private chat (executeCommand with the sender's level), but
\* that the connection may be lost with the answer.
OnlyAnswered ==
    LET msg == Head(chunk)
    IN  chunk # <<>> /\ chunk' = Tail(chunk)
        /\ msg.kind = "message" /\ msg.from \notin Masters
        => /\ UNCHANGED <<rooms, handlers, sessions>>
           /\ conn' \in {conn, "lost"}
           /\ \/ outbox' = outbox
              \/ \E answer \in {outbox'[Len(outbox')]} :
                    /\ outbox' = Append(outbox, answer)
                    /\ answer.kind \in {"chat", "groupchat"}
                    /\ answer.to = msg.from
StrangersOnlyAnswered == [][OnlyAnswered]_vars

\* Every request for a place or a nick is answered and the answer handled,
\* unless the connection ends first: no command leaves a room hanging.
RequestsSettle ==
    \A room \in Rooms : Unanswered(room) ~> ~Unanswered(room) \/ conn # "online"

\* Whatever is said in an undisturbed room ends up in the chat log, unless
\* the connection ends first.
SaidIsLogged ==
    \A room \in Rooms :
        (\E n \in DOMAIN said : said[n] = room) ~>
            \/ conn # "online" \/ room \in disturbed
            \/ \A n \in DOMAIN said : said[n] = room =>
                   \E k \in DOMAIN confLogs : confLogs[k].id = n

\* commands.cpp:31 says "Ignore historical messages."
HistoryIgnored == \A k \in DOMAIN confLogs : ~confLogs[k].delayed
=============================================================================
