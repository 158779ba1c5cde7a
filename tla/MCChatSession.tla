--------------------------- MODULE MCChatSession ---------------------------
(***************************************************************************)
(* Small instances of ChatSession: one or two rooms, the master Ann and    *)
(* Bob, who has no privileges.                                             *)
(***************************************************************************)
EXTENDS ChatSession

MCLocals == {"den", "Den", "pit", "ann", "bob"}
MCServices == {NoService, "muc", "home"}
MCTexts == {NoText, "cthulhu", "dagon", "hydra", "shrimp", "hi", "someone",
            "!help", "!enter", "!exit", "!nick", "!say", "!bf", "program", "prints help",
            "available commands", "entering", "nick has been set", "sent", "not found"}

At(local, service) == [local |-> local, service |-> service]
Den == At("den", "muc")
Pit == At("pit", "muc")
Ann == At("ann", "home")
Bob == At("bob", "home")
BareDen == At("den", NoService)

MCMasters == {Ann}
MCUsers == {Ann, Bob}
MCReplies == [n \in ReplyNames |->
    CASE n = "help" -> "available commands" [] n = "entering" -> "entering"
      [] n = "nickset" -> "nick has been set" [] n = "sent" -> "sent"
      [] n = "notfound" -> "not found"]
MCBfOutput == [t \in Texts |-> IF t = "prints help" THEN "!help" ELSE "hi"]
MCCanon == [a \in Address |-> IF a.local = "Den" THEN [a EXCEPT !.local = "den"] ELSE a]

Cmd(name, argc, room, text) == [name |-> name, argc |-> argc, room |-> room, text |-> text]
EnterBody(room) == Cmd("!enter", 1, room, NoText)
NickBody(nick)  == Cmd("!nick", 2, BareDen, nick)
SayBody(text)   == Cmd("!say", 2, Den, text)
ExitBody        == Cmd("!exit", 0, NoRoom, NoText)
HelpBody        == Cmd("!help", 0, NoRoom, NoText)
BfBody(text)    == Cmd("!bf", 1, NoRoom, text)
Hi              == Plain("hi")

JoinDen == <<BareDen>>
JoinTwice == <<BareDen, Den>>

OneRoom == {Den}
TwoRooms == {Den, Pit}
NoNicks == {}
OneNick == {"shrimp"}

\* Masters move the bot and rename it, people talk, and the bot talks to itself.
ChatBodies == {EnterBody(BareDen), NickBody("dagon"), NickBody("hydra"), ExitBody,
               BfBody("prints help"), SayBody("!help"), SayBody(NoText)}
\* Masters type rooms in another spelling, or no nick.
SpellingBodies == {EnterBody(Den), EnterBody(At("Den", "muc")), EnterBody(Pit),
                   EnterBody(At("pit", NoService)),
                   NickBody("dagon"), NickBody(NoText), HelpBody}
\* Something is said, and the history of the room is replayed.
TalkBodies == {Hi, HelpBody}
=============================================================================
