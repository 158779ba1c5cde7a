---------------------------- MODULE MessageSessions ----------------------------
(* gloox's conversations: the dispatch of messages in clientbase.cpp         *)
(* (notifyMessageHandlers), MessageSession, and its filters for chat states  *)
(* (XEP-0085) and message events (XEP-0022).                                 *)
(*                                                                           *)
(* There is one contact, with resources; "" stands for its bare address.     *)
(* Threads are numbers, 0 none, given out by either side from one count.  A  *)
(* session has both filters from its beginning, as the example in            *)
(* messagesession.h sets it up; whether handlers are registered with it and  *)
(* with them is chosen when it is made.                                      *)
EXTENDS Integers, SequencesExt

CONSTANTS Resources,
          MaxSessions,   \* bound: sessions made
          MaxEvents      \* bound: messages received and calls, together

ASSUME MessageSessionsAssumption ==
    /\ "" \notin Resources
    /\ MaxSessions \in Nat /\ MaxEvents \in Nat

VARIABLES sessions,   \* m_messageSessions, in the order of registration
          auto,       \* types that have a MessageSessionHandler
          invites,    \* a handler of invitations to rooms is registered
          threads,    \* threads given out
          made,       \* sessions made
          received,   \* messages received, which are their ids
          called,     \* calls of the application
          lastSent    \* what was sent last

sessionsVars == <<sessions, auto, invites, threads, made, received, called, lastSent>>

Types == {"chat", "normal"}

NewSession(id, res, types, honor, handled) ==
    [id |-> id, res |-> res, types |-> types, wantUpgrade |-> TRUE, honor |-> honor,
     thread |-> 0, hadMessages |-> FALSE, handled |-> handled,
     enableChatStates |-> TRUE, lastState |-> "gone",
     disable |-> FALSE, requested |-> {}, lastID |-> 0, lastEvent |-> "cancel",
     refused |-> FALSE, told |-> {}]  \* histories: a message without a state came;
                                      \* events told, with their messages

NothingSent == [kind |-> "none", id |-> 0, what |-> "", about |-> 0, call |-> 0]

SessionsInit ==
    /\ sessions = <<>> /\ auto \in {{}, Types} /\ invites \in BOOLEAN
    /\ threads = 0 /\ made = 0 /\ received = 0 /\ called = 0
    /\ lastSent = NothingSent

-----------------------------------------------------------------------------
(* A message that arrives.  Its content is a text alone, a text with a chat *)
(* state that asks for events, a notice of either without a text, an       *)
(* invitation to a room, or the error of one who knows no events.          *)
Contents == {"text", "rich", "notice", "invitation", "unknown"}

HasBody(m) == m.content \in {"text", "rich", "invitation"}
HasState(m) == m.content \in {"rich", "notice"}

(* honorThreadID() being true is what makes threads not matter. *)
Accepts(s, m) ==
    /\ m.thread = 0 \/ s.thread = m.thread \/ s.honor
    /\ m.type \in s.types \/ s.types = {}

(* The first session with the full address, or else with the bare one. *)
SessionFor(m) ==
    LET full == SelectInSeq(sessions, LAMBDA s : s.res = m.res /\ Accepts(s, m))
    IN  IF full /= 0 THEN full ELSE SelectInSeq(sessions, LAMBDA s : Accepts(s, m))

(* ChatStateFilter::filter and MessageEventFilter::filter. *)
StatesFiltered(s, m) ==
    IF s.enableChatStates /\ s.handled
    THEN [s EXCEPT !.enableChatStates = HasState(m), !.refused = ~ HasState(m)]
    ELSE s

EventsFiltered(s, m) ==
    CASE s.disable \/ ~ s.handled -> s
      [] m.content = "unknown" -> [s EXCEPT !.disable = TRUE]
      [] ~ HasState(m) -> [s EXCEPT !.requested = {}, !.lastID = 0]
      [] m.content = "rich" -> [s EXCEPT !.lastID = received + 1,
                                         !.requested = {"delivered", "composing"}]
      [] OTHER -> s

(* MessageSession::handleMessage *)
Handled(s, m) ==
    LET upgraded == IF s.wantUpgrade /\ s.res = "" THEN [s EXCEPT !.res = m.res] ELSE s
        threaded == IF s.hadMessages THEN upgraded
                    ELSE [upgraded EXCEPT !.hadMessages = TRUE,
                            !.thread = IF m.thread = 0 THEN threads + 1 ELSE m.thread]
    IN  EventsFiltered(StatesFiltered(threaded, m), m)

(* No session yet: a message without a text does not make one in a chat.   *)
(* The application may dispose of another session in                       *)
(* handleMessageSession().                                                 *)
Created(m) ==
    /\ made < MaxSessions /\ made' = made + 1
    /\ \E handled \in BOOLEAN, gone \in 0..Len(sessions) :
          sessions' = Append(IF gone = 0 THEN sessions ELSE RemoveAt(sessions, gone),
                             Handled(NewSession(made + 1, m.res, {m.type}, TRUE, handled), m))

(* notifyMessageHandlers.  What goes to the handler of invitations or to   *)
(* the plain message handlers changes nothing here.                        *)
notifyMessageHandlers(m) ==
    /\ received + called < MaxEvents
    /\ received' = received + 1
    /\ IF m.content = "invitation" /\ invites THEN UNCHANGED <<sessions, made>>
       ELSE IF SessionFor(m) /= 0
            THEN sessions' = [sessions EXCEPT ![SessionFor(m)] = Handled(@, m)]
                 /\ UNCHANGED made
       ELSE IF m.type \in auto /\ (m.type = "chat" => HasBody(m)) THEN Created(m)
       ELSE UNCHANGED <<sessions, made>>
    /\ threads' = IF \E i \in DOMAIN sessions' : sessions'[i].thread = threads + 1
                  THEN threads + 1 ELSE threads
    /\ UNCHANGED <<auto, invites, called, lastSent>>

(* The contact takes up a thread, makes one, or names none. *)
Messages ==
    {m \in [res : Resources \cup {""},
            thread : {0, threads + 1} \cup {sessions[i].thread : i \in DOMAIN sessions},
            type : Types \cup {"error"}, content : Contents] :
        (m.type = "error") = (m.content = "unknown")}

-----------------------------------------------------------------------------
(* What the application does. *)

Call == received + called < MaxEvents /\ called' = called + 1 /\ UNCHANGED received

Start(res, types, honor, handled) ==
    /\ made < MaxSessions /\ made' = made + 1
    /\ sessions' = Append(sessions, NewSession(made + 1, res, types, honor, handled))
    /\ UNCHANGED <<auto, invites, threads, lastSent>>

disposeMessageSession(i) ==
    sessions' = RemoveAt(sessions, i) /\ UNCHANGED <<auto, invites, threads, made, lastSent>>

resetResource(i) ==
    /\ sessions' = [sessions EXCEPT ![i].res = "", ![i].wantUpgrade = TRUE]
    /\ UNCHANGED <<auto, invites, threads, made, lastSent>>

registerMessageSessionHandler(type) ==
    auto' = auto \cup {type} /\ UNCHANGED <<sessions, invites, threads, made, lastSent>>

Sends(i, s, kind, what, about) ==
    /\ sessions' = [sessions EXCEPT ![i] = s]
    /\ lastSent' = [kind |-> kind, id |-> s.id, what |-> what, about |-> about, call |-> called']
    /\ UNCHANGED <<auto, invites, made>>

(* A text, with the decorations of both filters: the chat state in it does  *)
(* not count as sent, the request for events takes back "composing".       *)
SendText(i) ==
    LET s == sessions[i]
        threaded == IF s.hadMessages THEN s
                    ELSE [s EXCEPT !.hadMessages = TRUE, !.thread = threads + 1]
    IN  /\ threads' = IF s.hadMessages THEN threads ELSE threads + 1
        /\ Sends(i, IF s.disable THEN threaded ELSE [threaded EXCEPT !.lastEvent = "cancel"],
                 "text", "", threaded.thread)

setChatState(i, state) ==
    LET s == sessions[i]
    IN  /\ s.enableChatStates /\ state /= s.lastState
        /\ Sends(i, [s EXCEPT !.lastState = state], "state", state, 0) /\ UNCHANGED threads

(* mutant: what was told can be told again *)
RequestedStill(s, event) == s.requested

Requested(s, event) == IF event = "delivered" THEN s.requested \ {event} ELSE s.requested

raiseMessageEvent(i, event) ==
    LET s == sessions[i]
    IN  /\ ~ s.disable /\ (event \in s.requested \/ event = "cancel")
        /\ ~ (event = "composing" /\ s.lastEvent = "composing")
        /\ Sends(i, [s EXCEPT !.requested = Requested(s, event), !.lastEvent = event,
                              !.told = @ \cup {<<s.lastID, event>>}],
                 "event", event, s.lastID)
        /\ UNCHANGED threads

SessionsNext ==
    \/ \E m \in Messages : notifyMessageHandlers(m)
    \/ /\ Call
       /\ \/ \E res \in Resources \cup {""}, types \in {{}, {"chat"}}, honor \in BOOLEAN :
                Start(res, types, honor, TRUE)
          \/ \E i \in DOMAIN sessions :
                \/ disposeMessageSession(i) \/ resetResource(i) \/ SendText(i)
                \/ \E state \in {"active", "composing"} : setChatState(i, state)
                \/ \E event \in {"delivered", "composing", "cancel"} :
                      raiseMessageEvent(i, event)
          \/ \E type \in Types \ auto : registerMessageSessionHandler(type)

SessionsSpec == SessionsInit /\ [][SessionsNext]_sessionsVars

-----------------------------------------------------------------------------
Ids(seq) == {seq[i].id : i \in DOMAIN seq}
Of(seq, id) == seq[CHOOSE i \in DOMAIN seq : seq[i].id = id]

(* A session keeps its thread from its first message to its last          *)
(* (messagesession.cpp:44-53, 65-69), whoever sent the first, and what it *)
(* sends bears it, so that the contact's answers can be told.              *)
ThreadsKept ==
    \A id \in Ids(sessions) \cap Ids(sessions') :
        /\ Of(sessions, id).hadMessages
             => Of(sessions', id).thread = Of(sessions, id).thread
        /\ Of(sessions, id).res /= "" => Of(sessions', id).res \in {Of(sessions, id).res, ""}
        /\ lastSent' /= lastSent /\ lastSent'.kind = "text" /\ lastSent'.id = id
             => lastSent'.about = Of(sessions', id).thread

(* An event is told about a message that asked for it, and, unless it is   *)
(* one of typing, once (messageeventfilter.cpp:65-93); no state goes to a  *)
(* contact whose last message, with a handler there, had none              *)
(* (chatstatefilter.cpp:35-57).                                            *)
NoticesWanted ==
    lastSent' /= lastSent =>
        /\ lastSent'.kind = "event" /\ lastSent'.what /= "cancel" => lastSent'.about /= 0
        /\ lastSent'.kind = "event" /\ lastSent'.what = "delivered"
             => <<lastSent'.about, "delivered">> \notin Of(sessions, lastSent'.id).told
        /\ lastSent'.kind = "state" => ~ Of(sessions, lastSent'.id).refused

ConversationsKept == [][ThreadsKept /\ NoticesWanted]_sessionsVars
=============================================================================
