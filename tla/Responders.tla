---------------------------- MODULE Responders ----------------------------
(* What gloox answers to requests of others: the dispatch in clientbase.cpp *)
(* (notifyIqHandlers), pings, and the answering halves of disco.cpp,        *)
(* adhoc.cpp, capabilities.cpp and lastactivity.cpp.                        *)
(*                                                                         *)
(* A request is a get or a set with one payload, as XMPP has it.  A        *)
(* service is an object that registers itself with the client and with the *)
(* discovery and may be destroyed.  Names of software, idle times and      *)
(* identities are left out; a feature is kept with how often it was added; *)
(* a hash of capabilities is what it is computed from.                     *)
EXTENDS Integers, Sequences, FiniteSets

CONSTANTS Remotes,           \* who asks
          Commands,          \* ad-hoc commands that may be offered
          Trusted,           \* remotes a provider gives access to
          Features,          \* features an application adds
          MaxCalls,          \* calls of the application
          MaxRequests        \* requests received

(* XMLNS_ADHOC_COMMANDS stands for the node as well as for the feature. *)
AdhocNode == "commands"
NoNode == "no node"      \* none is named
CapsNode == "caps#hash"  \* with the hash last announced
OtherNode == "caps#old"  \* a node nobody handles

RespondersAssumption ==
    /\ Commands \cap {NoNode, AdhocNode, CapsNode, OtherNode} = {}
    /\ Trusted \subseteq Remotes
    /\ MaxCalls \in Nat /\ MaxRequests \in Nat

VARIABLES
    there,          \* services that exist: "adhoc", "last", "caps"
    known,          \* payloads an extension is registered for
    features,       \* m_features of Disco
    form,           \* a form was set with Disco
    nodeHandlers,   \* m_nodeHandlers: how often each handler is registered for a node
    providers,      \* m_adhocCommandProviders and m_items, filled together
    activeSessions, \* the id that waits in each session
    generated,      \* sessions made up
    announced,      \* the hash last sent in a presence
    tasks,          \* commands the application has not answered
    asked,          \* requests received (history)
    answers,        \* answers sent (history)
    mixed,          \* sessions that two requests used at once, or that were
                    \* destroyed while one waited (history)
    left,           \* commands registered when Adhoc was destroyed (history)
    moved,          \* the features changed since the announcement (history)
    ruined,         \* something destroyed was used
    calls

respondersVars ==
    <<there, known, features, form, nodeHandlers, providers, activeSessions, generated,
      announced, tasks, asked, answers, mixed, left, moved, ruined, calls>>

Nodes == Commands \cup {NoNode, AdhocNode, CapsNode, OtherNode}

-----------------------------------------------------------------------------
(* Registration. *)

Handlers == {"adhoc", "caps", "gone"}  \* of nodes; one was destroyed

registerNodeHandler(handlers, h, node) == [handlers EXCEPT ![node][h] = @ + 1]

removeNodeHandler(handlers, h, node) == [handlers EXCEPT ![node][h] = 0]

removeNodeHandlers(handlers, h) ==
    [node \in Nodes |-> [handlers[node] EXCEPT ![h] = 0]]

addFeature(bag, f) == [bag EXCEPT ![f] = @ + 1]
removeFeature(bag, f) == [bag EXCEPT ![f] = 0]

AllFeatures == Features \cup {"adhoc", "last", "version"}

RespondersInit ==
    /\ there = {} /\ form = FALSE /\ providers = {} /\ activeSessions = <<>>
    /\ known = {"ping", "version", "info", "items"}
    /\ features = [f \in AllFeatures |-> IF f = "version" THEN 1 ELSE 0]
    /\ nodeHandlers = [n \in Nodes |-> [h \in Handlers |-> 0]]
    /\ generated = 0 /\ announced = <<>> /\ tasks = {} /\ asked = {} /\ answers = <<>>
    /\ mixed = {} /\ left = {} /\ moved = FALSE /\ ruined = FALSE /\ calls = 0

CallMade ==
    /\ calls < MaxCalls /\ calls' = calls + 1
    /\ mixed' = mixed \cup (DOMAIN activeSessions \ DOMAIN activeSessions')
    /\ UNCHANGED <<generated, tasks, asked, answers, ruined>>

CreateAdhoc ==
    /\ "adhoc" \notin there
    /\ there' = there \cup {"adhoc"} /\ known' = known \cup {"command"}
    /\ features' = addFeature(features, "adhoc")
    /\ nodeHandlers' = registerNodeHandler(registerNodeHandler(nodeHandlers, "adhoc", AdhocNode),
                                           "adhoc", NoNode)
    /\ moved' = TRUE /\ UNCHANGED <<form, providers, activeSessions, announced, left>>

(* The nodes of the commands keep the handler that is gone. *)
DestroyAdhoc ==
    /\ "adhoc" \in there
    /\ there' = there \ {"adhoc"} /\ known' = known \ {"command"}
    /\ features' = removeFeature(features, "adhoc")
    /\ nodeHandlers' =
          LET kept == removeNodeHandler(removeNodeHandler(nodeHandlers, "adhoc", AdhocNode),
                                        "adhoc", NoNode)
          IN  [n \in Nodes |-> [kept[n] EXCEPT !["gone"] = @ + kept[n]["adhoc"], !["adhoc"] = 0]]
    /\ left' = left \cup providers /\ providers' = {} /\ activeSessions' = <<>>
    /\ moved' = TRUE /\ UNCHANGED <<form, announced>>

registerAdhocCommandProvider(c) ==
    /\ "adhoc" \in there
    /\ nodeHandlers' = registerNodeHandler(nodeHandlers, "adhoc", c)
    /\ providers' = providers \cup {c}
    /\ UNCHANGED <<there, known, features, form, activeSessions, announced, left, moved>>

removeAdhocCommandProvider(c) ==
    /\ "adhoc" \in there
    /\ nodeHandlers' = removeNodeHandler(nodeHandlers, "adhoc", c)
    /\ providers' = providers \ {c}
    /\ UNCHANGED <<there, known, features, form, activeSessions, announced, left, moved>>

ToggleLastActivity ==
    /\ there' = IF "last" \in there THEN there \ {"last"} ELSE there \cup {"last"}
    /\ features' = IF "last" \in there THEN removeFeature(features, "last")
                   ELSE addFeature(features, "last")
    /\ known' = known \cup {"last"}  \* the extension is not taken back
    /\ moved' = TRUE /\ UNCHANGED <<form, nodeHandlers, providers, activeSessions, announced, left>>

ChangeFeature(f) ==
    /\ features' \in {addFeature(features, f), removeFeature(features, f)}
    /\ moved' = TRUE
    /\ UNCHANGED <<there, known, form, nodeHandlers, providers, activeSessions, announced, left>>

SetForm ==
    /\ form' = TRUE
    /\ UNCHANGED <<there, known, features, nodeHandlers, providers, activeSessions, announced, left,
                   moved>>

(* A new Capabilities replaces the one before, which takes its nodes along. *)
AddPresenceExtension ==
    /\ there' = there \cup {"caps"}
    /\ nodeHandlers' = removeNodeHandlers(nodeHandlers, "caps") /\ announced' = <<>>
    /\ UNCHANGED <<known, features, form, providers, activeSessions, left, moved>>

RemovePresenceExtension ==
    /\ there' = there \ {"caps"}
    /\ nodeHandlers' = removeNodeHandlers(nodeHandlers, "caps") /\ announced' = <<>>
    /\ UNCHANGED <<known, features, form, providers, activeSessions, left, moved>>

(* Capabilities::generate: what is hashed. *)
Hash(info) == <<info.features, info.form>>

(* Capabilities::ver, called when a presence is sent. *)
SendPresence ==
    /\ "caps" \in there
    /\ announced' = Hash([features |-> features, form |-> form])
    /\ nodeHandlers' = registerNodeHandler(removeNodeHandlers(nodeHandlers, "caps"),
                                           "caps", CapsNode)
    /\ moved' = FALSE
    /\ UNCHANGED <<there, known, features, form, providers, activeSessions, left>>

-----------------------------------------------------------------------------
(* Answers.  One to a request has its id and goes to who asked. *)

Answer(q, type) == [to |-> q.from, id |-> q.id, type |-> type]

(* Handlers of a node: Adhoc names its own feature, Capabilities all of    *)
(* the client's; the features of several handlers are joined.              *)
NodeFeatures(handlers) ==
    [f \in AllFeatures |->
        (IF f = "adhoc" THEN handlers["adhoc"] ELSE 0) + features[f] * handlers["caps"]]

(* Adhoc::handleDiscoNodeItems: the commands a remote may run. *)
NodeItems(node, from) ==
    IF node = AdhocNode THEN {c \in providers : from \in Trusted} ELSE {}

(* What is said of a node, or of the client if none is named. *)
InfoAnswer(node) ==
    IF node = NoNode THEN [features |-> features, form |-> form]
    ELSE [features |-> NodeFeatures(nodeHandlers[node]), form |-> FALSE]

HandleDisco(q) ==
    IF q.type = "set" THEN <<>>
    ELSE IF /\ q.payload /= "version" /\ q.node /= NoNode
            /\ \A h \in Handlers : nodeHandlers[q.node][h] = 0
         THEN <<Answer(q, "error")>>
    ELSE <<Answer(q, "result")>>

(* Pings and questions for the time since the last activity. *)
HandleGet(q) == IF q.type = "get" THEN <<Answer(q, "result")>> ELSE <<>>

(* What the handlers of the payload send. *)
AnswersOf(q) ==
    CASE q.payload = "ping" \/ (q.payload = "last" /\ "last" \in there) -> HandleGet(q)
      [] q.payload \in {"info", "items", "version"} -> HandleDisco(q)
      [] OTHER -> <<>>

(* A handler that is gone is called. *)
Dangles(q) ==
    /\ q.payload \in {"info", "items"} /\ q.type = "get"
    /\ q.node /= NoNode /\ nodeHandlers[q.node]["gone"] > 0

(* Adhoc::handleIq: the session is the one named, or a new one; the id of  *)
(* the request waits under it, in place of one that was waiting.           *)
ForProvider(q) ==
    q.payload = "command" /\ q.type = "set" /\ q.node \in providers

ExecuteCommand(q, named) ==
    LET session == IF named = 0 THEN generated + 1 ELSE named
    IN  /\ generated' = IF named = 0 THEN generated + 1 ELSE generated
        /\ activeSessions' = [s \in DOMAIN activeSessions \cup {session} |->
                                IF s = session THEN q.id ELSE activeSessions[s]]
        /\ tasks' = tasks \cup {[remote |-> q.from, session |-> session, id |-> q.id]}
        /\ mixed' = IF session \in DOMAIN activeSessions THEN mixed \cup {session} ELSE mixed
        /\ UNCHANGED <<answers, ruined>>

(* notifyIqHandlers: who answers a request, and the error if nobody does.  *)
(* A payload no extension is registered for is none, and nobody answers.   *)
(* Adhoc takes its extension away with it, LastActivity does not.          *)

(* mutant: the error is sent whoever has answered *)
DispatchTwice(q) ==
    /\ ~ ForProvider(q)
    /\ answers' = answers \o Append(AnswersOf(q), Answer(q, "error"))
    /\ ruined' = (ruined \/ Dangles(q))
    /\ UNCHANGED <<activeSessions, generated, tasks, mixed>>

Dispatch(q) ==
    /\ ~ ForProvider(q)
    /\ answers' = answers \o IF q.payload \notin known THEN <<>>
                             ELSE IF AnswersOf(q) = <<>> THEN <<Answer(q, "error")>>
                             ELSE AnswersOf(q)
    /\ ruined' = (ruined \/ Dangles(q))
    /\ UNCHANGED <<activeSessions, generated, tasks, mixed>>

(* A remote numbers its requests. *)
NextId(from) == Cardinality({r \in asked : r.from = from}) + 1

Requests ==
    LET R(types, payloads, nodes) ==
            [from : Remotes, type : types, payload : payloads, node : nodes]
    IN  R({"get"}, {"ping", "version", "last", "other"}, {NoNode})
        \cup R({"set"}, {"ping", "info"}, {NoNode})
        \cup R({"get"}, {"info", "items"}, Nodes)
        \cup R({"get", "set"}, {"command"}, Commands \cup {NoNode})

ReceiveRequest(r) ==
    LET q == [from |-> r.from, id |-> NextId(r.from), type |-> r.type, payload |-> r.payload,
              node |-> r.node]
    IN  /\ Cardinality(asked) < MaxRequests
        /\ asked' = asked \cup {[from |-> q.from, id |-> q.id, known |-> q.payload \in known]}
        /\ \/ Dispatch(q)
           \/ ForProvider(q) /\ \E named \in 0..generated : ExecuteCommand(q, named)
        /\ UNCHANGED <<there, known, features, form, nodeHandlers, providers, announced, left,
                       moved, calls>>

(* Adhoc::respond, by the application, under the session it was given. *)
Respond(task, type) ==
    /\ "adhoc" \in there
    /\ tasks' = tasks \ {task}
    /\ IF task.session \in DOMAIN activeSessions
       THEN /\ answers' = Append(answers, Answer([from |-> task.remote,
                                                  id |-> activeSessions[task.session]], type))
            /\ activeSessions' =
                  [s \in DOMAIN activeSessions \ {task.session} |-> activeSessions[s]]
       ELSE UNCHANGED <<answers, activeSessions>>
    /\ UNCHANGED <<there, known, features, form, nodeHandlers, providers, generated, announced,
                   asked, mixed, left, moved, ruined, calls>>

RespondersNext ==
    /\ ~ ruined
    /\ \/ /\ \/ CreateAdhoc \/ DestroyAdhoc \/ ToggleLastActivity \/ SetForm
             \/ AddPresenceExtension \/ RemovePresenceExtension \/ SendPresence
             \/ \E c \in Commands : registerAdhocCommandProvider(c)
                                    \/ removeAdhocCommandProvider(c)
             \/ \E f \in Features : ChangeFeature(f)
          /\ CallMade
       \/ \E r \in Requests : ReceiveRequest(r)
       \/ \E task \in tasks, type \in {"result", "error"} : Respond(task, type)

RespondersSpec == RespondersInit /\ [][RespondersNext]_respondersVars

-----------------------------------------------------------------------------
AnswersTo(from, id) == Cardinality({i \in DOMAIN answers : /\ answers[i].to = from
                                                          /\ answers[i].id = id})

(* A request gets one answer, under its id and to who asked                *)
(* (clientbase.cpp:1333-1390, disco.cpp:285-385, adhoc.cpp:284-303,        *)
(* 421-437), or waits for the application, unless its payload is known to  *)
(* nobody; and nothing is sent that was not asked for.  Excepted are       *)
(* commands whose session another one named before they were answered, or  *)
(* whose Adhoc was destroyed in between.                                   *)
AnsweredOnce ==
    LET Waiting(r) == {t \in tasks : t.remote = r.from /\ t.id = r.id}
        Crossed == mixed /= {}
    IN  /\ \A r \in asked : \/ AnswersTo(r.from, r.id) = IF r.known /\ Waiting(r) = {}
                                                        THEN 1 ELSE 0
                           \/ Crossed
        /\ \A i \in DOMAIN answers : \/ Crossed
                                     \/ \E r \in asked : r.from = answers[i].to
                                                          /\ r.id = answers[i].id

(* What is said of the announced node hashes to what was announced         *)
(* (capabilities.cpp:52-63, 164-184), until the features change, and       *)
(* unless the announcement had a form in it, which the node's handler does *)
(* not give.                                                               *)
CapsVerify ==
    announced /= <<>> /\ ~ moved /\ announced[2] = FALSE
        => Hash(InfoAnswer(CapsNode)) = announced

(* A command that is listed to a remote has a node that can be asked       *)
(* (adhoc.cpp:331-342, 463-473), and no handler that was destroyed is      *)
(* asked if the commands were removed before.                              *)
ListedHasNode ==
    /\ \A from \in Remotes : \A c \in NodeItems(AdhocNode, from) :
          nodeHandlers[c]["adhoc"] > 0
    /\ ruined => left /= {}

RequestsAnswered == AnsweredOnce /\ CapsVerify /\ ListedHasNode
=============================================================================
