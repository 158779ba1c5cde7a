------------------------------- MODULE Roster -------------------------------
(***************************************************************************)
(* RosterManager of gloox: the list of contacts that a client mirrors from  *)
(* its server.  The application edits, adds and removes contacts and asks   *)
(* for or gives subscriptions to presence; other clients of the account and *)
(* the contacts themselves change the list as well.  The server (external)  *)
(* answers in the order it is asked and pushes every change to the client.  *)
(* The connection may be lost, and the next one fills the list anew.        *)
(***************************************************************************)
EXTENDS Naturals, Sequences, FiniteSets, SequencesExt

CONSTANTS
    Contacts,
    Names,          \* names and groups that a contact is listed under
    MaxStimuli      \* bound: operations of the application and events of the world

Own == "own account"
ASSUME RosterAssumption == IsFiniteSet(Contacts) /\ Own \notin Contacts /\ MaxStimuli \in Nat

VARIABLES
    client,         \* the RosterManager
    account,        \* the server: what it keeps of every contact
    session,        \* the server: what it knows of the clients
    up, down,       \* stanzas under way to the server and to the client
    history         \* how much has happened, and what the properties ask about
rosterVars == <<client, account, session, up, down, history>>

NoName == "no name"
\* to and from are the two subscriptions to presence, ask a request of the client for one,
\* and pending a request of the contact; the contact is online or not.
Unlisted == [listed |-> FALSE, name |-> NoName, to |-> FALSE, from |-> FALSE, ask |-> FALSE]
ItemOf(c) == [name |-> account[c].name, to |-> account[c].to,
              from |-> account[c].from, ask |-> account[c].ask]
Listed == {c \in Contacts : account[c].listed}

\* items is m_roster with m_changed and m_resources of every contact (one resource each),
\* self the resources of m_self, told the contacts that the listener knows of, and sync is
\* m_syncSubscribeReq.  filled says whether the answer to the request of this connection has
\* come.
RosterInit ==
    /\ client \in [sync : BOOLEAN, online : {FALSE}, filled : {FALSE}, items : {<<>>},
                   self : {FALSE}, told : {{}}]
    /\ \E listed \in SUBSET Contacts, name \in Names :
         account = [c \in Contacts |->
                       [listed |-> c \in listed, name |-> IF c \in listed THEN name ELSE NoName,
                        to |-> c \in listed, from |-> FALSE, ask |-> FALSE,
                        pending |-> FALSE, online |-> FALSE]]
    /\ up = <<>> /\ down = <<>>
    /\ session = [available |-> FALSE, interested |-> FALSE, other |-> FALSE]
    /\ history = [stimuli |-> 0, refused |-> FALSE, stale |-> FALSE,
                  edit |-> [c \in Contacts |-> NoName]]

Happens == history.stimuli < MaxStimuli
Counted == [history EXCEPT !.stimuli = @ + 1]
-----------------------------------------------------------------------------
(***************************************************************************)
(* The operations of the application.                                      *)
(***************************************************************************)
\* A push of c is under way, or may come of what is.
UnderWay(c) ==
    \/ \E i \in DOMAIN up : up[i].contact = c
    \/ \E i \in DOMAIN down : down[i].kind = "push" /\ down[i].contact = c

Stanza(kind, c) == [kind |-> kind, contact |-> c]
Operates(stanzas) ==
    /\ client.online /\ client.filled /\ Happens
    /\ up' = up \o stanzas /\ history' = Counted
    /\ UNCHANGED <<client, account, session, down>>

AddStanza(c, name) == [kind |-> "set", contact |-> c, name |-> name]
add == \E c \in Contacts, name \in Names : Operates(<<AddStanza(c, name)>>)
subscribe ==
    \E c \in Contacts, name \in Names :
        Operates(<<AddStanza(c, name), Stanza("subscribe", c)>>)
unsubscribe == \E c \in Contacts : Operates(<<Stanza("unsubscribe", c)>>)
cancel == \E c \in Contacts : Operates(<<Stanza("unsubscribed", c)>>)
remove == \E c \in Contacts : Operates(<<Stanza("remove", c)>>)
ackSubscriptionRequest ==
    \E c \in Contacts, answer \in {"subscribed", "unsubscribed"} :
        account[c].pending /\ Operates(<<Stanza(answer, c)>>)

\* RosterItem::setName and setGroups.
setName ==
    \E c \in DOMAIN client.items, name \in Names :
        /\ Happens /\ client.items[c].name # name
        /\ client' = [client EXCEPT !.items[c].name = name, !.items[c].changed = TRUE]
        /\ history' = [Counted EXCEPT
                          !.edit[c] = IF client.online /\ ~UnderWay(c) THEN name ELSE NoName]
        /\ UNCHANGED <<account, session, up, down>>

SyncedAtOnce ==      \* mutant: an item counts as synchronized when it is sent
    [c \in DOMAIN client.items |-> [client.items[c] EXCEPT !.changed = FALSE]]
\* An item stays changed until its push comes.
Synced == client.items
synchronize ==
    LET changed == {c \in DOMAIN client.items : client.items[c].changed}
    IN  /\ client.online /\ client.filled /\ Happens /\ changed # {}
        /\ up' = up \o [i \in 1..Cardinality(changed) |->
                           LET c == SetToSeq(changed)[i] IN AddStanza(c, client.items[c].name)]
        /\ client' = [client EXCEPT !.items = Synced]
        /\ history' = Counted /\ UNCHANGED <<account, session, down>>
-----------------------------------------------------------------------------
(***************************************************************************)
(* The handlers.                                                           *)
(***************************************************************************)
ItemFrom(item, shown) ==
    [name |-> item.name, to |-> item.to, from |-> item.from, ask |-> item.ask,
     changed |-> FALSE, shown |-> shown]
Shown(c) == c \in DOMAIN client.items /\ client.items[c].shown

\* Client::connected
fill ==
    /\ ~client.online /\ Happens
    /\ client' = [client EXCEPT !.online = TRUE, !.items = <<>>]
    /\ up' = <<[kind |-> "get", contact |-> Own]>>
    /\ history' = [Counted EXCEPT !.stale = client.self, !.refused = FALSE]
    /\ UNCHANGED <<account, session, down>>

Handles(kind) == down # <<>> /\ down[1].kind = kind
Handled == down' = Tail(down) /\ UNCHANGED <<account, session>>
Without(items, c) == [x \in DOMAIN items \ {c} |-> items[x]]
With(items, c, item) == [x \in DOMAIN items \cup {c} |-> IF x = c THEN item ELSE items[x]]

\* What is there already is not replaced.
mergeRoster(items) ==
    [c \in DOMAIN client.items \cup DOMAIN items |->
        IF c \in DOMAIN client.items THEN client.items[c] ELSE ItemFrom(items[c], FALSE)]
\* The initial roster or an error: Client::rosterFilled sends the presence either way.
handleIqID ==
    /\ Handles("roster") /\ Handled
    /\ LET items == mergeRoster(IF down[1].error THEN <<>> ELSE down[1].items)
       IN  client' = [client EXCEPT !.filled = TRUE, !.items = items,
                          !.told = IF down[1].error THEN @ ELSE DOMAIN items]
    /\ up' = Append(up, [kind |-> "presence", contact |-> Own])
    /\ UNCHANGED history

ItemRead(c, item) ==      \* mutant: the resources go with the data that a push replaces
    ItemFrom(item, FALSE)
ItemUpdated(c, item) == ItemFrom(item, Shown(c))
\* A push of one contact, and what the listener is told.
mergePush(c, item) ==
    CASE item = <<>> /\ c \notin DOMAIN client.items -> client
      [] item = <<>> /\ c \in DOMAIN client.items ->
           [client EXCEPT !.items = Without(@, c), !.told = @ \ {c}]
      [] item # <<>> ->
           [client EXCEPT !.told = @ \cup {c},
               !.items = With(@, c, IF c \in DOMAIN @ THEN ItemUpdated(c, item[1])
                                    ELSE ItemFrom(item[1], FALSE))]
handleIq ==
    /\ Handles("push") /\ Handled
    /\ client' = mergePush(down[1].contact, down[1].item)
    /\ UNCHANGED <<up, history>>

handlePresence ==
    /\ Handles("presence") /\ Handled
    /\ LET c == down[1].contact
       IN  client' = IF c = Own THEN [client EXCEPT !.self = down[1].shown]
                     ELSE IF c \in DOMAIN client.items
                          THEN [client EXCEPT !.items[c].shown = down[1].shown]
                          ELSE client
    /\ UNCHANGED <<up, history>>

\* Requests are answered at once, or by the application later.  A contact that withdraws is
\* confirmed, and then removed if the listener says so.
handleSubscription ==
    /\ down # <<>> /\ Handled /\ UNCHANGED <<client, history>>
    /\ \/ /\ Handles("subscribe")
          /\ \E answer \in {"subscribed", "unsubscribed"} :
               up' = IF client.sync THEN Append(up, Stanza(answer, down[1].contact)) ELSE up
       \/ /\ Handles("unsubscribe")
          /\ \E removes \in BOOLEAN :
               up' = up \o <<Stanza("unsubscribed", down[1].contact)>> \o
                       (IF client.sync /\ removes THEN <<Stanza("remove", down[1].contact)>>
                        ELSE <<>>)
       \/ (Handles("subscribed") \/ Handles("unsubscribed")) /\ UNCHANGED up

\* The results and errors of the other requests.
handleResult == Handles("result") /\ Handled /\ UNCHANGED <<client, up, history>>
-----------------------------------------------------------------------------
(***************************************************************************)
(* The server, the contacts and the other clients.                         *)
(***************************************************************************)
PushOf(c, a) ==
    [kind |-> "push", contact |-> c,
     item |-> IF a.listed
              THEN <<[name |-> a.name, to |-> a.to, from |-> a.from, ask |-> a.ask]>>
              ELSE <<>>]
PresenceOf(c, shown) == [kind |-> "presence", contact |-> c, shown |-> shown]

\* The entry of c becomes a; the client is told by a push and, when the subscription
\* begins or ends, of the presence of the contact.
Entry(a) == [a EXCEPT !.pending = FALSE, !.online = FALSE]
Pushes(c, a) ==
    IF session.interested /\ Entry(a) # Entry(account[c]) THEN <<PushOf(c, a)>> ELSE <<>>
Becomes(c, a) ==
    Pushes(c, a) \o IF session.available /\ account[c].online /\ a.to # account[c].to
                    THEN <<PresenceOf(c, a.to)>> ELSE <<>>
\* A push with another name ends what was edited.
EditEnds(c, a, pushes) ==
    [history.edit EXCEPT ![c] = IF pushes # <<>> /\ a.name # @ THEN NoName ELSE @]

Served(stanza) ==
    LET a == account[stanza.contact]
    IN  CASE stanza.kind = "set" -> [a EXCEPT !.listed = TRUE, !.name = stanza.name]
          [] stanza.kind = "remove" ->
               [a EXCEPT !.listed = FALSE, !.name = NoName, !.to = FALSE, !.from = FALSE,
                         !.ask = FALSE, !.pending = FALSE]
          [] stanza.kind = "subscribe" ->
               IF a.to THEN a ELSE [a EXCEPT !.listed = TRUE, !.ask = TRUE]
          [] stanza.kind = "unsubscribe" -> [a EXCEPT !.to = FALSE, !.ask = FALSE]
          [] stanza.kind = "subscribed" ->
               IF a.pending THEN [a EXCEPT !.listed = TRUE, !.from = TRUE, !.pending = FALSE]
               ELSE a
          [] stanza.kind = "unsubscribed" -> [a EXCEPT !.from = FALSE, !.pending = FALSE]
ResultOf(stanza) ==
    IF stanza.kind \in {"set", "remove"} THEN <<[kind |-> "result", contact |-> stanza.contact]>>
    ELSE <<>>
\* An item that is set is pushed even if it was that already, to a client that has asked.
Serve ==
    /\ up # <<>> /\ up[1].contact \in Contacts /\ up' = Tail(up)
    /\ LET c == up[1].contact
           a == Served(up[1])
           again == IF session.interested /\ up[1].kind = "set" /\ a = account[c]
                    THEN <<PushOf(c, a)>> ELSE <<>>
       IN  /\ account' = [account EXCEPT ![c] = a]
           /\ down' = down \o Becomes(c, a) \o again \o ResultOf(up[1])
           /\ history' = [history EXCEPT !.edit = EditEnds(c, a, Pushes(c, a) \o again)]
    /\ UNCHANGED <<client, session>>
\* An item may be refused.
Refuse ==
    /\ up # <<>> /\ up[1].kind \in {"set", "remove"} /\ up' = Tail(up)
    /\ down' = down \o ResultOf(up[1])
    /\ UNCHANGED <<client, account, session, history>>
ServeRoster ==
    /\ up # <<>> /\ up[1].kind = "get" /\ up' = Tail(up)
    /\ \E error \in BOOLEAN :
         /\ down' = Append(down, [kind |-> "roster", error |-> error,
                                  items |-> IF error THEN <<>> ELSE [c \in Listed |-> ItemOf(c)]])
         /\ session' = [session EXCEPT !.interested = ~error]
         /\ history' = [history EXCEPT !.refused = error]
    /\ UNCHANGED <<client, account>>
\* The first presence is answered with those of the contacts, of the other clients of the
\* account, and with the requests that wait.
ServePresence ==
    /\ up # <<>> /\ up[1].kind = "presence" /\ up' = Tail(up)
    /\ down' = down
         \o (IF session.other THEN <<PresenceOf(Own, TRUE)>> ELSE <<>>)
         \o SetToSeq({PresenceOf(c, TRUE) :
                          c \in {c \in Contacts : account[c].to /\ account[c].online}})
         \o SetToSeq({Stanza("subscribe", c) : c \in {c \in Contacts : account[c].pending}})
    /\ session' = [session EXCEPT !.available = TRUE]
    /\ UNCHANGED <<client, account, history>>

WorldChanges(c, a, stanzas) ==
    /\ Happens /\ a # account[c]
    /\ account' = [account EXCEPT ![c] = a]
    /\ down' = down \o Becomes(c, a) \o (IF session.available THEN stanzas ELSE <<>>)
    /\ history' = [Counted EXCEPT !.edit = EditEnds(c, a, Pushes(c, a))]
    /\ UNCHANGED <<client, session, up>>
OtherClientChanges ==
    \E c \in Contacts, kind \in {"set", "remove"}, name \in Names :
        WorldChanges(c, Served([kind |-> kind, contact |-> c, name |-> name]), <<>>)
ContactComesOrGoes ==
    \E c \in Contacts :
        WorldChanges(c, [account[c] EXCEPT !.online = ~@],
                     IF account[c].to THEN <<PresenceOf(c, ~account[c].online)>> ELSE <<>>)
ContactAsks ==
    \E c \in Contacts :
        /\ ~account[c].from /\ ~account[c].pending
        /\ WorldChanges(c, [account[c] EXCEPT !.pending = TRUE], <<Stanza("subscribe", c)>>)
ContactWithdraws ==
    \E c \in Contacts :
        /\ account[c].from
        /\ WorldChanges(c, [account[c] EXCEPT !.from = FALSE], <<Stanza("unsubscribe", c)>>)
ContactAnswers ==
    \E c \in Contacts, yes \in BOOLEAN :
        /\ account[c].ask
        /\ WorldChanges(c, [account[c] EXCEPT !.ask = FALSE, !.to = yes],
                        <<Stanza(IF yes THEN "subscribed" ELSE "unsubscribed", c)>>)
OtherClientComesOrGoes ==
    /\ Happens /\ history' = Counted
    /\ session' = [session EXCEPT !.other = ~@]
    /\ down' = IF session.available THEN Append(down, PresenceOf(Own, session'.other)) ELSE down
    /\ UNCHANGED <<client, account, up>>

\* The list stays as it is until the next connection fills it.
LoseRosterConnection ==
    /\ client.online
    /\ client' = [client EXCEPT !.online = FALSE, !.filled = FALSE]
    /\ session' = [session EXCEPT !.available = FALSE, !.interested = FALSE]
    /\ up' = <<>> /\ down' = <<>>
    /\ history' = [history EXCEPT !.edit = [c \in Contacts |-> NoName]]
    /\ UNCHANGED account
-----------------------------------------------------------------------------
RosterNext ==
    \/ fill \/ add \/ subscribe \/ unsubscribe \/ cancel \/ remove \/ synchronize
    \/ ackSubscriptionRequest \/ setName
    \/ handleIqID \/ handleIq \/ handlePresence \/ handleSubscription \/ handleResult
    \/ Serve \/ Refuse \/ ServeRoster \/ ServePresence
    \/ OtherClientChanges \/ OtherClientComesOrGoes \/ ContactComesOrGoes
    \/ ContactAsks \/ ContactWithdraws \/ ContactAnswers \/ LoseRosterConnection

RosterSpec == RosterInit /\ [][RosterNext]_rosterVars
-----------------------------------------------------------------------------
(***************************************************************************)
(* Properties.                                                             *)
(***************************************************************************)
Settled ==
    client.online /\ client.filled /\ up = <<>> /\ down = <<>> /\ ~history.refused

ItemTrue(c) ==
    LET item == client.items[c]
    IN  /\ <<item.to, item.from, item.ask>>
               = <<account[c].to, account[c].from, account[c].ask>>
        /\ item.changed \/ item.name = account[c].name
        /\ item.shown <=> account[c].to /\ account[c].online

\* When nothing is under way the roster is that of the server, but for edits that are to be
\* synchronized, and the listener has been told of every contact.  Presences are those of the
\* contacts, and that of the own account unless it was kept from an earlier connection.
\* A listener that answers at once leaves no request of a contact open.
Mirrored ==
    Settled =>
        /\ DOMAIN client.items = Listed /\ client.told = Listed
        /\ \A c \in Listed : ItemTrue(c)
        /\ history.stale \/ client.self = session.other
        /\ client.sync => \A c \in Contacts : ~account[c].pending

\* An edit is kept until the server has it: it is lost only when the connection is, or when
\* a push with another name comes or was under way when it was made.
EditsKept ==
    \A c \in Contacts :
        history.edit[c] # NoName =>
            /\ c \in DOMAIN client.items /\ client.items[c].name = history.edit[c]
            /\ client.items[c].changed \/ account[c].name = history.edit[c]

\* Whoever changes the list of contacts, the client, other clients or the contacts, in
\* whatever order and over however many connections (RosterManager::mergeRoster, mergePush,
\* handlePresence, synchronize): the client has it right in the end and loses no edit.  A
\* server that refuses the roster is the exception.
RosterTrue == Mirrored /\ EditsKept
=============================================================================
