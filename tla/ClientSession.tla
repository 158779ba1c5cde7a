--------------------------- MODULE ClientSession ---------------------------
(***************************************************************************)
(* The login of a gloox client: the layers of the stream (TLS and          *)
(* compression), authentication with and without SASL, binding a resource, *)
(* the session, the roster, the first presence, what the listeners of the  *)
(* connection are told, and how all of it ends, on purpose or not.         *)
(*                                                                         *)
(* A handler runs to its end on the thread that reads from the connection, *)
(* so a handler is one step; but an application may disconnect within a    *)
(* callback, and a write may find the connection broken, both of which     *)
(* tear the session down while the handler goes on.  Handlers are written  *)
(* as operators on the record of the client, applied in the order of the   *)
(* calls.                                                                  *)
(*                                                                         *)
(* The server answers each request, by success or by failure, and offers   *)
(* features by a policy; it may end the stream, and the connection may     *)
(* break, at any time.                                                     *)
(***************************************************************************)
EXTENDS Naturals, Sequences, SequencesExt

CONSTANTS
    Settings,       \* what an application configures
    Policies,       \* what a server offers
    ChunkMax,       \* bound: stanzas in one read
    MaxConnects     \* bound: calls of connect()

ASSUME SessionAssumption ==
    /\ ChunkMax \in Nat \ {0} /\ MaxConnects \in Nat
    /\ \A set \in Settings :
          /\ set.tls \in {"disabled", "optional", "required"}
          /\ {set.encryption, set.compress, set.sasl, set.forceNonSasl,
              set.credentials, set.certificate, set.manageRoster} \subseteq BOOLEAN
    /\ \A policy \in Policies :
          /\ policy.auth \subseteq {"DIGEST-MD5", "PLAIN", "EXTERNAL", "ANONYMOUS", "iqauth"}
          /\ policy.session \subseteq {"session"}

VARIABLES
    set,            \* the configuration of the client
    policy,         \* the server's
    client,         \* the members of Client and ClientBase
    out,            \* what the client has sent and the server not yet read
    server,         \* how far the server is with the stream
    in,             \* what the server has sent and the client not yet read
    chunk,          \* the rest of the data that is being handled
    connects        \* number of calls of connect()
vars == <<set, policy, client, out, server, in, chunk, connects>>

Layers(side) == [enc |-> side.enc, comp |-> side.comp]
Mechanisms == {"DIGEST-MD5", "PLAIN", "EXTERNAL", "ANONYMOUS"}

\* A connection that was never made.  authError is the number of the connection
\* that set the authentication error, which nothing resets; the stream error is
\* set and reset within one handler and left out.  told are the callbacks of the listeners
\* since connect(); torn says that the connection ended within a handler or in the
\* middle of the data that is being handled: the rest is handled all the same.
NewClient ==
    [up |-> FALSE, broken |-> FALSE, enc |-> FALSE, comp |-> FALSE,
     authed |-> FALSE, resourceBound |-> FALSE, features |-> {},
     mechanism |-> "none", authError |-> 0, sent |-> <<>>, told |-> <<>>, torn |-> FALSE]
NewServer ==
    [enc |-> FALSE, comp |-> FALSE, authed |-> FALSE, bound |-> FALSE,
     session |-> FALSE, exchanges |-> 0, done |-> FALSE]

Init ==
    /\ set \in Settings /\ policy \in Policies
    /\ client = NewClient /\ server = NewServer
    /\ out = <<>> /\ in = <<>> /\ chunk = <<>> /\ connects = 0
-----------------------------------------------------------------------------
(***************************************************************************)
(* What the handlers call.                                                 *)
(***************************************************************************)
ToldTo(c, event) == [c EXCEPT !.told = Append(@, event)]

\* The end of a connection: the layers are cleaned up, the listeners told, and
\* init() and cleanup() reset what belonged to the connection.
EndedKeepingLayers(c) ==      \* mutant: the flag of the compression is not reset
    [ToldTo(c, "disconnected") EXCEPT
        !.up = FALSE, !.enc = FALSE,
        !.authed = FALSE, !.resourceBound = FALSE, !.features = {}]
Ended(c) ==
    [ToldTo(c, "disconnected") EXCEPT
        !.up = FALSE, !.enc = FALSE, !.comp = FALSE,
        !.authed = FALSE, !.resourceBound = FALSE, !.features = {}]

\* A write goes through the layers that are active.  One that finds the
\* connection broken ends it at once, whatever handler is writing.
Send(c, what) ==
    IF ~c.up THEN c
    ELSE IF c.broken THEN [Ended(c) EXCEPT !.torn = TRUE]
    ELSE [c EXCEPT !.sent = Append(@, [what |-> what, layers |-> Layers(c)])]
Header(c) == Send(c, "header")

Disconnect(c, reason) ==
    LET left == [c EXCEPT !.resourceBound = FALSE, !.authed = FALSE, !.features = {}]
    IN  IF ~c.up THEN left
        ELSE IF reason = "tls failed" THEN Ended(left)
        ELSE Ended(Send(left, "close"))

\* The application may disconnect in a callback.
Tell(c, event) ==
    IF event \in set.quitAt
    THEN [Disconnect(ToldTo(c, event), "user disconnected") EXCEPT !.torn = TRUE]
    ELSE ToldTo(c, event)

RosterFilled(c) == Tell(Tell(Send(c, "presence"), "finished"), "connected")

ConnectedEarly(c) ==      \* mutant: the listeners need not wait for the roster
    IF ~c.authed \/ set.manageRoster
    THEN Send(Tell(Tell(c, "finished"), "connected"), "roster")
    ELSE RosterFilled(c)
Connected(c) ==
    IF ~c.authed THEN Tell(Tell(c, "finished"), "connected")
    ELSE IF set.manageRoster THEN Send(Tell(c, "roster"), "roster")
    ELSE RosterFilled(c)

StartSASL(c, mechanism) ==
    Send([Tell(c, "authentication") EXCEPT !.mechanism = mechanism], mechanism)
NonSaslLogin(c) == Send(Tell(c, "authentication"), "auth fields")
-----------------------------------------------------------------------------
(***************************************************************************)
(* Reading and handling.                                                   *)
(***************************************************************************)
\* The handler of the first tag of the chunk has run.  A connection that has
\* been closed drops what was on its way.
After(c) ==
    /\ client' = [c EXCEPT !.sent = <<>>]
    /\ out' = IF c.up THEN out \o c.sent ELSE <<>>
    /\ in' = IF c.up THEN in ELSE <<>>
    /\ UNCHANGED <<set, policy, server, connects>>
Handled(c) ==
    /\ After([c EXCEPT !.torn = @ \/ ~client.up]) /\ chunk' = Tail(chunk)
Handling(what) == chunk # <<>> /\ Head(chunk).what = what
Arg == Head(chunk).arg

\* connect(): the name may not resolve or the connection be refused.
Connect ==
    /\ ~client.up /\ chunk = <<>> /\ connects < MaxConnects
    /\ connects' = connects + 1
    /\ server' = NewServer
    /\ \E made \in BOOLEAN :
          LET opened == [client EXCEPT !.up = TRUE, !.broken = FALSE, !.torn = FALSE,
                                       !.told = <<>>, !.sent = <<>>]
              c == IF made THEN Header(opened) ELSE Ended(opened)
          IN  client' = [c EXCEPT !.sent = <<>>] /\ out' = c.sent
    /\ in' = <<>> /\ chunk' = <<>>
    /\ UNCHANGED <<set, policy>>

Receive ==
    /\ client.up /\ chunk = <<>>
    /\ \E n \in 1 .. ChunkMax :
          /\ n <= Len(in)
          /\ chunk' = SubSeq(in, 1, n) /\ in' = SubSeq(in, n + 1, Len(in))
    /\ UNCHANGED <<set, policy, client, out, server, connects>>

\* Nothing more comes: recv() fails.
ReceiveEnd ==
    /\ client.up /\ chunk = <<>> /\ in = <<>> /\ client.broken
    /\ After(Ended(client)) /\ UNCHANGED chunk

UserDisconnect ==
    /\ client.up /\ chunk = <<>>
    /\ After(Disconnect(client, "user disconnected")) /\ UNCHANGED chunk

HandleStream ==
    /\ Handling("stream")
    /\ Handled(IF Arg = "1.0" THEN client ELSE Disconnect(client, "stream version"))
HandleStreamEnd == Handling("end") /\ Handled(Disconnect(client, "stream closed"))
HandleStreamError == Handling("error") /\ Handled(Disconnect(client, "stream error"))
-----------------------------------------------------------------------------
(***************************************************************************)
(* Stream features.  A server that offers nothing is taken for one that    *)
(* knows the old authentication.                                           *)
(***************************************************************************)
Offered == IF Arg = {} THEN {"iqauth"} ELSE Arg
Informed == [client EXCEPT !.features = Offered]
Features == Handling("features")

LacksTlsOptimistic ==      \* mutant: the layer's availability is not looked at
    set.tls = "required" /\ ~client.enc /\ ~set.encryption
LacksTls ==
    /\ set.tls = "required" /\ ~client.enc
    /\ ~set.encryption \/ "starttls" \notin Offered
WantsTls ==
    /\ set.tls # "disabled" /\ set.encryption /\ ~client.enc
    /\ "starttls" \in Offered
WantsCompression ==
    set.compress /\ ~client.comp /\ "compression" \in Offered

RefuseWithoutTls ==
    /\ Features /\ LacksTls
    /\ Handled(Disconnect(Informed, "tls not available"))
StartTls ==
    /\ Features /\ ~LacksTls /\ WantsTls
    /\ Handled(Send(Tell(Informed, "encryption"), "starttls"))
NegotiateCompression ==
    /\ Features /\ ~LacksTls /\ ~WantsTls /\ WantsCompression
    /\ Handled(Send(Tell(Informed, "compression"), "compress"))

\* With the layers settled; the second look at the compression behind the
\* authentication is never reached with another answer.
Settled == Features /\ ~LacksTls /\ ~WantsTls /\ ~WantsCompression
WithSasl == Settled /\ set.sasl

BindResource ==
    /\ WithSasl /\ client.authed
    /\ LET c == Tell(Informed, "resource binding")
       IN  Handled(IF "bind" \notin Offered THEN Informed
                   ELSE IF "unbind" \notin c.features /\ c.resourceBound THEN c
                   ELSE Send(c, "bind"))

Usable(mechanism) == mechanism \in Offered
Login ==
    /\ WithSasl /\ ~client.authed /\ set.credentials
    /\ Handled(IF Usable("DIGEST-MD5") /\ ~set.forceNonSasl THEN StartSASL(Informed, "DIGEST-MD5")
               ELSE IF Usable("PLAIN") /\ ~set.forceNonSasl THEN StartSASL(Informed, "PLAIN")
               ELSE IF Usable("iqauth") \/ set.forceNonSasl THEN NonSaslLogin(Informed)
               ELSE Disconnect(Informed, "no supported auth"))

LoginWithoutCredentials ==
    /\ WithSasl /\ ~client.authed /\ ~set.credentials
    /\ Handled(IF set.certificate /\ Usable("EXTERNAL") THEN StartSASL(Informed, "EXTERNAL")
               ELSE IF Usable("ANONYMOUS") THEN StartSASL(Informed, "ANONYMOUS")
               ELSE Connected(Tell(Informed, "finished")))

LoginWithoutSasl ==
    /\ Settled /\ ~set.sasl
    /\ Handled(IF "iqauth" \in Offered THEN NonSaslLogin(Informed)
               ELSE Disconnect(Informed, "no supported auth"))
-----------------------------------------------------------------------------
(***************************************************************************)
(* The answers to the negotiation.                                         *)
(***************************************************************************)
HandleProceed ==
    /\ Handling("proceed")
    /\ Handled(Send([client EXCEPT !.enc = TRUE], "hello"))

\* The listeners have a say in whether the certificate is good.
HandleHandshake ==
    /\ Handling("handshake")
    /\ \E accepted \in BOOLEAN :
         Handled(IF Arg = "good" /\ accepted THEN Header(client)
                 ELSE Disconnect(client, "tls failed"))

HandleCompressed ==
    /\ Handling("compressed")
    /\ Handled(Header([client EXCEPT !.comp = TRUE]))

\* processSASLError knows most of the conditions a server may give.
WithError(known) == IF known THEN [client EXCEPT !.authError = connects] ELSE client
HandleFailure ==
    /\ Handling("failure")
    /\ \E known \in BOOLEAN :
         Handled(IF Arg = "tls" THEN Disconnect(client, "tls failed")
                 ELSE IF Arg = "compression" THEN Disconnect(client, "compression failed")
                 ELSE Disconnect(WithError(known), "authentication failed"))

HandleFirstChallenge ==      \* mutant: rspauth is not answered
    /\ Handling("challenge")
    /\ Handled(IF server.exchanges = 1 THEN Send(client, "response") ELSE client)
HandleChallenge == Handling("challenge") /\ Handled(Send(client, "response"))

HandleSuccess ==
    /\ Handling("success")
    /\ Handled(Header([client EXCEPT !.authed = TRUE]))

Answered(context) == Handling("iq") /\ Arg.context = context

HandleBindOnly ==      \* mutant: no session is made
    /\ Answered("bind")
    /\ IF Arg.type # "result" THEN Handled(Tell(client, "bind error"))
       ELSE Handled(Connected(Tell([client EXCEPT !.resourceBound = TRUE], "bound")))
\* processResourceBind: a result without an address is an error as well.
HandleBind ==
    /\ Answered("bind")
    /\ IF Arg.type # "result" THEN Handled(Tell(client, "bind error"))
       ELSE LET c == Tell([client EXCEPT !.resourceBound = TRUE], "bound")
            IN  Handled(IF "session" \in c.features
                        THEN Send(Tell(c, "session creation"), "session")
                        ELSE Connected(c))

HandleSession ==
    /\ Answered("session")
    /\ Handled(IF Arg.type = "result" THEN Connected(client) ELSE Tell(client, "session error"))

\* RosterManager::handleIqID: without a roster as well as with one.
HandleRoster == Answered("roster") /\ Handled(RosterFilled(client))

\* NonSaslAuth::handleIqID.
HandleAuthError ==
    /\ Answered("auth fields") \/ Answered("auth")
    /\ Arg.type = "error"
    /\ \E known \in BOOLEAN :
         Handled(Disconnect([WithError(known) EXCEPT !.authed = FALSE], "authentication failed"))
HandleAuthFields ==
    /\ Answered("auth fields") /\ Arg.type = "result"
    /\ Handled(Send(client, "auth"))
HandleAuth ==
    /\ Answered("auth") /\ Arg.type = "result"
    /\ Handled(Connected([client EXCEPT !.authed = TRUE]))
-----------------------------------------------------------------------------
(***************************************************************************)
(* The server.                                                             *)
(***************************************************************************)
Unit(what, arg) == [what |-> what, arg |-> arg, layers |-> Layers(server)]
Present == client.up /\ ~client.broken /\ ~server.done
Reads(what) == Present /\ out # <<>> /\ Head(out).what = what
Answers(units) ==
    /\ in' = in \o units /\ out' = Tail(out)
    /\ UNCHANGED <<set, policy, client, chunk, connects>>

OffersTls == policy.tls # "never" /\ ~server.enc
Offers ==
    (IF OffersTls /\ ~server.authed THEN {"starttls"} ELSE {}) \cup
    (IF server.authed THEN {"bind"} \cup policy.session
     ELSE IF OffersTls /\ policy.tls = "needed" THEN {} ELSE policy.auth) \cup
    (IF ~server.comp /\ policy.compression = (IF server.authed THEN "late" ELSE "early")
     THEN {"compression"} ELSE {})

ServerStream ==
    /\ Reads("header")
    /\ \E version \in {"1.0", "none"} :
         Answers(<<Unit("stream", version), Unit("features", Offers)>>)
    /\ UNCHANGED server

ServerTls ==
    /\ Reads("starttls")
    /\ \/ Answers(<<Unit("proceed", "")>>) /\ server' = [server EXCEPT !.enc = TRUE]
       \/ Answers(<<Unit("failure", "tls")>>) /\ UNCHANGED server

ServerHandshake ==
    /\ Reads("hello")
    /\ \E result \in {"good", "bad"} : Answers(<<Unit("handshake", result)>>)
    /\ UNCHANGED server

ServerCompression ==
    /\ Reads("compress")
    /\ \/ Answers(<<Unit("compressed", "")>>) /\ server' = [server EXCEPT !.comp = TRUE]
       \/ Answers(<<Unit("failure", "compression")>>) /\ UNCHANGED server

\* DIGEST-MD5 takes two challenges, the others none.
ServerSasl ==
    /\ \E mechanism \in Mechanisms : Reads(mechanism) \/ Reads("response")
    /\ LET more == Head(out).what = "DIGEST-MD5" \/ server.exchanges = 1
       IN  \/ /\ more
              /\ Answers(<<Unit("challenge", "")>>)
              /\ server' = [server EXCEPT !.exchanges = @ + 1]
           \/ /\ ~more
              /\ Answers(<<Unit("success", "")>>)
              /\ server' = [server EXCEPT !.authed = TRUE]
           \/ Answers(<<Unit("failure", "sasl")>>) /\ UNCHANGED server

ServerIq ==
    /\ \E context \in {"bind", "session", "roster", "auth fields", "auth"} :
        /\ Reads(context)
        /\ \E type \in {"result", "error"} :
            /\ Answers(<<Unit("iq", [context |-> context, type |-> type])>>)
            /\ server' = IF type = "error" THEN server
                         ELSE [server EXCEPT !.bound = @ \/ context = "bind",
                                             !.session = @ \/ context = "session",
                                             !.authed = @ \/ context = "auth"]

ServerIgnores == Reads("presence") /\ Answers(<<>>) /\ UNCHANGED server

ServerEnds ==
    /\ Present
    /\ \E what \in {"end", "error"} : in' = Append(in, Unit(what, ""))
    /\ server' = [server EXCEPT !.done = TRUE]
    /\ UNCHANGED <<set, policy, client, out, chunk, connects>>

\* The connection breaks; it is noticed by the next write or read.
Break ==
    /\ Present
    /\ client' = [client EXCEPT !.broken = TRUE]
    /\ UNCHANGED <<set, policy, out, server, in, chunk, connects>>
-----------------------------------------------------------------------------
Handle ==
    \/ HandleStream \/ HandleStreamEnd \/ HandleStreamError
    \/ RefuseWithoutTls \/ StartTls \/ NegotiateCompression
    \/ BindResource \/ Login \/ LoginWithoutCredentials \/ LoginWithoutSasl
    \/ HandleProceed \/ HandleHandshake \/ HandleCompressed \/ HandleFailure
    \/ HandleChallenge \/ HandleSuccess
    \/ HandleBind \/ HandleSession \/ HandleRoster \/ HandleAuthError
    \/ HandleAuthFields \/ HandleAuth
ClientStep == Receive \/ ReceiveEnd \/ Handle
ServerStep ==
    \/ ServerStream \/ ServerTls \/ ServerHandshake \/ ServerCompression
    \/ ServerSasl \/ ServerIq \/ ServerIgnores

Next == Connect \/ UserDisconnect \/ ClientStep \/ ServerStep \/ ServerEnds \/ Break

Spec == Init /\ [][Next]_vars

\* The receive loop of a blocking connect() goes on, and so does the server.
FairSpec == Spec /\ WF_vars(ClientStep) /\ WF_vars(ServerStep)
-----------------------------------------------------------------------------
(***************************************************************************)
(* Properties.                                                             *)
(***************************************************************************)
Tells(event) == {k \in DOMAIN client.told : client.told[k] = event}

\* Whatever layers are switched on, refused, or left over from a connection that
\* broke: each side reads what the other has written with the layers it was
\* written in.
LayersAgree ==
    client.up /\ ~client.broken =>
        /\ out # <<>> => Head(out).layers = Layers(server)
        /\ in # <<>> /\ chunk = <<>> => Head(in).layers = Layers(client)

\* A client that is configured to require TLS sends nothing but the negotiation
\* before it has it (gloox.h: TLSRequired).
NothingWithoutTls ==
    set.tls = "required" =>
        \A k \in DOMAIN out :
            out[k].layers.enc \/ out[k].what \in {"header", "starttls", "close"}

\* When the listeners are told that the client is connected, the server has come
\* as far: a client with credentials is logged in there, its resource is bound
\* (the old authentication does without) and a session the server wants is made.
ConnectedMeansReady ==
    client.up /\ Tells("connected") # {} =>
        /\ set.credentials => server.authed
        /\ server.authed => server.bound \/ client.mechanism = "none"
        /\ server.bound => "session" \notin policy.session \/ server.session

\* What the listeners are told of a connection, unless it ended in the middle of
\* what was being handled: that it is connected at most once, that it has ended
\* once, last of all, and exactly when it has.
ToldInOrder ==
    client.torn \/ connects = 0 \/
        /\ \A j, k \in Tells("connected") : j = k
        /\ Tells("disconnected") = IF client.up THEN {} ELSE {Len(client.told)}

\* The stream is written and read alike, and as secretly as it was asked for.
LayersTrue == LayersAgree /\ NothingWithoutTls
\* The listeners are told what is so, when it is so.
ToldTruth == ConnectedMeansReady /\ ToldInOrder

\* Every connection is established or ends, unless the server refuses to bind the
\* resource or to make the session: then it is up to the application.
LoginEnds ==
    client.up ~> \/ ~client.up
                 \/ {"connected", "bind error", "session error"} \cap
                        {client.told[k] : k \in DOMAIN client.told} # {}
=============================================================================
