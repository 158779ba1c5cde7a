------------------------ MODULE ClientSessionProofs ------------------------
(***************************************************************************)
(* Proofs about the login of a gloox client, for every setting of the      *)
(* client, every server and any number of connections.                     *)
(*                                                                         *)
(* The argument is that client and server take turns: of everything that   *)
(* is under way at most one thing waits for an answer (Lockstep).  So when *)
(* one of them switches a layer on, nothing is under way that was written  *)
(* without it, and whatever is under way says how far the other is.        *)
(***************************************************************************)
EXTENDS ClientSession, SequenceTheorems, TLAPS

-----------------------------------------------------------------------------
(***************************************************************************)
(* Types.                                                                  *)
(***************************************************************************)
\* What is written and read, told and offered.
Words ==
    {"header", "starttls", "hello", "compress", "response", "bind", "session", "roster",
     "presence", "auth fields", "auth", "close", "DIGEST-MD5", "PLAIN", "EXTERNAL", "ANONYMOUS",
     "none", "1.0", "", "good", "bad", "tls", "compression", "sasl", "iqauth", "result", "error",
     "stream", "features", "proceed", "failure", "handshake", "compressed", "challenge",
     "success", "iq", "end", "connected", "disconnected", "encryption", "authentication",
     "resource binding", "bind error", "bound", "session creation", "session error", "finished"}

LayerFlags == [enc : BOOLEAN, comp : BOOLEAN]
Messages == [what : Words, layers : LayerFlags]
Units ==
    [what : Words, layers : LayerFlags,
     arg : Words \cup (SUBSET Words) \cup [context : Words, type : Words]]
Clients ==
    [up : BOOLEAN, broken : BOOLEAN, enc : BOOLEAN, comp : BOOLEAN,
     authed : BOOLEAN, resourceBound : BOOLEAN, features : SUBSET Words,
     mechanism : Words, authError : Nat, sent : Seq(Messages), told : Seq(Words),
     torn : BOOLEAN]
Servers ==
    [enc : BOOLEAN, comp : BOOLEAN, authed : BOOLEAN, bound : BOOLEAN,
     session : BOOLEAN, exchanges : Nat, done : BOOLEAN]

TypeOK ==
    /\ set \in Settings /\ policy \in Policies
    /\ client \in Clients /\ client.sent = <<>>
    /\ server \in Servers /\ connects \in Nat
    /\ out \in Seq(Messages) /\ in \in Seq(Units) /\ chunk \in Seq(Units)
-----------------------------------------------------------------------------
(***************************************************************************)
(* The invariant.                                                          *)
(***************************************************************************)
\* What the server has sent and the client not handled yet.
Flight == chunk \o in
Final(unit) == unit.what \in {"end", "error"}

\* Requests and answers take turns; only the end of the stream comes unasked, and last.
LockstepOf(sent, flight, done) ==
    /\ Len(sent) <= 1
    /\ \A i \in DOMAIN flight :
         IF Final(flight[i]) THEN i = Len(flight) /\ done
         ELSE /\ sent = <<>>
              /\ i = 1 \/ (i = 2 /\ flight[1].what = "stream" /\ flight[2].what = "features")
Lockstep == LockstepOf(out, Flight, server.done)

\* A client without a connection has no layers and has nothing to handle that would
\* give it one.
Down(c) == ~c.up /\ ~c.enc /\ ~c.comp /\ ~c.authed /\ ~c.resourceBound
DownIsClean ==
    ~client.up =>
        /\ Down(client) /\ in = <<>> /\ out = <<>>
        /\ \A i \in DOMAIN chunk : Final(chunk[i]) \/ chunk[i].what = "features"

IqIn(flight, context, type) ==
    \E i \in DOMAIN flight : /\ flight[i].what = "iq"
                             /\ flight[i].arg = [context |-> context, type |-> type]
Under(flight, what) == \E i \in DOMAIN flight : flight[i].what = what

\* Where the server is, as far as the client does not know it from what is under way.
EncIs(c, flight, s) == s.enc = (c.enc \/ Under(flight, "proceed"))
CompIs(c, flight, s) == s.comp = (c.comp \/ Under(flight, "compressed"))
AuthedIs(c, flight, s) ==
    s.authed = (c.authed \/ Under(flight, "success") \/ IqIn(flight, "auth", "result"))
SidesAgree ==
    client.up => /\ EncIs(client, Flight, server) /\ CompIs(client, Flight, server)
                 /\ AuthedIs(client, Flight, server)

\* What is under way was written with the layers it will be read with.
WrittenRight ==
    client.up =>
        /\ \A i \in DOMAIN out : out[i].layers = Layers(server)
        /\ \A i \in DOMAIN Flight :
              Flight[i].layers = IF Final(Flight[i]) THEN Layers(server) ELSE Layers(client)

\* A client that requires TLS sends what is secret, and so gets the answers, with TLS only.
Secret == {"challenge", "success", "iq", "compressed"}
SecretWithTls ==
    set.tls = "required" =>
        /\ \A i \in DOMAIN out : \/ out[i].layers.enc
                                 \/ out[i].what \in {"header", "starttls", "close"}
        /\ client.up => \A i \in DOMAIN Flight : Flight[i].what \in Secret => client.enc

\* What a client does as it is set and as the server offers it: encrypt, and log in by SASL.
TlsUsed == policy.tls # "never" /\ set.tls # "disabled" /\ set.encryption
Auths == IF policy.tls = "needed" /\ ~TlsUsed THEN {} ELSE policy.auth
SaslChosen ==
    /\ set.sasl
    /\ \/ set.credentials /\ ~set.forceNonSasl /\ {"DIGEST-MD5", "PLAIN"} \cap Auths # {}
       \/ ~set.credentials /\ set.certificate /\ "EXTERNAL" \in Auths
       \/ ~set.credentials /\ "ANONYMOUS" \in Auths
AsChosen ==
    /\ client.mechanism # "none" => SaslChosen
    /\ server.enc => TlsUsed
    /\ server.bound => server.authed
    /\ \A i \in DOMAIN Flight : Flight[i].what = "features" => Flight[i].arg = Offers

\* What may be under way to the server, and what it says of both.
MaySend(c, s, what) ==
    /\ what = "starttls" => TlsUsed
    /\ what = "bind" => c.authed /\ policy.session \subseteq c.features
    /\ what = "session" => s.bound /\ c.authed
    /\ what \in {"auth fields", "auth"} => ~c.authed /\ ~SaslChosen /\ ~s.bound
Ready(c, s) ==
    /\ set.credentials => s.authed
    /\ s.authed => s.bound \/ c.mechanism = "none"
    /\ s.bound => "session" \notin policy.session \/ s.session
Asked(c, s, what) == MaySend(c, s, what) /\ (what = "roster" => Ready(c, s))
Conversation ==
    client.up =>
        /\ \A i \in DOMAIN out : Asked(client, server, out[i].what)
        /\ \A i \in DOMAIN Flight :
              Flight[i].what = "iq" =>
                /\ \E context \in {"bind", "session", "roster", "auth fields", "auth"},
                      type \in {"result", "error"} :
                         Flight[i].arg = [context |-> context, type |-> type]
                /\ Flight[i].arg.context # "auth" =>
                      Asked(client, server, Flight[i].arg.context)
                /\ Flight[i].arg.context = "auth" => ~SaslChosen /\ ~server.bound
        /\ IqIn(Flight, "bind", "result") => server.bound
        /\ IqIn(Flight, "session", "result") => server.session

\* What the listeners have been told.
Once(c) == \A j, k \in DOMAIN c.told : c.told[j] = "connected" /\ c.told[k] = "connected" => j = k
ToldRight ==
    /\ client.torn => ~client.up
    /\ client.up /\ (\E k \in DOMAIN client.told : client.told[k] = "connected") =>
         /\ Ready(client, server)
         /\ \A i \in DOMAIN out : out[i].what = "presence"
         /\ \A i \in DOMAIN Flight : Final(Flight[i])
    /\ client.up => connects > 0
    /\ ToldInOrder

SessionInv ==
    /\ Lockstep /\ DownIsClean /\ SidesAgree /\ WrittenRight /\ SecretWithTls
    /\ AsChosen /\ Conversation /\ ToldRight
-----------------------------------------------------------------------------
(***************************************************************************)
(* What the handlers call.  A call either does what it says or finds the   *)
(* session torn down, and then the layers are gone and the rest of the     *)
(* handler does nothing that lasts.                                        *)
(***************************************************************************)
Whole(c) == c \in Clients /\ (c.up \/ Down(c))
Lost(c, d) == Down(d) /\ d.mechanism = c.mechanism /\ (c.up \/ c.torn => d.torn)
Wrote(c, what) == [c EXCEPT !.sent = Append(@, [what |-> what, layers |-> Layers(c)])]

LEMMA ToldToIs ==
    ASSUME NEW c \in Clients, NEW event \in Words
    PROVE  /\ ToldTo(c, event) \in Clients
           /\ ToldTo(c, event).told = Append(c.told, event)
           /\ ToldTo(c, event).up = c.up /\ ToldTo(c, event).broken = c.broken
           /\ Layers(ToldTo(c, event)) = Layers(c) /\ ToldTo(c, event).authed = c.authed
           /\ ToldTo(c, event).resourceBound = c.resourceBound
           /\ ToldTo(c, event).features = c.features
           /\ ToldTo(c, event).mechanism = c.mechanism
           /\ ToldTo(c, event).sent = c.sent /\ ToldTo(c, event).torn = c.torn
           /\ Down(c) => Down(ToldTo(c, event))
<1>1. c.told \in Seq(Words) BY DEF Clients
<1>2. Append(c.told, event) \in Seq(Words) BY <1>1
<1> DEFINE told == Append(c.told, event)
<1>3. ToldTo(c, event) = [c EXCEPT !.told = told] BY DEF ToldTo
<1> HIDE DEF told
<1> QED BY <1>2, <1>3 DEF told, Clients, Layers, Down

LEMMA EndedIs ==
    ASSUME NEW c \in Clients
    PROVE  /\ Ended(c) \in Clients /\ Down(Ended(c))
           /\ Ended(c).mechanism = c.mechanism /\ Ended(c).torn = c.torn
           /\ Ended(c).told = Append(c.told, "disconnected")
<1> DEFINE t == ToldTo(c, "disconnected")
<1>1. /\ t \in Clients /\ t.told = Append(c.told, "disconnected")
      /\ t.mechanism = c.mechanism /\ t.torn = c.torn
  BY ToldToIs DEF Words
<1>2. Ended(c) = [t EXCEPT !.up = FALSE, !.enc = FALSE, !.comp = FALSE,
                           !.authed = FALSE, !.resourceBound = FALSE, !.features = {}]
  BY DEF Ended
<1> HIDE DEF t
<1> QED BY <1>1, <1>2 DEF Clients, Down

LEMMA WroteIs ==
    ASSUME NEW c \in Clients, NEW what \in Words
    PROVE  Wrote(c, what) \in Clients
<1>1. [what |-> what, layers |-> Layers(c)] \in Messages
  BY DEF Messages, LayerFlags, Layers, Clients
<1>2. Append(c.sent, [what |-> what, layers |-> Layers(c)]) \in Seq(Messages)
  BY <1>1 DEF Clients
<1> QED BY <1>2 DEF Wrote, Clients

\* ConnectionTCPClient and ClientBase::send: written, unless the connection is gone.
LEMMA SendIs ==
    ASSUME NEW c, Whole(c), NEW what \in Words
    PROVE  /\ Whole(Send(c, what))
           /\ (c.up /\ Send(c, what) = Wrote(c, what)) \/ Lost(c, Send(c, what))
<1>0. c \in Clients BY DEF Whole
<1>1. CASE ~c.up
  BY <1>1 DEF Send, Whole, Lost, Down
<1>2. CASE c.up /\ c.broken
  <2>1. Ended(c) \in Clients /\ Down(Ended(c)) /\ Ended(c).mechanism = c.mechanism
    BY <1>0, EndedIs
  <2> DEFINE e == Ended(c)
  <2>2. Send(c, what) = [e EXCEPT !.torn = TRUE]
    BY <1>2 DEF Send
  <2> HIDE DEF e
  <2>3. e \in Clients /\ Down(e) /\ e.mechanism = c.mechanism
    BY <2>1 DEF e
  <2> QED BY <2>2, <2>3 DEF Whole, Lost, Down, Clients
<1>3. CASE c.up /\ ~c.broken
  <2>1. Send(c, what) = Wrote(c, what)
    BY <1>3 DEF Send, Wrote
  <2>2. Wrote(c, what).up
    BY <1>0, <1>3 DEF Wrote, Clients
  <2> QED BY <1>0, <1>3, <2>1, <2>2, WroteIs DEF Whole
<1> QED BY <1>0, <1>1, <1>2, <1>3 DEF Clients

LEMMA DisconnectIs ==
    ASSUME NEW c, Whole(c), NEW reason
    PROVE  LET d == Disconnect(c, reason) IN
           /\ Whole(d) /\ Down(d) /\ d.mechanism = c.mechanism
           /\ c.torn => d.torn
           /\ c.up => d.torn \/ (d.torn = c.torn /\ d.told = Append(c.told, "disconnected"))
<1> DEFINE left == [c EXCEPT !.resourceBound = FALSE, !.authed = FALSE, !.features = {}]
<1>0. c \in Clients BY DEF Whole
<1>1. /\ left \in Clients /\ left.mechanism = c.mechanism /\ left.torn = c.torn
      /\ left.told = c.told /\ left.up = c.up
      /\ c.up \/ Down(left)
  BY <1>0 DEF Whole, Clients, Down
<1>2. CASE ~c.up
  BY <1>1, <1>2 DEF Disconnect, Whole, Down
<1>3. CASE c.up /\ reason = "tls failed"
  <2>1. Disconnect(c, reason) = Ended(left)
    BY <1>3 DEF Disconnect
  <2> QED BY <1>1, <2>1, EndedIs DEF Whole
<1>4. CASE c.up /\ reason # "tls failed"
  <2> DEFINE s == Send(left, "close")
  <2>1. Disconnect(c, reason) = Ended(s)
    BY <1>4 DEF Disconnect
  <2>2. Whole(left)
    BY <1>1, <1>4 DEF Whole
  <2> HIDE DEF left
  <2>3. \A what \in Words :
          /\ Whole(Send(left, what))
          /\ (left.up /\ Send(left, what) = Wrote(left, what)) \/ Lost(left, Send(left, what))
    BY <2>2, SendIs
  <2>w. "close" \in Words BY DEF Words
  <2>4. s \in Clients /\ s.mechanism = c.mechanism /\ (c.torn => s.torn)
        /\ (s.torn \/ (s.told = c.told /\ s.torn = c.torn))
    <3>1. CASE s = Wrote(left, "close")
      BY <1>1, <2>3, <2>w, <3>1 DEF Wrote, Whole, Clients
    <3>2. CASE Lost(left, s)
      BY <1>1, <1>4, <2>3, <2>w, <3>2 DEF Lost, Whole
    <3> QED BY <2>3, <2>w, <3>1, <3>2
  <2> HIDE DEF s
  <2>5. /\ Ended(s) \in Clients /\ Down(Ended(s)) /\ Ended(s).mechanism = s.mechanism
        /\ Ended(s).torn = s.torn /\ Ended(s).told = Append(s.told, "disconnected")
    BY <2>4, EndedIs
  <2> QED BY <2>1, <2>4, <2>5 DEF Whole
<1> QED BY <1>0, <1>2, <1>3, <1>4 DEF Clients

\* The listeners, one of whom may disconnect.
LEMMA TellIs ==
    ASSUME NEW c, Whole(c), NEW event \in Words
    PROVE  /\ Whole(Tell(c, event))
           /\ (c.up /\ Tell(c, event) = ToldTo(c, event)) \/ Lost(c, Tell(c, event))
<1> DEFINE t == ToldTo(c, event)
<1>0. c \in Clients BY DEF Whole
<1>1. Whole(t) /\ t.up = c.up /\ t.mechanism = c.mechanism /\ t.torn = c.torn /\ (c.up \/ Down(t))
  BY <1>0, ToldToIs DEF Whole, Down
<1>2. CASE event \notin set.quitAt
  BY <1>0, <1>1, <1>2 DEF Tell, Lost, Clients
<1>3. CASE event \in set.quitAt
  <2> DEFINE d == Disconnect(t, "user disconnected")
  <2>1. Tell(c, event) = [d EXCEPT !.torn = TRUE]
    BY <1>3 DEF Tell
  <2>2. Whole(d) /\ Down(d) /\ d.mechanism = t.mechanism
    BY <1>1, DisconnectIs
  <2> HIDE DEF d, t
  <2> QED BY <1>1, <2>1, <2>2 DEF Whole, Lost, Down, Clients
<1> QED BY <1>2, <1>3
-----------------------------------------------------------------------------
(***************************************************************************)
(* What is under way.                                                      *)
(***************************************************************************)
LEMMA FlightIs ==
    ASSUME TypeOK
    PROVE  /\ Flight \in Seq(Units) /\ Len(Flight) = Len(chunk) + Len(in)
           /\ \A i \in DOMAIN chunk : i \in DOMAIN Flight /\ Flight[i] = chunk[i]
           /\ \A i \in DOMAIN in : Len(chunk) + i \in DOMAIN Flight /\ Flight[Len(chunk) + i] = in[i]
BY DEF TypeOK, Flight

\* Its first unit has been handled.
LEMMA FlightAfter ==
    ASSUME TypeOK, chunk # <<>>, chunk' = Tail(chunk), in' \in {in, <<>>}
    PROVE  /\ chunk' \in Seq(Units) /\ in' \in Seq(Units) /\ Flight' \in Seq(Units)
           /\ Head(chunk) = Flight[1] /\ 1 \in DOMAIN Flight
           /\ Len(Flight') <= Len(Flight) - 1
           /\ \A i \in DOMAIN Flight' : i + 1 \in DOMAIN Flight /\ Flight'[i] = Flight[i + 1]
<1>1. chunk \in Seq(Units) /\ in \in Seq(Units) BY DEF TypeOK
<1>2. Flight' = chunk' \o in' BY DEF Flight
<1>3. /\ Flight \in Seq(Units) /\ Len(Flight) = Len(chunk) + Len(in)
      /\ \A i \in DOMAIN chunk : i \in DOMAIN Flight /\ Flight[i] = chunk[i]
      /\ \A i \in DOMAIN in : Len(chunk) + i \in DOMAIN Flight /\ Flight[Len(chunk) + i] = in[i]
  BY FlightIs
<1>4. /\ chunk' \in Seq(Units) /\ Len(chunk') = Len(chunk) - 1 /\ Len(chunk) >= 1
      /\ \A i \in DOMAIN chunk' : i + 1 \in DOMAIN chunk /\ chunk'[i] = chunk[i + 1]
  BY <1>1
<1>5a. in' = in \/ in' = <<>> OBVIOUS
<1>5b. <<>> \in Seq(Units) /\ Len(<<>>) = 0 OBVIOUS
<1>5. in' \in Seq(Units) /\ (in' = in \/ (in' = <<>> /\ Len(in') = 0)) BY <1>1, <1>5a, <1>5b
<1>6. Head(chunk) = Flight[1] /\ 1 \in DOMAIN Flight
  BY <1>1, <1>3
<1> DEFINE q == chunk'  p == in'  f == Flight'
<1>7. f = q \o p BY <1>2
<1> HIDE DEF q, p, f
<1>8. q \in Seq(Units) /\ p \in Seq(Units) BY <1>4, <1>5 DEF q, p
<1>9. /\ f \in Seq(Units) /\ Len(f) = Len(q) + Len(p)
      /\ \A i \in DOMAIN f : IF i <= Len(q) THEN i \in DOMAIN q /\ f[i] = q[i]
                             ELSE i - Len(q) \in DOMAIN p /\ f[i] = p[i - Len(q)]
  BY <1>7, <1>8
<1>10. Len(f) <= Len(Flight) - 1
  BY <1>1, <1>3, <1>4, <1>5, <1>9 DEF q, p
<1>11. ASSUME NEW i \in DOMAIN f
       PROVE  i + 1 \in DOMAIN Flight /\ f[i] = Flight[i + 1]
  <2>0. i \in 1..Len(f) BY <1>9
  <2>1. CASE i <= Len(q)
    BY <1>3, <1>4, <1>9, <2>1 DEF q
  <2>2. CASE ~(i <= Len(q))
    <3>1. p = in BY <1>5, <1>9, <2>0, <2>2 DEF p
    <3>2. i - Len(q) \in DOMAIN in /\ f[i] = in[i - Len(q)] BY <1>9, <2>2, <3>1
    <3>3. Len(chunk) + (i - Len(q)) = i + 1 BY <1>4, <2>0, <1>1 DEF q
    <3> QED BY <1>3, <3>2, <3>3
  <2> QED BY <2>1, <2>2
<1> QED BY <1>4, <1>5, <1>6, <1>9, <1>10, <1>11 DEF f

\* Behind anything but the beginning of a stream there is at most the end of it.
LEMMA RestIsFinal ==
    ASSUME TypeOK, Lockstep, NEW i \in DOMAIN Flight, i # 1
    PROVE  /\ Final(Flight[i]) => i = Len(Flight) /\ server.done
           /\ ~Final(Flight[i]) => Flight[1].what = "stream" /\ Flight[i].what = "features"
BY FlightIs DEF Lockstep, LockstepOf

\* What an answer follows, was asked.
LEMMA AnswerAlone ==
    ASSUME TypeOK, Lockstep, NEW i \in DOMAIN Flight, ~Final(Flight[i])
    PROVE  out = <<>>
BY DEF Lockstep, LockstepOf

LEMMA FirstIs ==
    ASSUME TypeOK, Lockstep, chunk # <<>>
    PROVE  /\ Head(chunk) \in Units /\ Head(chunk) = Flight[1] /\ 1 \in DOMAIN Flight
           /\ \A what : what \notin {"end", "error", "features"} =>
                 (Under(Flight, what) <=> Head(chunk).what = what)
           /\ \A context, type :
                 IqIn(Flight, context, type) <=>
                    Head(chunk).what = "iq" /\ Head(chunk).arg = [context |-> context, type |-> type]
<1>1. Head(chunk) \in Units /\ Head(chunk) = Flight[1] /\ 1 \in DOMAIN Flight
  <2>1. chunk \in Seq(Units) BY DEF TypeOK
  <2>2. Head(chunk) = chunk[1] /\ 1 \in DOMAIN chunk BY <2>1
  <2> QED BY <2>1, <2>2, FlightIs
<1>2. ASSUME NEW i \in DOMAIN Flight, ~Final(Flight[i]), Flight[i].what # "features"
      PROVE  i = 1
  BY <1>2, RestIsFinal
<1>3. ASSUME NEW what, what \notin {"end", "error", "features"}
      PROVE  Under(Flight, what) <=> Head(chunk).what = what
  BY <1>1, <1>2, <1>3 DEF Under, Final
<1>4. ASSUME NEW context, NEW type
      PROVE  IqIn(Flight, context, type) <=>
                Head(chunk).what = "iq" /\ Head(chunk).arg = [context |-> context, type |-> type]
  BY <1>1, <1>2 DEF IqIn, Final
<1> QED BY <1>1, <1>3, <1>4
-----------------------------------------------------------------------------
(***************************************************************************)
(* A handler: what the client has become is in order if it is a client     *)
(* that may go on, or one whose session has ended as it should.            *)
(***************************************************************************)
Fine(d) ==
    /\ client.up /\ ~d.torn
    /\ Layers(d) = Layers(server) /\ d.authed = server.authed
    /\ Len(d.sent) <= 1
    /\ \A i \in DOMAIN d.sent :
          /\ d.sent[i].layers = Layers(d) /\ Asked(d, server, d.sent[i].what)
          /\ set.tls = "required" => d.enc \/ d.sent[i].what \in {"header", "starttls", "close"}
    /\ Once(d) /\ \A k \in DOMAIN d.told : d.told[k] # "disconnected"
    /\ (\E k \in DOMAIN d.told : d.told[k] = "connected") =>
          /\ Ready(d, server)
          /\ \A i \in DOMAIN d.sent : d.sent[i].what = "presence"

Outcome(d) ==
    /\ Whole(d)
    /\ d.mechanism # "none" => SaslChosen
    /\ d.up => Fine(d)
    /\ client.up /\ ~d.up => d.torn \/ d.told = Append(client.told, "disconnected")

\* What has been told before the end.
LEMMA ToldBefore ==
    ASSUME TypeOK, SessionInv, client.up
    PROVE  /\ connects > 0 /\ ~client.torn /\ Once(client)
           /\ \A k \in DOMAIN client.told : client.told[k] # "disconnected"
<1>1. connects > 0 /\ ~client.torn /\ ToldInOrder BY DEF SessionInv, ToldRight
<1>2. connects # 0 BY <1>1 DEF TypeOK
<1> QED BY <1>1, <1>2 DEF ToldInOrder, Tells, Once

LEMMA ToldAtTheEnd ==
    ASSUME NEW c, NEW d, c \in Clients, d \in Clients, Once(c),
           \A k \in DOMAIN c.told : c.told[k] # "disconnected",
           d.told = Append(c.told, "disconnected")
    PROVE  /\ Once(d)
           /\ {k \in DOMAIN d.told : d.told[k] = "disconnected"} = {Len(d.told)}
<1>1. c.told \in Seq(Words) /\ d.told \in Seq(Words) BY DEF Clients
<1> DEFINE a == c.told  b == d.told
<1>2. b = Append(a, "disconnected") OBVIOUS
<1>3. a \in Seq(Words) /\ b \in Seq(Words) BY <1>1
<1>4. \A k \in DOMAIN a : a[k] # "disconnected" OBVIOUS
<1>5. \A j, k \in DOMAIN a : a[j] = "connected" /\ a[k] = "connected" => j = k BY DEF Once
<1> HIDE DEF a, b
<1>6. /\ Len(b) = Len(a) + 1 /\ Len(a) \in Nat /\ DOMAIN b = 1..Len(b) /\ DOMAIN a = 1..Len(a)
      /\ \A k \in DOMAIN a : b[k] = a[k]
      /\ b[Len(b)] = "disconnected"
      /\ \A k \in DOMAIN b : k \in DOMAIN a \/ k = Len(b)
  <2>1. "disconnected" \in Words BY DEF Words
  <2> QED BY <1>2, <1>3, <2>1
<1>7. Len(b) \in DOMAIN b BY <1>6
<1>8. \A j, k \in DOMAIN b : b[j] = "connected" /\ b[k] = "connected" => j = k
  BY <1>5, <1>6
<1>9. {k \in DOMAIN b : b[k] = "disconnected"} = {Len(b)}
  BY <1>4, <1>6, <1>7
<1> QED BY <1>8, <1>9 DEF a, b, Once

LEMMA HandledIs ==
    ASSUME NEW d, d \in Clients, Handled(d), TypeOK
    PROVE  /\ client' \in Clients /\ client'.sent = <<>>
           /\ client'.up = d.up /\ client'.enc = d.enc /\ client'.comp = d.comp
           /\ client'.authed = d.authed /\ client'.resourceBound = d.resourceBound
           /\ client'.features = d.features /\ client'.mechanism = d.mechanism
           /\ client'.told = d.told /\ client'.torn = (d.torn \/ ~client.up)
           /\ out' = (IF d.up THEN out \o d.sent ELSE <<>>) /\ in' = (IF d.up THEN in ELSE <<>>)
           /\ out' \in Seq(Messages)
           /\ chunk' = Tail(chunk)
           /\ set' = set /\ policy' = policy /\ server' = server /\ connects' = connects
<1> DEFINE c == [d EXCEPT !.torn = @ \/ ~client.up]
<1>1. /\ c \in Clients /\ c.up = d.up /\ c.enc = d.enc /\ c.comp = d.comp
      /\ c.authed = d.authed /\ c.resourceBound = d.resourceBound /\ c.features = d.features
      /\ c.mechanism = d.mechanism /\ c.told = d.told /\ c.torn = (d.torn \/ ~client.up)
      /\ c.sent = d.sent
  BY DEF Clients, TypeOK
<1>2. After(c) /\ chunk' = Tail(chunk) BY DEF Handled
<1> HIDE DEF c
<1>3. /\ client' = [c EXCEPT !.sent = <<>>]
      /\ out' = (IF c.up THEN out \o c.sent ELSE <<>>) /\ in' = (IF c.up THEN in ELSE <<>>)
      /\ set' = set /\ policy' = policy /\ server' = server /\ connects' = connects
  BY <1>2 DEF After
<1>4. <<>> \in Seq(Messages) OBVIOUS
<1>5. out \in Seq(Messages) /\ d.sent \in Seq(Messages) BY DEF TypeOK, Clients
<1>6. out \o d.sent \in Seq(Messages) BY <1>5
<1> QED BY <1>1, <1>2, <1>3, <1>4, <1>6 DEF Clients

\* The session is over, or had been, and what is left of the chunk goes nowhere.
LEMMA EndKeeps ==
    ASSUME TypeOK, SessionInv, NEW d, Outcome(d), chunk # <<>>, Handled(d), ~d.up
    PROVE  TypeOK' /\ SessionInv'
<1>0. d \in Clients /\ Down(d) BY DEF Outcome, Whole
<1>1. /\ client' \in Clients /\ client'.sent = <<>>
      /\ ~client'.up /\ client'.enc = d.enc /\ client'.comp = d.comp
      /\ client'.authed = d.authed /\ client'.resourceBound = d.resourceBound
      /\ client'.mechanism = d.mechanism
      /\ client'.told = d.told /\ client'.torn = (d.torn \/ ~client.up)
      /\ out' = <<>> /\ in' = <<>> /\ out' \in Seq(Messages)
      /\ chunk' = Tail(chunk)
      /\ set' = set /\ policy' = policy /\ server' = server /\ connects' = connects
  BY <1>0, HandledIs
<1>2. /\ chunk' \in Seq(Units) /\ in' \in Seq(Units) /\ Flight' \in Seq(Units)
      /\ Head(chunk) = Flight[1] /\ 1 \in DOMAIN Flight
      /\ Len(Flight') <= Len(Flight) - 1
      /\ \A i \in DOMAIN Flight' : i + 1 \in DOMAIN Flight /\ Flight'[i] = Flight[i + 1]
  BY <1>1, FlightAfter
<1>3. TypeOK'
  BY <1>1, <1>2 DEF TypeOK
<1>4. /\ Flight \in Seq(Units) /\ Len(Flight) \in Nat /\ Len(Flight') \in Nat
      /\ DOMAIN Flight = 1..Len(Flight) /\ DOMAIN Flight' = 1..Len(Flight')
  BY <1>2, FlightIs
<1>5. ASSUME NEW i \in DOMAIN Flight'
      PROVE  /\ Final(Flight'[i]) => i = Len(Flight') /\ server.done
             /\ ~Final(Flight'[i]) => i = 1 /\ Flight'[i].what = "features"
  <2>1. i + 1 \in DOMAIN Flight /\ i + 1 # 1 /\ i \in Nat BY <1>2, <1>4
  <2>2. /\ Final(Flight[i + 1]) => i + 1 = Len(Flight) /\ server.done
        /\ ~Final(Flight[i + 1]) => Flight[1].what = "stream" /\ Flight[i + 1].what = "features"
    BY <2>1, RestIsFinal DEF SessionInv
  <2>3. ~Final(Flight[i + 1]) => i + 1 = 2
    BY <2>1 DEF SessionInv, Lockstep, LockstepOf
  <2> QED BY <1>2, <1>4, <2>1, <2>2, <2>3
<1>6. Lockstep'
  BY <1>1, <1>5 DEF Lockstep, LockstepOf, Final
<1>7. DownIsClean'
  <2>1. Flight' = chunk' BY <1>1, <1>2 DEF Flight
  <2> QED BY <1>0, <1>1, <1>5, <2>1 DEF DownIsClean, Down, Final
<1>8. SidesAgree' /\ WrittenRight' /\ Conversation'
  BY <1>1 DEF SidesAgree, WrittenRight, Conversation
<1>9. SecretWithTls'
  BY <1>1 DEF SecretWithTls
<1>10. AsChosen'
  BY <1>1, <1>2 DEF SessionInv, AsChosen, Outcome, SaslChosen, TlsUsed, Auths, Offers, OffersTls
<1>11. ToldRight'
  <2>1. CASE client'.torn
    BY <1>1, <2>1 DEF ToldRight, ToldInOrder
  <2>2. CASE ~client'.torn
    <3>1. client.up /\ d.told = Append(client.told, "disconnected")
      BY <1>1, <2>2 DEF Outcome
    <3>2. Once(client) /\ \A k \in DOMAIN client.told : client.told[k] # "disconnected"
      BY <3>1, ToldBefore
    <3>3. /\ Once(d)
          /\ {k \in DOMAIN d.told : d.told[k] = "disconnected"} = {Len(d.told)}
      BY <1>0, <3>1, <3>2, ToldAtTheEnd DEF TypeOK
    <3> QED BY <1>1, <3>3 DEF ToldRight, ToldInOrder, Tells, Once
  <2> QED BY <2>1, <2>2
<1> QED BY <1>3, <1>6, <1>7, <1>8, <1>9, <1>10, <1>11 DEF SessionInv

\* The session goes on, and it is the server's turn or nobody's.
LEMMA FineKeeps ==
    ASSUME TypeOK, SessionInv, NEW d, Outcome(d), chunk # <<>>, Handled(d), d.up,
           Head(chunk).what \notin {"stream", "end", "error"}
    PROVE  TypeOK' /\ SessionInv'
<1>0. d \in Clients /\ Fine(d) /\ client.up BY DEF Outcome, Whole, Fine
<1>1. /\ client' \in Clients /\ client'.sent = <<>>
      /\ client'.up /\ client'.enc = d.enc /\ client'.comp = d.comp
      /\ client'.authed = d.authed /\ client'.features = d.features
      /\ client'.mechanism = d.mechanism
      /\ client'.told = d.told /\ ~client'.torn
      /\ out' = out \o d.sent /\ in' = in /\ out' \in Seq(Messages)
      /\ chunk' = Tail(chunk)
      /\ set' = set /\ policy' = policy /\ server' = server /\ connects' = connects
  <2>1. client'.torn = (d.torn \/ ~client.up) BY <1>0, HandledIs
  <2>2. ~client'.torn BY <1>0, <2>1 DEF Fine
  <2> QED BY <1>0, <2>2, HandledIs
<1>2. /\ chunk' \in Seq(Units) /\ in' \in Seq(Units) /\ Flight' \in Seq(Units)
      /\ Head(chunk) = Flight[1] /\ 1 \in DOMAIN Flight
      /\ Len(Flight') <= Len(Flight) - 1
      /\ \A i \in DOMAIN Flight' : i + 1 \in DOMAIN Flight /\ Flight'[i] = Flight[i + 1]
  BY <1>1, FlightAfter
<1>3. TypeOK'
  BY <1>1, <1>2 DEF TypeOK
<1>4. /\ Flight \in Seq(Units) /\ Len(Flight) \in Nat /\ Len(Flight') \in Nat
      /\ DOMAIN Flight = 1..Len(Flight) /\ DOMAIN Flight' = 1..Len(Flight')
  BY <1>2, FlightIs
<1>5. ASSUME NEW i \in DOMAIN Flight'
      PROVE  Final(Flight'[i]) /\ i = Len(Flight') /\ server.done
  <2>1. i + 1 \in DOMAIN Flight /\ i + 1 # 1 /\ i \in Nat BY <1>2, <1>4
  <2>2. /\ Final(Flight[i + 1]) => i + 1 = Len(Flight) /\ server.done
        /\ ~Final(Flight[i + 1]) => Flight[1].what = "stream"
    BY <2>1, RestIsFinal DEF SessionInv
  <2> QED BY <1>2, <1>4, <2>1, <2>2
<1>6. out' = d.sent
  <2>1. ~Final(Flight[1]) BY <1>2 DEF Final
  <2>2. out = <<>> BY <1>2, <2>1, AnswerAlone DEF SessionInv
  <2>3. d.sent \in Seq(Messages) BY <1>0 DEF Clients
  <2> QED BY <1>1, <2>2, <2>3
<1>7. Lockstep'
  BY <1>0, <1>1, <1>5, <1>6 DEF Lockstep, LockstepOf, Final, Fine
<1>8. DownIsClean'
  BY <1>1 DEF DownIsClean
<1>9. \A what, type : ~IqIn(Flight', what, type) /\ (~(what \in {"end", "error"}) => ~Under(Flight', what))
  BY <1>5 DEF IqIn, Under, Final
<1>10. SidesAgree'
  <2>1. Layers(d) = Layers(server) /\ d.authed = server.authed BY <1>0 DEF Fine
  <2>2. d.enc = server.enc /\ d.comp = server.comp BY <2>1 DEF Layers
  <2>3. /\ ~Under(Flight', "proceed") /\ ~Under(Flight', "compressed")
        /\ ~Under(Flight', "success") /\ ~IqIn(Flight', "auth", "result")
    BY <1>9
  <2>4. d.enc \in BOOLEAN /\ d.comp \in BOOLEAN /\ d.authed \in BOOLEAN BY <1>0 DEF Clients
  <2> QED BY <1>1, <2>1, <2>2, <2>3, <2>4 DEF SidesAgree, EncIs, CompIs, AuthedIs
<1>11. Layers(client') = Layers(d) /\ Layers(client') = Layers(server')
  BY <1>0, <1>1 DEF Fine, Layers
<1>12. WrittenRight'
  <2>1. ASSUME NEW i \in DOMAIN Flight' PROVE Flight'[i].layers = Layers(server')
    <3>1. i + 1 \in DOMAIN Flight BY <1>2
    <3>2. Final(Flight[i + 1]) BY <1>2, <1>5, <3>1
    <3>3. Flight[i + 1].layers = Layers(server) BY <1>0, <3>1, <3>2 DEF SessionInv, WrittenRight
    <3> QED BY <1>1, <1>2, <3>3
  <2>2. \A i \in DOMAIN out' : out'[i].layers = Layers(server')
    BY <1>0, <1>1, <1>6, <1>11 DEF Fine
  <2> QED BY <1>5, <2>1, <2>2 DEF WrittenRight
<1>13. SecretWithTls'
  <2>1. \A i \in DOMAIN out' : out'[i].layers.enc = d.enc
    BY <1>0, <1>6, <1>11 DEF Fine, Layers
  <2> QED BY <1>0, <1>1, <1>5, <1>6, <2>1 DEF SecretWithTls, Fine, Secret, Final
<1>14. AsChosen'
  <2>1. \A i \in DOMAIN Flight' : Flight'[i].what # "features" BY <1>5 DEF Final
  <2>2. /\ d.mechanism # "none" => SaslChosen
        /\ server.enc => TlsUsed
        /\ server.bound => server.authed
    BY DEF SessionInv, AsChosen, Outcome
  <2> QED BY <1>1, <2>1, <2>2 DEF AsChosen, SaslChosen, TlsUsed, Auths
<1>15. Conversation'
  <2>1. (\A i \in DOMAIN out : Asked(client, server, out[i].what))'
    BY <1>0, <1>6, <1>1 DEF Fine, Asked, MaySend, Ready, TlsUsed, SaslChosen, Auths
  <2>2. ~IqIn(Flight', "bind", "result") /\ ~IqIn(Flight', "session", "result") BY <1>9
  <2>3. \A i \in DOMAIN Flight' : Flight'[i].what # "iq" BY <1>5 DEF Final
  <2> QED BY <2>1, <2>2, <2>3 DEF Conversation
<1>16. ToldRight'
  <2>1. Once(client') /\ \A k \in DOMAIN client'.told : client'.told[k] # "disconnected"
    BY <1>0, <1>1 DEF Fine, Once
  <2>2. connects' > 0 BY <1>0, <1>1, ToldBefore
  <2>3. ToldInOrder'
    BY <1>1, <2>1 DEF ToldInOrder, Tells, Once
  <2>4. (\E k \in DOMAIN client'.told : client'.told[k] = "connected") =>
          /\ Ready(client', server')
          /\ \A i \in DOMAIN out' : out'[i].what = "presence"
    BY <1>0, <1>1, <1>6 DEF Fine, Ready
  <2> QED BY <1>1, <1>5, <2>2, <2>3, <2>4 DEF ToldRight, Ready
<1> QED BY <1>3, <1>7, <1>8, <1>10, <1>12, <1>13, <1>14, <1>15, <1>16 DEF SessionInv
-----------------------------------------------------------------------------
(***************************************************************************)
(* In the middle of a handler: the listeners have not been told yet that   *)
(* the client is connected.                                                *)
(***************************************************************************)
Going(c) ==
    /\ Whole(c)
    /\ c.mechanism # "none" => SaslChosen
    /\ c.up => Fine(c) /\ \A k \in DOMAIN c.told : c.told[k] # "connected"
    /\ client.up /\ ~c.up => c.torn
\* The same client, told something or having lost the connection.
StillAs(c, d) ==
    d.up => /\ c.up /\ Layers(d) = Layers(c) /\ d.authed = c.authed /\ d.features = c.features
            /\ d.mechanism = c.mechanism

LEMMA GoingEnough == ASSUME NEW c, Going(c) PROVE Outcome(c)
BY DEF Going, Outcome

LEMMA GoingLost ==
    ASSUME TypeOK, NEW c, Going(c), NEW d, Whole(d), Lost(c, d)
    PROVE  Going(d) /\ StillAs(c, d)
BY DEF Going, Lost, Down, StillAs

LEMMA GoingTell ==
    ASSUME TypeOK, NEW c, Going(c), NEW event \in Words, event \notin {"connected", "disconnected"}
    PROVE  Going(Tell(c, event)) /\ StillAs(c, Tell(c, event))
           /\ (Tell(c, event).up => Tell(c, event).sent = c.sent)
<1> DEFINE d == Tell(c, event)
<1>1. Whole(d) /\ ((c.up /\ d = ToldTo(c, event)) \/ Lost(c, d))
  BY TellIs DEF Going
<1>2. CASE Lost(c, d)
  <2> HIDE DEF d
  <2>1. Going(d) /\ StillAs(c, d) /\ ~d.up BY <1>1, <1>2, GoingLost DEF Lost, Down
  <2> QED BY <2>1 DEF d
<1>3. CASE c.up /\ d = ToldTo(c, event)
  <2>0. c \in Clients BY DEF Going, Whole
  <2> HIDE DEF d
  <2>t. d = ToldTo(c, event) BY <1>3
  <2>1. /\ d.told = Append(c.told, event) /\ d.up = c.up /\ d.broken = c.broken
        /\ Layers(d) = Layers(c) /\ d.authed = c.authed /\ d.features = c.features
        /\ d.mechanism = c.mechanism /\ d.sent = c.sent /\ d.torn = c.torn
    BY <2>0, <2>t, ToldToIs
  <2>2. c.told \in Seq(Words) BY <2>0 DEF Clients
  <2>3. \A k \in DOMAIN d.told : (k \in DOMAIN c.told /\ d.told[k] = c.told[k]) \/ d.told[k] = event
    <3> DEFINE a == c.told  b == d.told
    <3>1. b = Append(a, event) /\ a \in Seq(Words) BY <2>1, <2>2
    <3> HIDE DEF a, b
    <3>2. \A k \in DOMAIN b : (k \in DOMAIN a /\ b[k] = a[k]) \/ b[k] = event
      BY <3>1
    <3> QED BY <3>2 DEF a, b
  <2>4. Fine(c) /\ \A k \in DOMAIN c.told : c.told[k] # "connected"
    BY <1>3 DEF Going
  <2>5. \A k \in DOMAIN d.told : d.told[k] \notin {"connected", "disconnected"}
    BY <2>3, <2>4 DEF Fine
  <2>6. d.enc = c.enc /\ d.comp = c.comp BY <2>1 DEF Layers
  <2>7. \A what : Asked(d, server, what) <=> Asked(c, server, what)
    BY <2>1 DEF Asked, MaySend, Ready
  <2>8. Fine(d)
    BY <2>1, <2>4, <2>5, <2>6, <2>7 DEF Fine, Once
  <2>9. Going(d)
    BY <1>1, <1>3, <2>1, <2>5, <2>8 DEF Going
  <2> QED BY <1>3, <2>1, <2>9 DEF StillAs, d
<1> QED BY <1>1, <1>2, <1>3

LEMMA GoingSend ==
    ASSUME TypeOK, NEW c, Going(c), NEW what \in Words,
           c.up => /\ c.sent = <<>> /\ Asked(c, server, what)
                   /\ set.tls = "required" =>
                         c.enc \/ what \in {"header", "starttls", "close"}
    PROVE  Going(Send(c, what)) /\ StillAs(c, Send(c, what))
           /\ (Send(c, what).up =>
                 \A i \in DOMAIN Send(c, what).sent : Send(c, what).sent[i].what = what)
<1> DEFINE d == Send(c, what)
<1>1. Whole(d) /\ ((c.up /\ d = Wrote(c, what)) \/ Lost(c, d))
  BY SendIs DEF Going
<1>2. CASE Lost(c, d)
  <2> HIDE DEF d
  <2>1. Going(d) /\ StillAs(c, d) /\ ~d.up BY <1>1, <1>2, GoingLost DEF Lost, Down
  <2> QED BY <2>1 DEF d
<1>3. CASE c.up /\ d = Wrote(c, what)
  <2>0. c \in Clients /\ c.sent = <<>> BY <1>3 DEF Going, Whole
  <2> DEFINE m == [what |-> what, layers |-> Layers(c)]
  <2>1. m.what = what /\ m.layers = Layers(c) OBVIOUS
  <2>2. d = [c EXCEPT !.sent = <<m>>]
    <3>1. Append(<<>>, m) = <<m>> OBVIOUS
    <3> QED BY <1>3, <2>0, <3>1 DEF Wrote
  <2> HIDE DEF d, m
  <2>3. /\ d.sent = <<m>> /\ d.up /\ d.told = c.told
        /\ Layers(d) = Layers(c) /\ d.authed = c.authed /\ d.features = c.features
        /\ d.mechanism = c.mechanism /\ d.torn = c.torn /\ d.enc = c.enc
    BY <1>3, <2>0, <2>2 DEF Clients, Layers
  <2>4. Fine(c) /\ \A k \in DOMAIN c.told : c.told[k] # "connected"
    BY <1>3 DEF Going
  <2>5. Len(d.sent) = 1 /\ \A i \in DOMAIN d.sent : d.sent[i] = m
    BY <2>3
  <2>6. Asked(d, server, what)
    BY <1>3, <2>3 DEF Asked, MaySend, Ready
  <2>7. Fine(d)
    BY <1>3, <2>1, <2>3, <2>4, <2>5, <2>6 DEF Fine, Once
  <2>8. Going(d)
    BY <1>1, <1>3, <2>3, <2>4, <2>7 DEF Going
  <2> QED BY <1>3, <2>1, <2>3, <2>5, <2>8 DEF StillAs, d
<1> QED BY <1>1, <1>2, <1>3

LEMMA GoingConnected ==
    ASSUME TypeOK, NEW c, Going(c),
           c.up => Ready(c, server) /\ \A i \in DOMAIN c.sent : c.sent[i].what = "presence"
    PROVE  Outcome(Tell(c, "connected"))
<1> DEFINE d == Tell(c, "connected")
<1>0. "connected" \in Words BY DEF Words
<1>1. Whole(d) /\ ((c.up /\ d = ToldTo(c, "connected")) \/ Lost(c, d))
  BY <1>0, TellIs DEF Going
<1>2. CASE Lost(c, d)
  <2> HIDE DEF d
  <2>1. Going(d) BY <1>1, <1>2, GoingLost
  <2>2. Outcome(d) BY <2>1, GoingEnough
  <2> QED BY <2>2 DEF d
<1>3. CASE c.up /\ d = ToldTo(c, "connected")
  <2>0. c \in Clients BY DEF Going, Whole
  <2> HIDE DEF d
  <2>t. d = ToldTo(c, "connected") BY <1>3
  <2>1. /\ d.told = Append(c.told, "connected") /\ d.up = c.up
        /\ Layers(d) = Layers(c) /\ d.authed = c.authed /\ d.features = c.features
        /\ d.mechanism = c.mechanism /\ d.sent = c.sent /\ d.torn = c.torn
    BY <1>0, <2>0, <2>t, ToldToIs
  <2>2. c.told \in Seq(Words) BY <2>0 DEF Clients
  <2>4. Fine(c) /\ \A k \in DOMAIN c.told : c.told[k] # "connected"
    BY <1>3 DEF Going
  <2>3. /\ \A k \in DOMAIN d.told : d.told[k] # "disconnected"
        /\ Once(d)
    <3> DEFINE a == c.told  b == d.told
    <3>1. b = Append(a, "connected") /\ a \in Seq(Words) BY <2>1, <2>2
    <3>2. \A k \in DOMAIN a : a[k] # "disconnected" /\ a[k] # "connected" BY <2>4 DEF Fine
    <3> HIDE DEF a, b
    <3>3. \A k \in DOMAIN b : (k \in DOMAIN a /\ b[k] = a[k]) \/ (k = Len(a) + 1 /\ b[k] = "connected")
      BY <3>1
    <3>4. \A j, k \in DOMAIN b : b[j] = "connected" /\ b[k] = "connected" => j = k
      BY <3>2, <3>3
    <3> QED BY <3>2, <3>3, <3>4 DEF a, b, Once
  <2>6. d.enc = c.enc /\ d.comp = c.comp BY <2>1 DEF Layers
  <2>7. \A what : Asked(d, server, what) <=> Asked(c, server, what)
    BY <2>1 DEF Asked, MaySend, Ready
  <2>8. Ready(d, server) BY <1>3, <2>1 DEF Ready
  <2>9. Fine(d)
    BY <1>3, <2>1, <2>3, <2>4, <2>6, <2>7, <2>8 DEF Fine
  <2> QED BY <1>1, <1>3, <2>1, <2>9 DEF Going, Outcome, d
<1> QED BY <1>1, <1>2, <1>3
-----------------------------------------------------------------------------
(***************************************************************************)
(* How a handler begins.                                                   *)
(***************************************************************************)
\* A client that nothing has been said to yet.
SameClient(c) ==
    /\ Whole(c) /\ c.up = client.up /\ c.told = client.told /\ c.torn = client.torn
    /\ c.sent = <<>> /\ c.mechanism = client.mechanism

LEMMA EndOutcome ==
    ASSUME TypeOK, SessionInv, NEW c, SameClient(c), NEW reason
    PROVE  Outcome(Disconnect(c, reason))
<1> DEFINE d == Disconnect(c, reason)
<1>1. /\ Whole(d) /\ Down(d) /\ d.mechanism = c.mechanism
      /\ c.up => d.torn \/ (d.torn = c.torn /\ d.told = Append(c.told, "disconnected"))
  BY DisconnectIs DEF SameClient
<1> HIDE DEF d
<1>2. client.mechanism # "none" => SaslChosen BY DEF SessionInv, AsChosen
<1>3. Outcome(d) BY <1>1, <1>2 DEF SameClient, Outcome, Down
<1> QED BY <1>3 DEF d

\* Only the features of a stream and its end are handled without a connection.
LEMMA UpUnless ==
    ASSUME TypeOK, SessionInv, chunk # <<>>,
           Head(chunk).what \notin {"features", "end", "error"}
    PROVE  client.up
<1>1. chunk \in Seq(Units) BY DEF TypeOK
<1>2. 1 \in DOMAIN chunk /\ Head(chunk) = chunk[1] BY <1>1
<1> QED BY <1>2 DEF SessionInv, DownIsClean, Final

LEMMA NotConnectedYet ==
    ASSUME TypeOK, SessionInv, chunk # <<>>, Head(chunk).what \notin {"end", "error"}, client.up
    PROVE  \A k \in DOMAIN client.told : client.told[k] # "connected"
<1>1. 1 \in DOMAIN Flight /\ Flight[1] = Head(chunk) BY FirstIs DEF SessionInv
<1> QED BY <1>1 DEF SessionInv, ToldRight, Final

LEMMA StartGoing ==
    ASSUME TypeOK, SessionInv, chunk # <<>>, Head(chunk).what \notin {"end", "error"},
           NEW c, SameClient(c),
           c.up => Layers(c) = Layers(server) /\ c.authed = server.authed
    PROVE  Going(c)
<1>1. client.mechanism # "none" => SaslChosen BY DEF SessionInv, AsChosen
<1>2. CASE ~c.up
  BY <1>1, <1>2 DEF SameClient, Going
<1>3. CASE c.up
  <2>1. client.up BY <1>3 DEF SameClient
  <2>2. ~client.torn /\ Once(client) /\ \A k \in DOMAIN client.told : client.told[k] # "disconnected"
    BY <2>1, ToldBefore
  <2>3. \A k \in DOMAIN client.told : client.told[k] # "connected"
    BY <2>1, NotConnectedYet
  <2>4. c.sent = <<>> /\ Len(c.sent) = 0 /\ DOMAIN c.sent = {} BY DEF SameClient
  <2>5. Fine(c)
    BY <1>3, <2>1, <2>2, <2>3, <2>4 DEF Fine, SameClient, Once
  <2> QED BY <1>1, <1>3, <2>3, <2>5 DEF Going, SameClient
<1> QED BY <1>2, <1>3

\* While the server waits for nothing, the two sides are equally far.
LEMMA SidesEqual ==
    ASSUME TypeOK, SessionInv, client.up,
           ~Under(Flight, "proceed"), ~Under(Flight, "compressed")
    PROVE  Layers(client) = Layers(server)
<1>1. client.enc \in BOOLEAN /\ client.comp \in BOOLEAN BY DEF TypeOK, Clients
<1> QED BY <1>1 DEF SessionInv, SidesAgree, EncIs, CompIs, Layers

LEMMA AuthedEqual ==
    ASSUME TypeOK, SessionInv, client.up,
           ~Under(Flight, "success"), ~IqIn(Flight, "auth", "result")
    PROVE  client.authed = server.authed
<1>1. client.authed \in BOOLEAN BY DEF TypeOK, Clients
<1> QED BY <1>1 DEF SessionInv, SidesAgree, AuthedIs

LEMMA ClientIsWhole ==
    ASSUME TypeOK, SessionInv
    PROVE  SameClient(client)
BY DEF TypeOK, SessionInv, DownIsClean, SameClient, Whole

\* A client that handles an answer which changes neither its layers nor who it is.
LEMMA ClientGoing ==
    ASSUME TypeOK, SessionInv, chunk # <<>>,
           Head(chunk).what \notin {"end", "error", "proceed", "compressed", "success"},
           Head(chunk).what = "iq" =>
              Head(chunk).arg # [context |-> "auth", type |-> "result"]
    PROVE  /\ Going(client)
           /\ client.up => Layers(client) = Layers(server) /\ client.authed = server.authed
<1>1. client.up => /\ ~Under(Flight, "proceed") /\ ~Under(Flight, "compressed")
                   /\ ~Under(Flight, "success") /\ ~IqIn(Flight, "auth", "result")
  BY FirstIs DEF SessionInv
<1>2. client.up => Layers(client) = Layers(server) /\ client.authed = server.authed
  BY <1>1, SidesEqual, AuthedEqual
<1> QED BY <1>2, StartGoing, ClientIsWhole

\* The features are those the server offers, and the client has noted them.
LEMMA FeaturesAre ==
    ASSUME TypeOK, SessionInv, Features
    PROVE  /\ "starttls" \in Offered <=> OffersTls /\ ~server.authed
           /\ \A m \in Mechanisms :
                 m \in Offered <=> /\ m \in policy.auth /\ ~server.authed
                                   /\ ~(OffersTls /\ policy.tls = "needed")
           /\ server.authed => policy.session \subseteq Offered
           /\ SameClient(Informed) /\ Going(Informed) /\ Informed.features = Offered
           /\ Informed.authed = client.authed
           /\ client.up => Layers(Informed) = Layers(server) /\ Informed.authed = server.authed
                           /\ Layers(client) = Layers(server)
<1>0. chunk # <<>> /\ Head(chunk).what = "features"
  BY DEF Features, Handling
<1>1. Arg = Offers
  <2>1. 1 \in DOMAIN Flight /\ Flight[1] = Head(chunk) BY <1>0, FirstIs DEF SessionInv
  <2> QED BY <1>0, <2>1 DEF SessionInv, AsChosen, Arg
<1>2. /\ policy.auth \subseteq {"DIGEST-MD5", "PLAIN", "EXTERNAL", "ANONYMOUS", "iqauth"}
      /\ policy.session \subseteq {"session"}
  BY SessionAssumption DEF TypeOK
<1>3. "starttls" \in Offers <=> OffersTls /\ ~server.authed
  BY <1>2 DEF Offers
<1>4. \A m \in Mechanisms : m \in Offers <=> /\ m \in policy.auth /\ ~server.authed
                                             /\ ~(OffersTls /\ policy.tls = "needed")
  BY <1>2 DEF Offers, Mechanisms
<1>5. server.authed => policy.session \subseteq Offers
  BY DEF Offers
<1>6. Offered = Offers \/ (Offered = {"iqauth"} /\ Offers = {})
  BY <1>1 DEF Offered
<1>7. server.authed => "bind" \in Offers
  BY DEF Offers
<1>8. Offered \in SUBSET Words
  <2>1. Offers \in SUBSET Words
    BY <1>2, ZenonT(60) DEF Offers, Words
  <2>2. "iqauth" \in Words BY DEF Words
  <2> QED BY <1>6, <2>1, <2>2
<1>9. /\ Informed \in Clients /\ Informed.up = client.up /\ Informed.told = client.told
      /\ Informed.torn = client.torn /\ Informed.sent = client.sent
      /\ Informed.mechanism = client.mechanism /\ Informed.features = Offered
      /\ Informed.authed = client.authed /\ Layers(Informed) = Layers(client)
      /\ Down(client) => Down(Informed)
  BY <1>8 DEF Informed, TypeOK, Clients, Layers, Down
<1>10. SameClient(client) BY ClientIsWhole
<1>11. SameClient(Informed) BY <1>9, <1>10 DEF SameClient, Whole
<1>12. client.up => Layers(client) = Layers(server) /\ client.authed = server.authed
  BY <1>0, ClientGoing
<1>13. Going(Informed)
  BY <1>0, <1>9, <1>11, <1>12, StartGoing DEF SameClient
<1>14. \A m \in Mechanisms \cup {"starttls"} : m # "iqauth"
  BY DEF Mechanisms
<1>15. \A m \in Mechanisms \cup {"starttls"} : m \in Offered <=> m \in Offers
  BY <1>6, <1>14
<1> QED BY <1>3, <1>4, <1>5, <1>6, <1>7, <1>9, <1>11, <1>12, <1>13, <1>15
-----------------------------------------------------------------------------
(***************************************************************************)
(* The handlers, one by one.                                               *)
(***************************************************************************)
LEMMA OutcomeKeeps ==
    ASSUME TypeOK, SessionInv, NEW d, Outcome(d), chunk # <<>>, Handled(d),
           d.up => Head(chunk).what \notin {"stream", "end", "error"}
    PROVE  TypeOK' /\ SessionInv'
<1>1. CASE d.up BY <1>1, FineKeeps
<1>2. CASE ~d.up BY <1>2, EndKeeps
<1> QED BY <1>1, <1>2

LEMMA EndingKeeps ==
    ASSUME TypeOK, SessionInv, NEW c, SameClient(c), NEW reason, chunk # <<>>,
           Handled(Disconnect(c, reason))
    PROVE  TypeOK' /\ SessionInv'
<1>1. Outcome(Disconnect(c, reason)) BY EndOutcome
<1>2. ~Disconnect(c, reason).up BY DisconnectIs DEF SameClient, Down
<1> QED BY <1>1, <1>2, OutcomeKeeps

LEMMA GoingKeeps ==
    ASSUME TypeOK, SessionInv, NEW d, Going(d), chunk # <<>>, Handled(d),
           Head(chunk).what \notin {"stream", "end", "error"}
    PROVE  TypeOK' /\ SessionInv'
BY GoingEnough, OutcomeKeeps

\* The listeners are told that the client is connected when it is.
LEMMA RosterFilledOutcome ==
    ASSUME TypeOK, NEW c, Going(c),
           c.up => /\ c.sent = <<>> /\ Ready(c, server)
                   /\ set.tls = "required" => c.enc
    PROVE  Outcome(RosterFilled(c))
<1> DEFINE s == Send(c, "presence")  t == Tell(s, "finished")
<1>1. "presence" \in Words /\ "finished" \in Words BY DEF Words
<1>2. Asked(c, server, "presence") BY DEF Asked, MaySend
<1>3. Going(s) /\ StillAs(c, s) /\ (s.up => \A i \in DOMAIN s.sent : s.sent[i].what = "presence")
  BY <1>1, <1>2, GoingSend
<1> HIDE DEF s
<1>4. Going(t) /\ StillAs(s, t) /\ (t.up => t.sent = s.sent)
  BY <1>1, <1>3, GoingTell
<1> HIDE DEF t
<1>5. t.up => /\ Ready(t, server) /\ \A i \in DOMAIN t.sent : t.sent[i].what = "presence"
  BY <1>3, <1>4 DEF StillAs, Ready
<1>6. Outcome(Tell(t, "connected")) BY <1>4, <1>5, GoingConnected
<1> QED BY <1>6 DEF RosterFilled, s, t

LEMMA ConnectedOutcome ==
    ASSUME TypeOK, NEW c, Going(c),
           c.up => /\ c.sent = <<>> /\ Ready(c, server)
                   /\ set.tls = "required" => c.enc
    PROVE  Outcome(Connected(c))
<1>0. "finished" \in Words /\ "roster" \in Words BY DEF Words
<1>1. CASE ~c.authed
  <2> DEFINE t == Tell(c, "finished")
  <2>1. Going(t) /\ StillAs(c, t) /\ (t.up => t.sent = c.sent) BY <1>0, GoingTell
  <2> HIDE DEF t
  <2>2. t.up => /\ Ready(t, server) /\ \A i \in DOMAIN t.sent : t.sent[i].what = "presence"
    BY <2>1 DEF StillAs, Ready
  <2>3. Outcome(Tell(t, "connected")) BY <2>1, <2>2, GoingConnected
  <2> QED BY <1>1, <2>3 DEF Connected, t
<1>2. CASE c.authed /\ set.manageRoster
  <2> DEFINE t == Tell(c, "roster")
  <2>1. Going(t) /\ StillAs(c, t) /\ (t.up => t.sent = c.sent) BY <1>0, GoingTell
  <2> HIDE DEF t
  <2>2. t.up => /\ t.sent = <<>> /\ Asked(t, server, "roster")
                /\ set.tls = "required" => t.enc
    BY <2>1 DEF StillAs, Ready, Asked, MaySend, Layers
  <2>3. Going(Send(t, "roster")) BY <1>0, <2>1, <2>2, GoingSend
  <2>4. Outcome(Send(t, "roster")) BY <2>3, GoingEnough
  <2> QED BY <1>2, <2>4 DEF Connected, t
<1>3. CASE c.authed /\ ~set.manageRoster
  BY <1>3, RosterFilledOutcome DEF Connected
<1> QED BY <1>1, <1>2, <1>3

\* A SASL mechanism that was chosen is started.
LEMMA StartSASLGoing ==
    ASSUME TypeOK, NEW c, Going(c), NEW m \in Mechanisms, SaslChosen,
           c.up => c.sent = <<>> /\ (set.tls = "required" => c.enc)
    PROVE  Going(StartSASL(c, m))
<1> DEFINE t == Tell(c, "authentication")  u == [t EXCEPT !.mechanism = m]
<1>1. "authentication" \in Words /\ m \in Words BY DEF Words, Mechanisms
<1>2. Going(t) /\ StillAs(c, t) /\ (t.up => t.sent = c.sent) BY <1>1, GoingTell
<1> HIDE DEF t
<1>3. t \in Clients BY <1>2 DEF Going, Whole
<1>4. /\ u \in Clients /\ u.up = t.up /\ u.told = t.told /\ u.torn = t.torn /\ u.sent = t.sent
      /\ u.authed = t.authed /\ Layers(u) = Layers(t) /\ u.enc = t.enc
      /\ (Down(t) => Down(u))
  BY <1>1, <1>3 DEF Clients, Layers, Down
<1> HIDE DEF u
<1>5. u.up => u.sent = <<>> /\ Len(u.sent) = 0 /\ DOMAIN u.sent = {}
  BY <1>2, <1>4 DEF StillAs
<1>6. Going(u)
  BY <1>2, <1>4, <1>5 DEF Going, Whole, Fine, Once
<1>7. Asked(u, server, m) BY DEF Asked, MaySend, Mechanisms
<1>8. u.up => (set.tls = "required" => u.enc)
  BY <1>2, <1>4 DEF StillAs, Layers
<1>9. Going(Send(u, m)) BY <1>1, <1>5, <1>6, <1>7, <1>8, GoingSend
<1> QED BY <1>9 DEF StartSASL, t, u

LEMMA NonSaslLoginGoing ==
    ASSUME TypeOK, NEW c, Going(c),
           c.up => /\ c.sent = <<>> /\ (set.tls = "required" => c.enc)
                   /\ MaySend(c, server, "auth fields")
    PROVE  Going(NonSaslLogin(c))
<1> DEFINE t == Tell(c, "authentication")
<1>1. "authentication" \in Words /\ "auth fields" \in Words BY DEF Words
<1>2. Going(t) /\ StillAs(c, t) /\ (t.up => t.sent = c.sent) BY <1>1, GoingTell
<1> HIDE DEF t
<1>3. t.up => /\ t.sent = <<>> /\ Asked(t, server, "auth fields")
              /\ set.tls = "required" => t.enc
  BY <1>2 DEF StillAs, Asked, MaySend, Layers
<1>4. Going(Send(t, "auth fields")) BY <1>1, <1>2, <1>3, GoingSend
<1> QED BY <1>4 DEF NonSaslLogin, t

\* The beginning of a stream: the features follow.
LEMMA StreamKeeps ==
    ASSUME TypeOK, SessionInv, HandleStream
    PROVE  TypeOK' /\ SessionInv'
<1>0. chunk # <<>> /\ Head(chunk).what = "stream" /\ client.up
  BY UpUnless DEF HandleStream, Handling
<1>1. CASE Arg # "1.0"
  <2>1. Handled(Disconnect(client, "stream version")) BY <1>1 DEF HandleStream
  <2> QED BY <1>0, <2>1, ClientIsWhole, EndingKeeps
<1>2. CASE Arg = "1.0"
  <2>0. Handled(client) /\ client \in Clients /\ client.sent = <<>>
    BY <1>2 DEF HandleStream, TypeOK
  <2>1. /\ client' \in Clients /\ client'.sent = <<>>
        /\ client'.up /\ client'.enc = client.enc /\ client'.comp = client.comp
        /\ client'.authed = client.authed /\ client'.features = client.features
        /\ client'.mechanism = client.mechanism
        /\ client'.told = client.told /\ client'.torn = (client.torn \/ ~client.up)
        /\ out' = out \o <<>> /\ in' = in /\ out' \in Seq(Messages)
        /\ chunk' = Tail(chunk)
        /\ set' = set /\ policy' = policy /\ server' = server /\ connects' = connects
    BY <1>0, <2>0, HandledIs
  <2>2. /\ chunk' \in Seq(Units) /\ in' \in Seq(Units) /\ Flight' \in Seq(Units)
        /\ Head(chunk) = Flight[1] /\ 1 \in DOMAIN Flight
        /\ Len(Flight') <= Len(Flight) - 1
        /\ \A i \in DOMAIN Flight' : i + 1 \in DOMAIN Flight /\ Flight'[i] = Flight[i + 1]
    BY <1>0, <2>1, FlightAfter
  <2>3. /\ Flight \in Seq(Units) /\ Len(Flight) \in Nat /\ Len(Flight') \in Nat
        /\ DOMAIN Flight = 1..Len(Flight) /\ DOMAIN Flight' = 1..Len(Flight')
    BY <2>2, FlightIs
  <2>4. out = <<>> /\ out' = <<>>
    <3>1. ~Final(Flight[1]) BY <1>0, <2>2 DEF Final
    <3>2. out = <<>> BY <2>2, <3>1, AnswerAlone DEF SessionInv
    <3> QED BY <2>1, <3>2
  <2>5. ASSUME NEW i \in DOMAIN Flight'
        PROVE  /\ Final(Flight'[i]) => i = Len(Flight') /\ server.done
               /\ ~Final(Flight'[i]) => i = 1 /\ Flight'[i].what = "features"
    <3>1. i + 1 \in DOMAIN Flight /\ i + 1 # 1 /\ i \in Nat BY <2>2, <2>3
    <3>2. /\ Final(Flight[i + 1]) => i + 1 = Len(Flight) /\ server.done
          /\ ~Final(Flight[i + 1]) => Flight[i + 1].what = "features"
      BY <3>1, RestIsFinal DEF SessionInv
    <3>3. ~Final(Flight[i + 1]) => i + 1 = 2
      BY <3>1 DEF SessionInv, Lockstep, LockstepOf
    <3> QED BY <2>2, <2>3, <3>1, <3>2, <3>3
  <2>6. TypeOK' BY <2>1, <2>2 DEF TypeOK
  <2>7. Lockstep' BY <2>1, <2>4, <2>5 DEF Lockstep, LockstepOf, Final
  <2>8. DownIsClean' BY <2>1 DEF DownIsClean
  <2>9. SidesAgree'
    <3>1. /\ ~Under(Flight, "proceed") /\ ~Under(Flight, "compressed")
          /\ ~Under(Flight, "success") /\ ~IqIn(Flight, "auth", "result")
      BY <1>0, FirstIs DEF SessionInv
    <3>2. Layers(client) = Layers(server) /\ client.authed = server.authed
      BY <1>0, <3>1, SidesEqual, AuthedEqual
    <3>3. /\ ~Under(Flight', "proceed") /\ ~Under(Flight', "compressed")
          /\ ~Under(Flight', "success") /\ ~IqIn(Flight', "auth", "result")
      BY <2>5 DEF Under, IqIn, Final
    <3>4. client.enc \in BOOLEAN /\ client.comp \in BOOLEAN /\ client.authed \in BOOLEAN
      BY <2>0 DEF Clients
    <3>5. client.enc = server.enc /\ client.comp = server.comp BY <3>2 DEF Layers
    <3> QED BY <2>1, <3>2, <3>3, <3>4, <3>5 DEF SidesAgree, EncIs, CompIs, AuthedIs
  <2>10. WrittenRight'
    <3>1. \A i \in DOMAIN Flight :
              Flight[i].layers = IF Final(Flight[i]) THEN Layers(server) ELSE Layers(client)
      BY <1>0 DEF SessionInv, WrittenRight
    <3>2. Layers(client') = Layers(client) /\ Layers(server') = Layers(server)
      BY <2>1 DEF Layers
    <3>3. DOMAIN out' = {} BY <2>4
    <3> QED BY <2>1, <2>2, <3>1, <3>2, <3>3 DEF WrittenRight, Final
  <2>11. SecretWithTls'
    BY <2>1, <2>4, <2>5 DEF SecretWithTls, Secret, Final
  <2>12. AsChosen'
    BY <2>1, <2>2 DEF SessionInv, AsChosen, SaslChosen, TlsUsed, Auths, Offers, OffersTls
  <2>13. Conversation'
    <3>1. (\A i \in DOMAIN out : Asked(client, server, out[i].what))'
      BY <2>4
    <3>2. ~IqIn(Flight', "bind", "result") /\ ~IqIn(Flight', "session", "result")
      BY <2>5 DEF IqIn, Final
    <3>3. \A i \in DOMAIN Flight' : Flight'[i].what # "iq" BY <2>5 DEF Final
    <3> QED BY <3>1, <3>2, <3>3 DEF Conversation
  <2>14. ToldRight'
    <3>1. connects > 0 /\ ~client.torn BY <1>0, ToldBefore
    <3>2. \A k \in DOMAIN client.told : client.told[k] # "connected"
      BY <1>0, NotConnectedYet
    <3>3. ToldInOrder BY DEF SessionInv, ToldRight
    <3> QED BY <1>0, <2>1, <3>1, <3>2, <3>3 DEF ToldRight, ToldInOrder, Tells
  <2> QED BY <2>6, <2>7, <2>8, <2>9, <2>10, <2>11, <2>12, <2>13, <2>14 DEF SessionInv
<1> QED BY <1>1, <1>2

LEMMA StreamEndKeeps ==
    ASSUME TypeOK, SessionInv, HandleStreamEnd \/ HandleStreamError
    PROVE  TypeOK' /\ SessionInv'
<1>1. PICK reason : Handled(Disconnect(client, reason)) /\ chunk # <<>>
  BY DEF HandleStreamEnd, HandleStreamError, Handling
<1> QED BY <1>1, ClientIsWhole, EndingKeeps

\* What is behind the layers: the client has TLS if it must, and is offered to log in as
\* Auths says.
LEMMA SettledAre ==
    ASSUME TypeOK, SessionInv, Settled
    PROVE  /\ chunk # <<>> /\ Head(chunk).what = "features"
           /\ set.tls = "required" => client.enc
           /\ ~client.authed => \A m \in Mechanisms : m \in Offered => m \in Auths
           /\ client.up /\ ~client.authed => \A m \in Mechanisms : m \in Auths => m \in Offered
<1>1. Features /\ ~LacksTls /\ ~WantsTls BY DEF Settled
<1>2. chunk # <<>> /\ Head(chunk).what = "features" BY <1>1 DEF Features, Handling
<1>3. /\ "starttls" \in Offered <=> OffersTls /\ ~server.authed
      /\ \A m \in Mechanisms :
            m \in Offered <=> /\ m \in policy.auth /\ ~server.authed
                              /\ ~(OffersTls /\ policy.tls = "needed")
      /\ client.up => Layers(Informed) = Layers(server) /\ Informed.authed = server.authed
                      /\ Layers(client) = Layers(server)
      /\ Informed.authed = client.authed
  BY <1>1, FeaturesAre
<1>4. set.tls = "required" => client.enc
  BY <1>1 DEF LacksTls, WantsTls
<1>5. server.enc => TlsUsed BY DEF SessionInv, AsChosen
<1>6. ASSUME NEW m \in Mechanisms, m \in Offered PROVE m \in Auths
  <2>1. m \in policy.auth /\ ~(OffersTls /\ policy.tls = "needed") BY <1>3, <1>6
  <2>2. policy.tls = "needed" => server.enc BY <2>1 DEF OffersTls
  <2> QED BY <1>5, <2>1, <2>2 DEF Auths
<1>7. ASSUME NEW m \in Mechanisms, m \in Auths, client.up, ~client.authed PROVE m \in Offered
  <2>1. m \in policy.auth /\ (policy.tls = "needed" => TlsUsed)
    BY <1>7 DEF Auths
  <2>2. ~server.authed BY <1>3, <1>7
  <2>3. ~(OffersTls /\ policy.tls = "needed")
    <3>1. SUFFICES ASSUME OffersTls, policy.tls = "needed" PROVE FALSE
      OBVIOUS
    <3>2. "starttls" \in Offered BY <1>3, <2>2, <3>1
    <3>3. client.enc BY <1>1, <2>1, <3>1, <3>2 DEF WantsTls, TlsUsed
    <3>4. server.enc BY <1>3, <1>7, <3>3 DEF Layers
    <3> QED BY <3>1, <3>4 DEF OffersTls
  <2> QED BY <1>3, <2>1, <2>2, <2>3
<1> QED BY <1>2, <1>4, <1>6, <1>7

LEMMA LayersKeep ==
    ASSUME TypeOK, SessionInv, RefuseWithoutTls \/ StartTls \/ NegotiateCompression
    PROVE  TypeOK' /\ SessionInv'
<1>0. /\ Features /\ chunk # <<>> /\ Head(chunk).what = "features"
      /\ SameClient(Informed) /\ Going(Informed) /\ Informed.features = Offered
      /\ "starttls" \in Offered <=> OffersTls /\ ~server.authed
      /\ Informed.sent = <<>>
      /\ client.up => Layers(Informed) = Layers(client)
  <2>1. Features BY DEF RefuseWithoutTls, StartTls, NegotiateCompression
  <2> QED BY <2>1, FeaturesAre DEF SameClient, Features, Handling
<1>1. CASE RefuseWithoutTls
  BY <1>0, <1>1, EndingKeeps DEF RefuseWithoutTls
<1>2. CASE StartTls
  <2> DEFINE t == Tell(Informed, "encryption")
  <2>1. "encryption" \in Words /\ "starttls" \in Words BY DEF Words
  <2>2. Going(t) /\ StillAs(Informed, t) /\ (t.up => t.sent = Informed.sent)
    BY <1>0, <2>1, GoingTell
  <2>3. TlsUsed
    BY <1>0, <1>2 DEF StartTls, WantsTls, TlsUsed, OffersTls
  <2>4. Handled(Send(t, "starttls")) BY <1>2 DEF StartTls
  <2> HIDE DEF t
  <2>5. Asked(t, server, "starttls") BY <2>3 DEF Asked, MaySend
  <2>6. Going(Send(t, "starttls"))
    BY <1>0, <2>1, <2>2, <2>5, GoingSend
  <2> QED BY <1>0, <2>4, <2>6, GoingKeeps
<1>3. CASE NegotiateCompression
  <2> DEFINE t == Tell(Informed, "compression")
  <2>1. "compression" \in Words /\ "compress" \in Words BY DEF Words
  <2>2. Going(t) /\ StillAs(Informed, t) /\ (t.up => t.sent = Informed.sent)
    BY <1>0, <2>1, GoingTell
  <2>3. set.tls = "required" => client.enc
    BY <1>3 DEF NegotiateCompression, LacksTls, WantsTls
  <2>4. Handled(Send(t, "compress")) BY <1>3 DEF NegotiateCompression
  <2> HIDE DEF t
  <2>5. Asked(t, server, "compress") BY DEF Asked, MaySend
  <2>6. t.up => (set.tls = "required" => t.enc)
    BY <1>0, <2>2, <2>3 DEF StillAs, Layers, SameClient
  <2>7. Going(Send(t, "compress"))
    BY <1>0, <2>1, <2>2, <2>5, <2>6, GoingSend
  <2> QED BY <1>0, <2>4, <2>7, GoingKeeps
<1> QED BY <1>1, <1>2, <1>3

LEMMA BindResourceKeeps ==
    ASSUME TypeOK, SessionInv, BindResource
    PROVE  TypeOK' /\ SessionInv'
<1> DEFINE t == Tell(Informed, "resource binding")
<1>0. Settled /\ Features /\ client.authed BY DEF BindResource, WithSasl, Settled
<1>1. /\ SameClient(Informed) /\ Going(Informed) /\ Informed.features = Offered
      /\ server.authed => policy.session \subseteq Offered
      /\ Informed.authed = client.authed
      /\ client.up => Layers(Informed) = Layers(server) /\ Informed.authed = server.authed
                      /\ Layers(client) = Layers(server)
  BY <1>0, FeaturesAre
<1>2. /\ chunk # <<>> /\ Head(chunk).what = "features"
      /\ set.tls = "required" => client.enc
  BY <1>0, SettledAre
<1>3. "resource binding" \in Words /\ "bind" \in Words BY DEF Words
<1>4. Going(t) /\ StillAs(Informed, t) /\ (t.up => t.sent = Informed.sent)
  BY <1>1, <1>3, GoingTell
<1>5. Handled(IF "bind" \notin Offered THEN Informed
              ELSE IF "unbind" \notin t.features /\ t.resourceBound THEN t
              ELSE Send(t, "bind"))
  BY DEF BindResource
<1> HIDE DEF t
<1>6. t.up => /\ t.sent = <<>> /\ Asked(t, server, "bind")
              /\ set.tls = "required" => t.enc
  <2>1. SUFFICES ASSUME t.up PROVE /\ t.sent = <<>> /\ Asked(t, server, "bind")
                                   /\ set.tls = "required" => t.enc
    OBVIOUS
  <2>2. client.up BY <1>1, <1>4, <2>1 DEF StillAs, SameClient
  <2>3. t.authed /\ policy.session \subseteq t.features
    BY <1>0, <1>1, <1>4, <2>1, <2>2 DEF StillAs
  <2> QED BY <1>1, <1>2, <1>4, <2>1, <2>2, <2>3 DEF StillAs, SameClient, Layers, Asked, MaySend
<1>7. Going(Send(t, "bind")) BY <1>3, <1>4, <1>6, GoingSend
<1> QED BY <1>1, <1>2, <1>4, <1>5, <1>7, GoingKeeps

LEMMA LoginKeeps ==
    ASSUME TypeOK, SessionInv, Login \/ LoginWithoutCredentials \/ LoginWithoutSasl
    PROVE  TypeOK' /\ SessionInv'
<1>0. Settled /\ Features /\ (set.sasl => ~client.authed)
  BY DEF Login, LoginWithoutCredentials, LoginWithoutSasl, WithSasl, Settled
<1>1. /\ SameClient(Informed) /\ Going(Informed)
      /\ Informed.authed = client.authed /\ Informed.sent = <<>>
      /\ Informed.up = client.up
      /\ client.up => Layers(Informed) = Layers(server) /\ Informed.authed = server.authed
                      /\ Layers(client) = Layers(server)
      /\ ~server.authed \/ "iqauth" \notin Offered
  <2>1. Offered = {"iqauth"} => ~server.authed
    <3>1. chunk # <<>> /\ Head(chunk).what = "features" BY <1>0, SettledAre
    <3>2. 1 \in DOMAIN Flight /\ Flight[1] = Head(chunk) BY <3>1, FirstIs DEF SessionInv
    <3>3. Arg = Offers BY <3>1, <3>2 DEF SessionInv, AsChosen, Arg
    <3>4. "bind" \in Offers \/ ~server.authed BY DEF Offers
    <3> QED BY <3>3, <3>4 DEF Offered
  <2>2. "iqauth" \in Offered => ~server.authed
    <3>1. chunk # <<>> /\ Head(chunk).what = "features" BY <1>0, SettledAre
    <3>2. 1 \in DOMAIN Flight /\ Flight[1] = Head(chunk) BY <3>1, FirstIs DEF SessionInv
    <3>3. Arg = Offers BY <3>1, <3>2 DEF SessionInv, AsChosen, Arg
    <3>4. policy.session \subseteq {"session"} BY SessionAssumption DEF TypeOK
    <3>5. "iqauth" \in Offers => ~server.authed BY <3>4 DEF Offers
    <3> QED BY <2>1, <3>3, <3>5 DEF Offered
  <2> QED BY <1>0, <2>2, FeaturesAre DEF SameClient
<1>2. /\ chunk # <<>> /\ Head(chunk).what = "features"
      /\ set.tls = "required" => client.enc
      /\ ~client.authed => \A m \in Mechanisms : m \in Offered => m \in Auths
      /\ client.up /\ ~client.authed => \A m \in Mechanisms : m \in Auths => m \in Offered
  BY <1>0, SettledAre
<1>3. Informed.up => (set.tls = "required" => Informed.enc)
  BY <1>1, <1>2 DEF Layers
<1>4. server.bound => server.authed BY DEF SessionInv, AsChosen
<1>5. {"DIGEST-MD5", "PLAIN", "EXTERNAL", "ANONYMOUS"} = Mechanisms BY DEF Mechanisms
<1>6. ASSUME NEW m \in Mechanisms, SaslChosen, Handled(StartSASL(Informed, m))
      PROVE  TypeOK' /\ SessionInv'
  <2>1. Going(StartSASL(Informed, m)) BY <1>1, <1>3, <1>6, StartSASLGoing
  <2> QED BY <1>2, <1>6, <2>1, GoingKeeps
<1>7. ASSUME client.up => ~server.authed /\ ~SaslChosen, Handled(NonSaslLogin(Informed))
      PROVE  TypeOK' /\ SessionInv'
  <2>1. Informed.up => MaySend(Informed, server, "auth fields")
    BY <1>1, <1>4, <1>7 DEF MaySend
  <2>2. Going(NonSaslLogin(Informed)) BY <1>1, <1>3, <2>1, NonSaslLoginGoing
  <2> QED BY <1>2, <1>7, <2>2, GoingKeeps
<1>8. ASSUME NEW reason, Handled(Disconnect(Informed, reason))
      PROVE  TypeOK' /\ SessionInv'
  BY <1>1, <1>2, <1>8, EndingKeeps
<1>9. CASE Login
  <2>0. set.sasl /\ ~client.authed /\ set.credentials /\ (client.up => ~server.authed)
    BY <1>1, <1>9 DEF Login, WithSasl
  <2>1. CASE "DIGEST-MD5" \in Offered /\ ~set.forceNonSasl
    <3>1. SaslChosen BY <1>2, <1>5, <2>0, <2>1 DEF SaslChosen
    <3>2. Handled(StartSASL(Informed, "DIGEST-MD5")) BY <1>9, <2>1 DEF Login, Usable
    <3> QED BY <1>5, <1>6, <3>1, <3>2
  <2>2. CASE "DIGEST-MD5" \notin Offered /\ "PLAIN" \in Offered /\ ~set.forceNonSasl
    <3>1. SaslChosen BY <1>2, <1>5, <2>0, <2>2 DEF SaslChosen
    <3>2. Handled(StartSASL(Informed, "PLAIN")) BY <1>9, <2>2 DEF Login, Usable
    <3> QED BY <1>5, <1>6, <3>1, <3>2
  <2>3. CASE set.forceNonSasl
    <3>1. ~SaslChosen BY <2>0, <2>3 DEF SaslChosen
    <3>2. Handled(NonSaslLogin(Informed)) BY <1>9, <2>3 DEF Login, Usable
    <3> QED BY <1>7, <2>0, <3>1, <3>2
  <2>4. CASE ~set.forceNonSasl /\ "DIGEST-MD5" \notin Offered /\ "PLAIN" \notin Offered
    <3>1. client.up => ~SaslChosen BY <1>2, <1>5, <2>0, <2>4 DEF SaslChosen
    <3>2. CASE "iqauth" \in Offered
      <4>1. Handled(NonSaslLogin(Informed)) BY <1>9, <2>4, <3>2 DEF Login, Usable
      <4> QED BY <1>7, <2>0, <3>1, <4>1
    <3>3. CASE "iqauth" \notin Offered
      <4>1. Handled(Disconnect(Informed, "no supported auth"))
        BY <1>9, <2>4, <3>3 DEF Login, Usable
      <4> QED BY <1>8, <4>1
    <3> QED BY <3>2, <3>3
  <2> QED BY <2>1, <2>2, <2>3, <2>4
<1>10. CASE LoginWithoutCredentials
  <2>0. set.sasl /\ ~client.authed /\ ~set.credentials /\ (client.up => ~server.authed)
    BY <1>1, <1>10 DEF LoginWithoutCredentials, WithSasl
  <2>1. CASE set.certificate /\ "EXTERNAL" \in Offered
    <3>1. SaslChosen BY <1>2, <1>5, <2>0, <2>1 DEF SaslChosen
    <3>2. Handled(StartSASL(Informed, "EXTERNAL"))
      BY <1>10, <2>1 DEF LoginWithoutCredentials, Usable
    <3> QED BY <1>5, <1>6, <3>1, <3>2
  <2>2. CASE ~(set.certificate /\ "EXTERNAL" \in Offered) /\ "ANONYMOUS" \in Offered
    <3>1. SaslChosen BY <1>2, <1>5, <2>0, <2>2 DEF SaslChosen
    <3>2. Handled(StartSASL(Informed, "ANONYMOUS"))
      BY <1>10, <2>2 DEF LoginWithoutCredentials, Usable
    <3> QED BY <1>5, <1>6, <3>1, <3>2
  <2>3. CASE ~(set.certificate /\ "EXTERNAL" \in Offered) /\ "ANONYMOUS" \notin Offered
    <3> DEFINE t == Tell(Informed, "finished")
    <3>1. "finished" \in Words BY DEF Words
    <3>2. Going(t) /\ StillAs(Informed, t) /\ (t.up => t.sent = Informed.sent)
      BY <1>1, <3>1, GoingTell
    <3>3. Handled(Connected(t)) BY <1>10, <2>3 DEF LoginWithoutCredentials, Usable
    <3> HIDE DEF t
    <3>4. t.up => /\ t.sent = <<>> /\ Ready(t, server)
                  /\ set.tls = "required" => t.enc
      BY <1>1, <1>3, <1>4, <2>0, <3>2 DEF StillAs, Ready, Layers
    <3>5. Outcome(Connected(t)) BY <3>2, <3>4, ConnectedOutcome
    <3> QED BY <1>2, <3>3, <3>5, OutcomeKeeps
  <2> QED BY <2>1, <2>2, <2>3
<1>11. CASE LoginWithoutSasl
  <2>1. ~SaslChosen BY <1>11 DEF LoginWithoutSasl, SaslChosen
  <2>2. CASE "iqauth" \in Offered
    <3>1. Handled(NonSaslLogin(Informed)) BY <1>11, <2>2 DEF LoginWithoutSasl
    <3> QED BY <1>1, <1>7, <2>1, <2>2, <3>1
  <2>3. CASE "iqauth" \notin Offered
    <3>1. Handled(Disconnect(Informed, "no supported auth"))
      BY <1>11, <2>3 DEF LoginWithoutSasl
    <3> QED BY <1>8, <3>1
  <2> QED BY <2>2, <2>3
<1> QED BY <1>9, <1>10, <1>11
-----------------------------------------------------------------------------
(***************************************************************************)
(* The answers.                                                            *)
(***************************************************************************)
\* An answer finds the client connected and, when it is secret, with TLS if it must.
LEMMA AnswerIs ==
    ASSUME TypeOK, SessionInv, chunk # <<>>,
           Head(chunk).what \notin {"features", "end", "error"}
    PROVE  /\ client.up /\ client \in Clients /\ SameClient(client) /\ client.sent = <<>>
           /\ Head(chunk).what \in Secret => (set.tls = "required" => client.enc)
<1>1. client.up BY UpUnless
<1>2. 1 \in DOMAIN Flight /\ Flight[1] = Head(chunk) BY FirstIs DEF SessionInv
<1>3. Head(chunk).what \in Secret => (set.tls = "required" => client.enc)
  BY <1>1, <1>2 DEF SessionInv, SecretWithTls
<1> QED BY <1>1, <1>3, ClientIsWhole DEF TypeOK

\* An answer that changes what the client is to what the server already is.
LEMMA ChangedSend ==
    ASSUME TypeOK, SessionInv, chunk # <<>>,
           Head(chunk).what \notin {"stream", "features", "end", "error"},
           NEW c, c \in Clients, c.up, c.told = client.told, c.torn = client.torn,
           c.sent = <<>>, c.mechanism = client.mechanism,
           Layers(c) = Layers(server), c.authed = server.authed,
           NEW what \in {"hello", "header"},
           set.tls = "required" => c.enc \/ what = "header",
           Handled(Send(c, what))
    PROVE  TypeOK' /\ SessionInv'
<1>1. client.up BY AnswerIs
<1>2. SameClient(c) BY <1>1 DEF SameClient, Whole
<1>3. Going(c) BY <1>2, StartGoing
<1>4. Asked(c, server, what) BY DEF Asked, MaySend
<1>5. what \in Words BY DEF Words
<1>6. Going(Send(c, what)) BY <1>3, <1>4, <1>5, GoingSend
<1> QED BY <1>6, GoingKeeps

LEMMA ProceedKeeps ==
    ASSUME TypeOK, SessionInv, HandleProceed
    PROVE  TypeOK' /\ SessionInv'
<1> DEFINE c == [client EXCEPT !.enc = TRUE]
<1>1. chunk # <<>> /\ Head(chunk).what = "proceed" /\ Handled(Send(c, "hello"))
  BY DEF HandleProceed, Handling
<1>2. client.up /\ client \in Clients /\ client.sent = <<>> BY <1>1, AnswerIs
<1>3. /\ Under(Flight, "proceed") /\ ~Under(Flight, "compressed")
      /\ ~Under(Flight, "success") /\ ~IqIn(Flight, "auth", "result")
  BY <1>1, FirstIs DEF SessionInv
<1>4. server.enc = TRUE /\ client.comp = server.comp
  <2>1. client.comp \in BOOLEAN BY <1>2 DEF Clients
  <2> QED BY <1>2, <1>3, <2>1 DEF SessionInv, SidesAgree, EncIs, CompIs
<1>5. client.authed = server.authed BY <1>2, <1>3, AuthedEqual
<1>6. /\ c \in Clients /\ c.up /\ c.told = client.told /\ c.torn = client.torn
      /\ c.sent = <<>> /\ c.mechanism = client.mechanism /\ c.enc = TRUE
      /\ c.comp = client.comp /\ c.authed = client.authed
  BY <1>2 DEF Clients
<1> HIDE DEF c
<1>7. Layers(c) = Layers(server) BY <1>4, <1>6 DEF Layers
<1> QED BY <1>1, <1>5, <1>6, <1>7, ChangedSend

LEMMA CompressedKeeps ==
    ASSUME TypeOK, SessionInv, HandleCompressed
    PROVE  TypeOK' /\ SessionInv'
<1> DEFINE c == [client EXCEPT !.comp = TRUE]
<1>1. chunk # <<>> /\ Head(chunk).what = "compressed" /\ Handled(Send(c, "header"))
  BY DEF HandleCompressed, Handling, Header
<1>2. client.up /\ client \in Clients /\ client.sent = <<>> BY <1>1, AnswerIs
<1>3. /\ Under(Flight, "compressed") /\ ~Under(Flight, "proceed")
      /\ ~Under(Flight, "success") /\ ~IqIn(Flight, "auth", "result")
  BY <1>1, FirstIs DEF SessionInv
<1>4. server.comp = TRUE /\ client.enc = server.enc
  <2>1. client.enc \in BOOLEAN BY <1>2 DEF Clients
  <2> QED BY <1>2, <1>3, <2>1 DEF SessionInv, SidesAgree, EncIs, CompIs
<1>5. client.authed = server.authed BY <1>2, <1>3, AuthedEqual
<1>6. /\ c \in Clients /\ c.up /\ c.told = client.told /\ c.torn = client.torn
      /\ c.sent = <<>> /\ c.mechanism = client.mechanism /\ c.comp = TRUE
      /\ c.enc = client.enc /\ c.authed = client.authed
  BY <1>2 DEF Clients
<1> HIDE DEF c
<1>7. Layers(c) = Layers(server) BY <1>4, <1>6 DEF Layers
<1> QED BY <1>1, <1>5, <1>6, <1>7, ChangedSend

LEMMA SuccessKeeps ==
    ASSUME TypeOK, SessionInv, HandleSuccess
    PROVE  TypeOK' /\ SessionInv'
<1> DEFINE c == [client EXCEPT !.authed = TRUE]
<1>1. chunk # <<>> /\ Head(chunk).what = "success" /\ Handled(Send(c, "header"))
  BY DEF HandleSuccess, Handling, Header
<1>2. client.up /\ client \in Clients /\ client.sent = <<>> BY <1>1, AnswerIs
<1>3. /\ Under(Flight, "success")
      /\ ~Under(Flight, "compressed") /\ ~Under(Flight, "proceed")
  BY <1>1, FirstIs DEF SessionInv
<1>4. Layers(client) = Layers(server) BY <1>2, <1>3, SidesEqual
<1>5. server.authed = TRUE BY <1>2, <1>3 DEF SessionInv, SidesAgree, AuthedIs
<1>6. /\ c \in Clients /\ c.up /\ c.told = client.told /\ c.torn = client.torn
      /\ c.sent = <<>> /\ c.mechanism = client.mechanism /\ c.authed = TRUE
      /\ Layers(c) = Layers(client)
  BY <1>2 DEF Clients, Layers
<1> HIDE DEF c
<1> QED BY <1>1, <1>4, <1>5, <1>6, ChangedSend

\* The handshake and a challenge change nothing.
LEMMA HandshakeKeeps ==
    ASSUME TypeOK, SessionInv, HandleHandshake
    PROVE  TypeOK' /\ SessionInv'
<1>1. chunk # <<>> /\ Head(chunk).what = "handshake"
  BY DEF HandleHandshake, Handling
<1>2. SameClient(client) BY ClientIsWhole
<1>3. CASE Handled(Disconnect(client, "tls failed"))
  BY <1>1, <1>2, <1>3, EndingKeeps
<1>4. CASE Handled(Send(client, "header"))
  <2>1. Going(client) BY <1>1, ClientGoing
  <2>2. Asked(client, server, "header") /\ client.sent = <<>> /\ "header" \in Words
    BY DEF Asked, MaySend, TypeOK, Words
  <2>3. Going(Send(client, "header")) BY <2>1, <2>2, GoingSend
  <2> QED BY <1>1, <1>4, <2>3, GoingKeeps
<1> QED BY <1>3, <1>4 DEF HandleHandshake, Header

LEMMA ChallengeKeeps ==
    ASSUME TypeOK, SessionInv, HandleChallenge
    PROVE  TypeOK' /\ SessionInv'
<1>1. chunk # <<>> /\ Head(chunk).what = "challenge" /\ Handled(Send(client, "response"))
  BY DEF HandleChallenge, Handling
<1>2. Going(client) BY <1>1, ClientGoing
<1>3. Asked(client, server, "response") /\ client.sent = <<>> /\ "response" \in Words
  BY DEF Asked, MaySend, TypeOK, Words
<1>4. set.tls = "required" => client.enc
  BY <1>1, AnswerIs DEF Secret
<1>5. Going(Send(client, "response")) BY <1>2, <1>3, <1>4, GoingSend
<1> QED BY <1>1, <1>5, GoingKeeps

LEMMA FailureKeeps ==
    ASSUME TypeOK, SessionInv, HandleFailure \/ HandleAuthError
    PROVE  TypeOK' /\ SessionInv'
<1>0. chunk # <<>> BY DEF HandleFailure, HandleAuthError, Handling, Answered
<1>1. SameClient(client) BY ClientIsWhole
<1>2. client \in Clients /\ connects \in Nat BY DEF TypeOK
<1>3. ASSUME NEW known \in BOOLEAN PROVE SameClient(WithError(known))
  BY <1>1, <1>2 DEF WithError, SameClient, Whole, Clients, Down
<1>4. ASSUME NEW known \in BOOLEAN PROVE SameClient([WithError(known) EXCEPT !.authed = FALSE])
  <2> DEFINE w == WithError(known)
  <2>1. SameClient(w) BY <1>3
  <2> HIDE DEF w
  <2>2. SameClient([w EXCEPT !.authed = FALSE]) BY <2>1 DEF SameClient, Whole, Clients, Down
  <2> QED BY <2>2 DEF w
<1>5. CASE HandleFailure
  <2>1. \E c, reason : SameClient(c) /\ Handled(Disconnect(c, reason))
    <3>1. PICK known \in BOOLEAN :
             Handled(IF Arg = "tls" THEN Disconnect(client, "tls failed")
                     ELSE IF Arg = "compression" THEN Disconnect(client, "compression failed")
                     ELSE Disconnect(WithError(known), "authentication failed"))
      BY <1>5 DEF HandleFailure
    <3>2. CASE Arg = "tls" BY <1>1, <3>1, <3>2
    <3>3. CASE Arg # "tls" /\ Arg = "compression" BY <1>1, <3>1, <3>3
    <3>4. CASE Arg # "tls" /\ Arg # "compression" BY <1>3, <3>1, <3>4
    <3> QED BY <3>2, <3>3, <3>4
  <2> QED BY <1>0, <2>1, EndingKeeps
<1>6. CASE HandleAuthError
  <2>1. PICK known \in BOOLEAN :
           Handled(Disconnect([WithError(known) EXCEPT !.authed = FALSE], "authentication failed"))
    BY <1>6 DEF HandleAuthError
  <2> QED BY <1>0, <1>4, <2>1, EndingKeeps
<1> QED BY <1>5, <1>6
-----------------------------------------------------------------------------
(***************************************************************************)
(* The answers to requests.                                                *)
(***************************************************************************)
LEMMA IqIs ==
    ASSUME TypeOK, SessionInv, NEW context, Answered(context)
    PROVE  /\ chunk # <<>> /\ Head(chunk).what = "iq"
           /\ client.up /\ client \in Clients /\ SameClient(client) /\ client.sent = <<>>
           /\ set.tls = "required" => client.enc
           /\ Arg = [context |-> context, type |-> Arg.type] /\ Arg.type \in {"result", "error"}
           /\ context # "auth" => Asked(client, server, context)
           /\ context = "auth" => ~SaslChosen /\ ~server.bound
<1>1. chunk # <<>> /\ Head(chunk).what = "iq" /\ Arg.context = context
  BY DEF Answered, Handling
<1>2. /\ client.up /\ client \in Clients /\ SameClient(client) /\ client.sent = <<>>
      /\ set.tls = "required" => client.enc
  BY <1>1, AnswerIs DEF Secret
<1>3. 1 \in DOMAIN Flight /\ Flight[1] = Head(chunk) BY <1>1, FirstIs DEF SessionInv
<1>4. /\ \E c \in {"bind", "session", "roster", "auth fields", "auth"}, t \in {"result", "error"} :
             Arg = [context |-> c, type |-> t]
      /\ context # "auth" => Asked(client, server, context)
      /\ context = "auth" => ~SaslChosen /\ ~server.bound
  BY <1>1, <1>2, <1>3 DEF SessionInv, Conversation, Arg
<1>5. PICK c \in {"bind", "session", "roster", "auth fields", "auth"}, t \in {"result", "error"} :
             Arg = [context |-> c, type |-> t]
  BY <1>4
<1>6. Arg.type = t /\ Arg.context = c BY <1>5
<1> QED BY <1>1, <1>2, <1>4, <1>5, <1>6

LEMMA BindKeeps ==
    ASSUME TypeOK, SessionInv, HandleBind
    PROVE  TypeOK' /\ SessionInv'
<1> DEFINE c == [client EXCEPT !.resourceBound = TRUE]
<1>0. Answered("bind") BY DEF HandleBind
<1>1. /\ chunk # <<>> /\ Head(chunk).what = "iq"
      /\ client.up /\ client \in Clients /\ SameClient(client) /\ client.sent = <<>>
      /\ set.tls = "required" => client.enc
      /\ Arg = [context |-> "bind", type |-> Arg.type] /\ Arg.type \in {"result", "error"}
      /\ Asked(client, server, "bind")
  BY <1>0, IqIs
<1>2. Arg # [context |-> "auth", type |-> "result"] BY <1>1
<1>3. /\ Going(client) /\ Layers(client) = Layers(server) /\ client.authed = server.authed
  BY <1>1, <1>2, ClientGoing DEF Arg
<1>4. CASE Arg.type # "result"
  <2>1. Handled(Tell(client, "bind error")) BY <1>4 DEF HandleBind
  <2>2. "bind error" \in Words BY DEF Words
  <2>3. Going(Tell(client, "bind error")) BY <1>3, <2>2, GoingTell
  <2> QED BY <1>1, <2>1, <2>3, GoingKeeps
<1>5. CASE Arg.type = "result"
  <2> DEFINE t == Tell(c, "bound")
  <2>0. Handled(IF "session" \in t.features THEN Send(Tell(t, "session creation"), "session")
                ELSE Connected(t))
    BY <1>5 DEF HandleBind
  <2>1. server.bound
    <3>1. IqIn(Flight, "bind", "result") BY <1>1, <1>5, FirstIs DEF SessionInv, Arg
    <3> QED BY <1>1, <3>1 DEF SessionInv, Conversation
  <2>2. client.authed /\ policy.session \subseteq client.features
    BY <1>1 DEF Asked, MaySend
  <2>3. /\ c \in Clients /\ c.up /\ c.told = client.told /\ c.torn = client.torn
        /\ c.sent = <<>> /\ c.mechanism = client.mechanism /\ c.authed = client.authed
        /\ c.features = client.features /\ Layers(c) = Layers(client) /\ c.enc = client.enc
    BY <1>1 DEF Clients, Layers
  <2> HIDE DEF c
  <2>4. SameClient(c) BY <1>1, <2>3 DEF SameClient, Whole
  <2>5. Going(c) BY <1>1, <1>3, <2>3, <2>4, StartGoing
  <2>6. "bound" \in Words /\ "session creation" \in Words /\ "session" \in Words BY DEF Words
  <2>7. Going(t) /\ StillAs(c, t) /\ (t.up => t.sent = c.sent) BY <2>5, <2>6, GoingTell
  <2> HIDE DEF t
  <2>8. t.up => /\ t.sent = <<>> /\ t.authed /\ policy.session \subseteq t.features
                /\ set.tls = "required" => t.enc
    BY <1>1, <2>2, <2>3, <2>7 DEF StillAs, Layers
  <2>9. CASE "session" \in t.features
    <3> DEFINE u == Tell(t, "session creation")
    <3>1. Handled(Send(u, "session")) BY <2>0, <2>9
    <3>2. Going(u) /\ StillAs(t, u) /\ (u.up => u.sent = t.sent) BY <2>6, <2>7, GoingTell
    <3> HIDE DEF u
    <3>3. u.up => /\ u.sent = <<>> /\ Asked(u, server, "session")
                  /\ set.tls = "required" => u.enc
      BY <2>1, <2>8, <3>2 DEF StillAs, Layers, Asked, MaySend
    <3>4. Going(Send(u, "session")) BY <2>6, <3>2, <3>3, GoingSend
    <3> QED BY <1>1, <3>1, <3>4, GoingKeeps
  <2>10. CASE "session" \notin t.features
    <3>1. Handled(Connected(t)) BY <2>0, <2>10
    <3>2. t.up => Ready(t, server)
      BY <1>3, <2>1, <2>2, <2>8, <2>10 DEF Ready
    <3>3. Outcome(Connected(t)) BY <2>7, <2>8, <3>2, ConnectedOutcome
    <3> QED BY <1>1, <3>1, <3>3, OutcomeKeeps
  <2> QED BY <2>9, <2>10
<1> QED BY <1>4, <1>5

LEMMA SessionKeeps ==
    ASSUME TypeOK, SessionInv, HandleSession
    PROVE  TypeOK' /\ SessionInv'
<1>0. Answered("session") BY DEF HandleSession
<1>1. /\ chunk # <<>> /\ Head(chunk).what = "iq"
      /\ client.up /\ client.sent = <<>> /\ (set.tls = "required" => client.enc)
      /\ Arg = [context |-> "session", type |-> Arg.type] /\ Arg.type \in {"result", "error"}
      /\ Asked(client, server, "session")
  BY <1>0, IqIs
<1>2. Arg # [context |-> "auth", type |-> "result"] BY <1>1
<1>3. /\ Going(client) /\ client.authed = server.authed
  BY <1>1, <1>2, ClientGoing DEF Arg
<1>4. CASE Arg.type # "result"
  <2>1. Handled(Tell(client, "session error")) BY <1>4 DEF HandleSession
  <2>2. "session error" \in Words BY DEF Words
  <2>3. Going(Tell(client, "session error")) BY <1>3, <2>2, GoingTell
  <2> QED BY <1>1, <2>1, <2>3, GoingKeeps
<1>5. CASE Arg.type = "result"
  <2>1. Handled(Connected(client)) BY <1>5 DEF HandleSession
  <2>2. server.session
    <3>1. IqIn(Flight, "session", "result") BY <1>1, <1>5, FirstIs DEF SessionInv, Arg
    <3> QED BY <1>1, <3>1 DEF SessionInv, Conversation
  <2>3. Ready(client, server) BY <1>1, <1>3, <2>2 DEF Asked, MaySend, Ready
  <2>4. Outcome(Connected(client)) BY <1>1, <1>3, <2>3, ConnectedOutcome
  <2> QED BY <1>1, <2>1, <2>4, OutcomeKeeps
<1> QED BY <1>4, <1>5

LEMMA RosterKeeps ==
    ASSUME TypeOK, SessionInv, HandleRoster
    PROVE  TypeOK' /\ SessionInv'
<1>0. Answered("roster") /\ Handled(RosterFilled(client)) BY DEF HandleRoster
<1>1. /\ chunk # <<>> /\ Head(chunk).what = "iq"
      /\ client.sent = <<>> /\ (set.tls = "required" => client.enc)
      /\ Arg = [context |-> "roster", type |-> Arg.type]
      /\ Asked(client, server, "roster")
  BY <1>0, IqIs
<1>2. Arg # [context |-> "auth", type |-> "result"] BY <1>1
<1>3. Going(client) BY <1>1, <1>2, ClientGoing DEF Arg
<1>4. Outcome(RosterFilled(client)) BY <1>1, <1>3, RosterFilledOutcome DEF Asked
<1> QED BY <1>0, <1>1, <1>4, OutcomeKeeps

LEMMA AuthKeeps ==
    ASSUME TypeOK, SessionInv, HandleAuthFields \/ HandleAuth
    PROVE  TypeOK' /\ SessionInv'
<1>1. CASE HandleAuthFields
  <2>0. Answered("auth fields") /\ Handled(Send(client, "auth"))
    BY <1>1 DEF HandleAuthFields
  <2>1. /\ chunk # <<>> /\ Head(chunk).what = "iq"
        /\ client.sent = <<>> /\ (set.tls = "required" => client.enc)
        /\ Arg = [context |-> "auth fields", type |-> Arg.type]
        /\ Asked(client, server, "auth fields")
    BY <2>0, IqIs
  <2>2. Arg # [context |-> "auth", type |-> "result"]
    <3>1. Arg.context = "auth fields" BY <2>0 DEF Answered
    <3>2. "auth fields" # "auth" OBVIOUS
    <3>3. [context |-> "auth", type |-> "result"].context = "auth" OBVIOUS
    <3> QED BY <3>1, <3>2, <3>3
  <2>3. Going(client) BY <2>1, <2>2, ClientGoing DEF Arg
  <2>4. Asked(client, server, "auth") BY <2>1 DEF Asked, MaySend
  <2>5. "auth" \in Words BY DEF Words
  <2>6. Going(Send(client, "auth")) BY <2>1, <2>3, <2>4, <2>5, GoingSend
  <2> QED BY <2>0, <2>1, <2>6, GoingKeeps
<1>2. CASE HandleAuth
  <2> DEFINE c == [client EXCEPT !.authed = TRUE]
  <2>0. Answered("auth") /\ Handled(Connected(c)) /\ Arg.type = "result"
    BY <1>2 DEF HandleAuth
  <2>1. /\ chunk # <<>> /\ Head(chunk).what = "iq"
        /\ client.up /\ client \in Clients /\ client.sent = <<>>
        /\ (set.tls = "required" => client.enc)
        /\ Arg = [context |-> "auth", type |-> Arg.type]
        /\ ~SaslChosen /\ ~server.bound
    BY <2>0, IqIs
  <2>2. /\ IqIn(Flight, "auth", "result")
        /\ ~Under(Flight, "proceed") /\ ~Under(Flight, "compressed")
    BY <2>0, <2>1, FirstIs DEF SessionInv, Arg
  <2>3. server.authed = TRUE /\ Layers(client) = Layers(server)
    <3>1. server.authed = TRUE BY <2>1, <2>2 DEF SessionInv, SidesAgree, AuthedIs
    <3> QED BY <2>1, <2>2, <3>1, SidesEqual
  <2>4. client.mechanism = "none" BY <2>1 DEF SessionInv, AsChosen
  <2>5. /\ c \in Clients /\ c.up /\ c.told = client.told /\ c.torn = client.torn
        /\ c.sent = <<>> /\ c.mechanism = client.mechanism /\ c.authed = TRUE
        /\ Layers(c) = Layers(client) /\ c.enc = client.enc
    BY <2>1 DEF Clients, Layers
  <2> HIDE DEF c
  <2>6. SameClient(c) BY <2>1, <2>5 DEF SameClient, Whole
  <2>7. Going(c) BY <2>1, <2>3, <2>5, <2>6, StartGoing
  <2>8. Ready(c, server) BY <2>1, <2>3, <2>4, <2>5 DEF Ready
  <2>9. Outcome(Connected(c)) BY <2>1, <2>5, <2>7, <2>8, ConnectedOutcome
  <2> QED BY <2>0, <2>1, <2>9, OutcomeKeeps
<1> QED BY <1>1, <1>2
-----------------------------------------------------------------------------
(***************************************************************************)
(* Connecting, reading, and the end of a connection.                       *)
(***************************************************************************)
\* Nothing under way.
LEMMA EmptyFlight ==
    ASSUME chunk = <<>>, in = <<>>
    PROVE  Flight = <<>> /\ DOMAIN Flight = {}
BY DEF Flight

LEMMA ConnectKeeps ==
    ASSUME TypeOK, SessionInv, Connect
    PROVE  TypeOK' /\ SessionInv'
<1> DEFINE opened == [client EXCEPT !.up = TRUE, !.broken = FALSE, !.torn = FALSE,
                                    !.told = <<>>, !.sent = <<>>]
           m == [what |-> "header", layers |-> Layers(opened)]
<1>1. /\ ~client.up /\ client \in Clients /\ connects \in Nat /\ connects' = connects + 1
      /\ server' = NewServer /\ in' = <<>> /\ chunk' = <<>> /\ set' = set /\ policy' = policy
  BY DEF Connect, TypeOK
<1>2. Down(client) BY <1>1 DEF SessionInv, DownIsClean
<1>3. Flight' = <<>> /\ DOMAIN Flight' = {}
  <2>1. <<>> \o <<>> = <<>> /\ DOMAIN <<>> = {} OBVIOUS
  <2> QED BY <1>1, <2>1 DEF Flight
<1>4. /\ opened \in Clients /\ opened.up /\ ~opened.broken /\ ~opened.torn
      /\ opened.told = <<>> /\ opened.sent = <<>> /\ opened.mechanism = client.mechanism
      /\ ~opened.enc /\ ~opened.comp /\ ~opened.authed
      /\ opened.enc = FALSE /\ opened.comp = FALSE
  <2>1. <<>> \in Seq(Words) /\ <<>> \in Seq(Messages) OBVIOUS
  <2> QED BY <1>1, <1>2, <2>1 DEF Clients, Down
<1>5. \E made \in BOOLEAN :
         LET c == IF made THEN Header(opened) ELSE Ended(opened)
         IN  client' = [c EXCEPT !.sent = <<>>] /\ out' = c.sent
  BY DEF Connect
<1> HIDE DEF opened
<1>6. server' \in Servers /\ ~server'.enc /\ ~server'.bound /\ ~server'.authed
      /\ server'.enc = FALSE /\ server'.comp = FALSE /\ server'.authed = FALSE
  BY <1>1 DEF NewServer, Servers
<1>7. client.mechanism # "none" => SaslChosen BY DEF SessionInv, AsChosen
<1>8. AsChosen' <=> (client'.mechanism # "none" => SaslChosen)
  BY <1>1, <1>3, <1>6 DEF AsChosen, SaslChosen, Auths, TlsUsed
<1>9. <<>> \in Seq(Units) /\ <<>> \in Seq(Messages) OBVIOUS
<1>10. CASE client' = [Header(opened) EXCEPT !.sent = <<>>] /\ out' = Header(opened).sent
  <2>1. Header(opened) = Wrote(opened, "header") BY <1>4 DEF Header, Send, Wrote
  <2>2. Wrote(opened, "header") = [opened EXCEPT !.sent = <<m>>]
    <3>1. Append(<<>>, m) = <<m>> OBVIOUS
    <3> QED BY <1>4, <3>1 DEF Wrote
  <2>3. m \in Messages /\ m.what = "header" /\ m.layers = Layers(opened)
    BY <1>4 DEF Messages, Words, LayerFlags, Layers, Clients
  <2> HIDE DEF m
  <2>4. /\ client' \in Clients /\ client'.sent = <<>> /\ client'.up /\ ~client'.torn
        /\ client'.told = <<>> /\ client'.mechanism = client.mechanism
        /\ client'.enc = FALSE /\ client'.comp = FALSE /\ ~client'.authed
        /\ out' = <<m>> /\ client'.authed = FALSE
    BY <1>4, <1>9, <1>10, <2>1, <2>2 DEF Clients
  <2>5. out' \in Seq(Messages) /\ Len(out') = 1 /\ \A i \in DOMAIN out' : out'[i] = m
    BY <2>3, <2>4
  <2>6. TypeOK' BY <1>1, <1>6, <1>9, <2>4, <2>5 DEF TypeOK
  <2>7. Lockstep' BY <1>3, <2>5 DEF Lockstep, LockstepOf
  <2>8. DownIsClean' BY <2>4 DEF DownIsClean
  <2>9. SidesAgree'
    BY <1>3, <1>6, <2>4 DEF SidesAgree, EncIs, CompIs, AuthedIs, Under, IqIn
  <2>10. WrittenRight'
    <3>1. Layers(opened) = Layers(server') BY <1>4, <1>6 DEF Layers
    <3> QED BY <1>3, <2>3, <2>5, <3>1 DEF WrittenRight
  <2>11. SecretWithTls' BY <1>3, <2>3, <2>5 DEF SecretWithTls
  <2>12. AsChosen' BY <1>1, <1>7, <1>8, <2>4
  <2>13. Conversation'
    <3>1. (\A i \in DOMAIN out : Asked(client, server, out[i].what))'
      BY <2>3, <2>5 DEF Asked, MaySend
    <3> QED BY <1>3, <3>1 DEF Conversation, IqIn
  <2>14. ToldRight'
    <3>1. DOMAIN client'.told = {} BY <2>4
    <3> QED BY <1>1, <2>4, <3>1 DEF ToldRight, ToldInOrder, Tells
  <2> QED BY <2>6, <2>7, <2>8, <2>9, <2>10, <2>11, <2>12, <2>13, <2>14 DEF SessionInv
<1>11. CASE client' = [Ended(opened) EXCEPT !.sent = <<>>] /\ out' = Ended(opened).sent
  <2> DEFINE e == Ended(opened)
  <2>1. /\ e \in Clients /\ Down(e) /\ e.mechanism = client.mechanism /\ e.torn = opened.torn
        /\ e.told = Append(<<>>, "disconnected")
    BY <1>4, EndedIs
  <2>2. e.sent = opened.sent BY <1>4 DEF Ended, ToldTo, Clients
  <2>3. client' = [e EXCEPT !.sent = <<>>] /\ out' = e.sent BY <1>11
  <2> HIDE DEF e
  <2>4. /\ client' \in Clients /\ client'.sent = <<>> /\ Down(client') /\ ~client'.torn
        /\ client'.told = <<"disconnected">> /\ client'.mechanism = client.mechanism
        /\ out' = <<>>
    <3>1. Append(<<>>, "disconnected") = <<"disconnected">> OBVIOUS
    <3> QED BY <1>4, <1>9, <2>1, <2>2, <2>3, <3>1 DEF Clients, Down
  <2>5. DOMAIN out' = {} /\ Len(out') = 0 BY <2>4
  <2>6. TypeOK' BY <1>1, <1>6, <1>9, <2>4 DEF TypeOK
  <2>7. Lockstep' BY <1>3, <2>5 DEF Lockstep, LockstepOf
  <2>8. DownIsClean'
    <3>1. DOMAIN chunk' = {} BY <1>1
    <3> QED BY <1>1, <2>4, <3>1 DEF DownIsClean, Down
  <2>9. SidesAgree' /\ WrittenRight' /\ Conversation'
    BY <2>4 DEF SidesAgree, WrittenRight, Conversation, Down
  <2>10. SecretWithTls' BY <1>3, <2>5 DEF SecretWithTls
  <2>11. AsChosen' BY <1>1, <1>7, <1>8, <2>4
  <2>12. ToldRight'
    <3> DEFINE q == client'.told
    <3>1. q = <<"disconnected">> BY <2>4
    <3> HIDE DEF q
    <3>2. DOMAIN q = {1} /\ q[1] = "disconnected" /\ Len(q) = 1 BY <3>1
    <3>3. {k \in DOMAIN q : q[k] = "disconnected"} = {Len(q)} BY <3>2
    <3>4. {k \in DOMAIN q : q[k] = "connected"} = {} BY <3>2
    <3> QED BY <2>4, <3>3, <3>4 DEF ToldRight, ToldInOrder, Tells, Down, q
  <2> QED BY <2>6, <2>7, <2>8, <2>9, <2>10, <2>11, <2>12 DEF SessionInv
<1> QED BY <1>5, <1>10, <1>11

LEMMA ReceiveKeeps ==
    ASSUME TypeOK, SessionInv, Receive
    PROVE  TypeOK' /\ SessionInv'
<1>1. /\ client.up /\ chunk = <<>> /\ in \in Seq(Units)
      /\ UNCHANGED <<set, policy, client, out, server, connects>>
  BY DEF Receive, TypeOK
<1>2. PICK n \in 1 .. ChunkMax :
          /\ n <= Len(in)
          /\ chunk' = SubSeq(in, 1, n) /\ in' = SubSeq(in, n + 1, Len(in))
  BY DEF Receive
<1>3. n \in Nat /\ Len(in) \in Nat BY <1>1, SessionAssumption
<1> DEFINE p == SubSeq(in, 1, n)  q == SubSeq(in, n + 1, Len(in))
<1>4. p \in Seq(Units) /\ q \in Seq(Units) BY <1>1, <1>2, <1>3
<1>5. p \o q = SubSeq(in, 1, Len(in))
  <2>1. /\ 1 \in 1 .. Len(in) + 1 /\ n \in 1 - 1 .. Len(in) /\ Len(in) \in n .. Len(in)
    BY <1>2, <1>3
  <2> QED BY <1>1, <2>1, ConcatAdjacentSubSeq
<1>6. p \o q = in BY <1>1, <1>5, SubSeqFull
<1> HIDE DEF p, q
<1>7. Flight' = Flight
  <2>1. <<>> \o in = in BY <1>1
  <2> QED BY <1>1, <1>2, <1>6, <2>1 DEF Flight, p, q
<1>8. TypeOK' BY <1>1, <1>2, <1>4 DEF TypeOK, p, q
<1>9. DownIsClean' BY <1>1 DEF DownIsClean
<1>10. Lockstep' /\ SidesAgree' /\ WrittenRight' /\ SecretWithTls'
  BY <1>1, <1>7 DEF SessionInv, Lockstep, SidesAgree, WrittenRight, SecretWithTls, EncIs, CompIs, AuthedIs
<1>11. AsChosen' /\ ToldRight'
  BY <1>1, <1>7 DEF SessionInv, AsChosen, SaslChosen, TlsUsed, Auths, Offers, OffersTls,
       ToldRight, ToldInOrder, Tells, Ready
<1>12. Conversation'
  BY <1>1, <1>7, ZenonT(60) DEF SessionInv, Conversation, Asked, MaySend, Ready, SaslChosen, TlsUsed, Auths
<1> QED BY <1>8, <1>9, <1>10, <1>11, <1>12 DEF SessionInv

\* The session ends between two chunks.
LEMMA AloneKeeps ==
    ASSUME TypeOK, SessionInv, client.up, chunk = <<>>,
           NEW d, Whole(d), Down(d), d.mechanism = client.mechanism,
           d.torn \/ d.told = Append(client.told, "disconnected"),
           After(d), UNCHANGED chunk
    PROVE  TypeOK' /\ SessionInv'
<1>1. d \in Clients /\ ~d.up BY DEF Whole, Down
<1>2. /\ client' = [d EXCEPT !.sent = <<>>] /\ out' = <<>> /\ in' = <<>> /\ chunk' = <<>>
      /\ set' = set /\ policy' = policy /\ server' = server /\ connects' = connects
  BY <1>1 DEF After
<1>3. <<>> \in Seq(Units) /\ <<>> \in Seq(Messages) OBVIOUS
<1>4. /\ client' \in Clients /\ client'.sent = <<>> /\ Down(client')
      /\ client'.told = d.told /\ client'.mechanism = client.mechanism /\ client'.torn = d.torn
  BY <1>1, <1>2, <1>3 DEF Clients, Down
<1>5. Flight' = <<>> /\ DOMAIN Flight' = {}
  <2>1. <<>> \o <<>> = <<>> /\ DOMAIN <<>> = {} OBVIOUS
  <2> QED BY <1>2, <2>1 DEF Flight
<1>6. DOMAIN out' = {} /\ Len(out') = 0 /\ DOMAIN chunk' = {} BY <1>2
<1>7. TypeOK' BY <1>2, <1>3, <1>4 DEF TypeOK
<1>8. Lockstep' BY <1>5, <1>6 DEF Lockstep, LockstepOf
<1>9. DownIsClean' BY <1>2, <1>4, <1>6 DEF DownIsClean, Down
<1>10. SidesAgree' /\ WrittenRight' /\ Conversation'
  BY <1>4 DEF SidesAgree, WrittenRight, Conversation, Down
<1>11. SecretWithTls' BY <1>5, <1>6 DEF SecretWithTls
<1>12. AsChosen'
  BY <1>2, <1>4, <1>5 DEF SessionInv, AsChosen, SaslChosen, TlsUsed, Auths
<1>13. ToldRight'
  <2>1. CASE d.torn BY <1>4, <2>1 DEF ToldRight, ToldInOrder, Down
  <2>2. CASE d.told = Append(client.told, "disconnected")
    <3>1. Once(client) /\ \A k \in DOMAIN client.told : client.told[k] # "disconnected"
      BY ToldBefore
    <3>2. /\ Once(d)
          /\ {k \in DOMAIN d.told : d.told[k] = "disconnected"} = {Len(d.told)}
      BY <1>1, <2>2, <3>1, ToldAtTheEnd DEF TypeOK
    <3> QED BY <1>4, <3>2 DEF ToldRight, ToldInOrder, Tells, Once, Down
  <2> QED BY <2>1, <2>2
<1> QED BY <1>7, <1>8, <1>9, <1>10, <1>11, <1>12, <1>13 DEF SessionInv

LEMMA EndsKeep ==
    ASSUME TypeOK, SessionInv, ReceiveEnd \/ UserDisconnect
    PROVE  TypeOK' /\ SessionInv'
<1>0. /\ client.up /\ chunk = <<>> /\ client \in Clients /\ Whole(client) /\ UNCHANGED chunk
  BY ClientIsWhole DEF ReceiveEnd, UserDisconnect, SameClient, Whole
<1>1. CASE ReceiveEnd
  <2> DEFINE d == Ended(client)
  <2>1. /\ d \in Clients /\ Down(d) /\ d.mechanism = client.mechanism
        /\ d.told = Append(client.told, "disconnected")
    BY <1>0, EndedIs
  <2>2. After(d) BY <1>1 DEF ReceiveEnd
  <2> HIDE DEF d
  <2> QED BY <1>0, <2>1, <2>2, AloneKeeps DEF Whole
<1>2. CASE UserDisconnect
  <2> DEFINE d == Disconnect(client, "user disconnected")
  <2>1. /\ Whole(d) /\ Down(d) /\ d.mechanism = client.mechanism
        /\ d.torn \/ d.told = Append(client.told, "disconnected")
    BY <1>0, DisconnectIs
  <2>2. After(d) BY <1>2 DEF UserDisconnect
  <2> HIDE DEF d
  <2> QED BY <1>0, <2>1, <2>2, AloneKeeps
<1> QED BY <1>1, <1>2
-----------------------------------------------------------------------------
(***************************************************************************)
(* The server.                                                             *)
(***************************************************************************)
\* It is its turn: nothing but the request it reads is under way.
LEMMA ServerTurn ==
    ASSUME TypeOK, SessionInv, NEW w, Reads(w)
    PROVE  /\ client.up /\ server.done = FALSE /\ chunk = <<>> /\ in = <<>>
           /\ Tail(out) = <<>> /\ Head(out).what = w
           /\ Layers(client) = Layers(server) /\ client.authed = server.authed
           /\ Asked(client, server, w)
           /\ set.tls = "required" => client.enc \/ w \in {"header", "starttls", "close"}
           /\ (\E k \in DOMAIN client.told : client.told[k] = "connected") => w = "presence"
<1>1. client.up /\ ~server.done /\ out # <<>> /\ Head(out).what = w
  BY DEF Reads, Present
<1>2. /\ out \in Seq(Messages) /\ chunk \in Seq(Units) /\ in \in Seq(Units) /\ server \in Servers
  BY DEF TypeOK
<1>3. Len(out) = 1 /\ 1 \in DOMAIN out /\ Head(out) = out[1]
  <2> DEFINE q == out
  <2>0. Len(q) <= 1 BY DEF SessionInv, Lockstep, LockstepOf
  <2>1. q \in Seq(Messages) /\ q # <<>> BY <1>1, <1>2
  <2> HIDE DEF q
  <2>2. Len(q) \in Nat /\ Len(q) # 0 BY <2>1, EmptySeq
  <2> DEFINE l == Len(q)
  <2>m. l <= 1 /\ l \in Nat /\ l # 0 BY <2>0, <2>2
  <2> HIDE DEF l
  <2>n. l = 1 BY <2>m
  <2>3. Len(q) = 1 BY <2>n DEF l
  <2>4. Head(q) = q[1] BY <2>1
  <2>5. 1 \in DOMAIN q BY <2>1, <2>3, LenProperties
  <2> QED BY <2>3, <2>4, <2>5 DEF q
<1>4. Tail(out) = <<>>
  <2>1. Tail(out) \in Seq(Messages) /\ Len(Tail(out)) = Len(out) - 1
    BY <1>1, <1>2, HeadTailProperties
  <2>2. Len(Tail(out)) = 0 BY <1>3, <2>1
  <2> QED BY <2>1, <2>2, EmptySeq
<1>5. DOMAIN Flight = {}
  <2>1. SUFFICES ASSUME NEW i \in DOMAIN Flight PROVE FALSE
    OBVIOUS
  <2> QED BY <1>1, <2>1 DEF SessionInv, Lockstep, LockstepOf
<1>6. Len(chunk) = 0 /\ Len(in) = 0
  <2>1. Flight \in Seq(Units) /\ Len(Flight) = Len(chunk) + Len(in) BY FlightIs
  <2> DEFINE f == Flight
  <2>2. f \in Seq(Units) /\ DOMAIN f = {} BY <1>5, <2>1
  <2> HIDE DEF f
  <2>3. Len(f) = 0
    <3>1. Len(f) \in Nat /\ DOMAIN f = 1..Len(f) BY <2>2
    <3>2. Len(f) # 0 => 1 \in DOMAIN f BY <3>1
    <3> QED BY <2>2, <3>2
  <2>4. Len(chunk) + Len(in) = 0 BY <2>1, <2>3 DEF f
  <2>5. Len(chunk) \in Nat /\ Len(in) \in Nat BY <1>2
  <2> QED BY <2>4, <2>5
<1>7. chunk = <<>> /\ in = <<>> BY <1>2, <1>6
<1>8. \A what, type : ~Under(Flight, what) /\ ~IqIn(Flight, what, type)
  BY <1>5 DEF Under, IqIn
<1>9. Layers(client) = Layers(server) /\ client.authed = server.authed
  BY <1>1, <1>8, SidesEqual, AuthedEqual
<1>10. Asked(client, server, w) BY <1>1, <1>3 DEF SessionInv, Conversation
<1>11. set.tls = "required" => client.enc \/ w \in {"header", "starttls", "close"}
  <2>1. out[1].layers = Layers(server) BY <1>1, <1>3 DEF SessionInv, WrittenRight
  <2> QED BY <1>1, <1>3, <1>9, <2>1 DEF SessionInv, SecretWithTls, Layers
<1>12. (\E k \in DOMAIN client.told : client.told[k] = "connected") => w = "presence"
  BY <1>1, <1>3 DEF SessionInv, ToldRight
<1>13. server.done = FALSE BY <1>1, <1>2 DEF Servers
<1> QED BY <1>1, <1>4, <1>7, <1>9, <1>10, <1>11, <1>12, <1>13

\* What the server may say, and where it then is.
Proper(units, s) ==
    /\ units \in Seq(Units) /\ s \in Servers /\ s.done = FALSE
    /\ \A i \in DOMAIN units :
         /\ i = 1 \/ (i = 2 /\ units[1].what = "stream" /\ units[2].what = "features")
         /\ ~Final(units[i]) /\ units[i].layers = Layers(client)
         /\ units[i].what \in Secret => (set.tls = "required" => client.enc)
         /\ units[i].what = "iq" =>
                /\ \E context \in {"bind", "session", "roster", "auth fields", "auth"},
                      type \in {"result", "error"} :
                         units[i].arg = [context |-> context, type |-> type]
                /\ units[i].arg.context # "auth" => Asked(client, s, units[i].arg.context)
                /\ units[i].arg.context = "auth" => ~SaslChosen /\ ~s.bound
    /\ EncIs(client, units, s) /\ CompIs(client, units, s) /\ AuthedIs(client, units, s)
    /\ s.enc => TlsUsed
    /\ s.bound => s.authed
    /\ IqIn(units, "bind", "result") => s.bound
    /\ IqIn(units, "session", "result") => s.session

LEMMA AnswersKeep ==
    ASSUME TypeOK, SessionInv, NEW w, Reads(w), NEW units, Answers(units),
           Proper(units, server'),
           \A i \in DOMAIN units : units[i].what = "features" => units[i].arg = Offers',
           w = "presence" => server' = server /\ units = <<>>
    PROVE  TypeOK' /\ SessionInv'
<1>1. /\ client.up /\ chunk = <<>> /\ in = <<>> /\ Tail(out) = <<>>
      /\ (\E k \in DOMAIN client.told : client.told[k] = "connected") => w = "presence"
  BY ServerTurn
<1>2. /\ units \in Seq(Units) /\ server' \in Servers BY DEF Proper
<1>3. /\ in' = units /\ out' = <<>> /\ chunk' = <<>> /\ client' = client
      /\ set' = set /\ policy' = policy /\ connects' = connects
  <2>1. <<>> \o units = units BY <1>2
  <2> QED BY <1>1, <2>1 DEF Answers
<1>4. Flight' = units
  <2>1. <<>> \o units = units BY <1>2
  <2> QED BY <1>3, <2>1 DEF Flight
<1>5. <<>> \in Seq(Units) /\ <<>> \in Seq(Messages) /\ DOMAIN out' = {} /\ Len(out') = 0
  BY <1>3
<1>6. TypeOK' BY <1>2, <1>3, <1>5 DEF TypeOK
<1>7. Lockstep'
  <2>1. \A i \in DOMAIN units :
           ~Final(units[i]) /\ (i = 1 \/ (i = 2 /\ units[1].what = "stream" /\ units[2].what = "features"))
    BY DEF Proper
  <2> QED BY <1>3, <1>4, <1>5, <2>1 DEF Lockstep, LockstepOf
<1>8. DownIsClean' BY <1>1, <1>3 DEF DownIsClean
<1>9. SidesAgree' BY <1>3, <1>4 DEF SidesAgree, EncIs, CompIs, AuthedIs, Proper
<1>10. WrittenRight' BY <1>3, <1>4, <1>5 DEF WrittenRight, Proper
<1>11. SecretWithTls' BY <1>3, <1>4, <1>5 DEF SecretWithTls, Proper
<1>12. AsChosen'
  <2>1. \A i \in DOMAIN Flight' : Flight'[i].what = "features" => Flight'[i].arg = Offers'
    BY <1>4
  <2>2. /\ client.mechanism # "none" => SaslChosen
        /\ server'.enc => TlsUsed
        /\ server'.bound => server'.authed
    BY DEF SessionInv, AsChosen, Proper
  <2>3. (SaslChosen' <=> SaslChosen) /\ (TlsUsed' <=> TlsUsed)
    BY <1>3 DEF SaslChosen, TlsUsed, Auths
  <2> QED BY <1>3, <2>1, <2>2, <2>3 DEF AsChosen
<1>13. Conversation'
  <2>1. (\A i \in DOMAIN out : Asked(client, server, out[i].what))' BY <1>5
  <2>2. (SaslChosen' <=> SaslChosen) /\ (TlsUsed' <=> TlsUsed)
    BY <1>3 DEF SaslChosen, TlsUsed, Auths
  <2>3. (\A i \in DOMAIN Flight :
              Flight[i].what = "iq" =>
                /\ \E context \in {"bind", "session", "roster", "auth fields", "auth"},
                      type \in {"result", "error"} :
                         Flight[i].arg = [context |-> context, type |-> type]
                /\ Flight[i].arg.context # "auth" =>
                      Asked(client, server, Flight[i].arg.context)
                /\ Flight[i].arg.context = "auth" => ~SaslChosen /\ ~server.bound)'
    BY <1>3, <1>4, <2>2, ZenonT(60) DEF Proper, Asked, MaySend, Ready
  <2>4. IqIn(Flight', "bind", "result") => server'.bound BY <1>4 DEF Proper
  <2>5. IqIn(Flight', "session", "result") => server'.session BY <1>4 DEF Proper
  <2> QED BY <2>1, <2>3, <2>4, <2>5 DEF Conversation
<1>14. ToldRight'
  <2>1. CASE \E k \in DOMAIN client.told : client.told[k] = "connected"
    <3>1. server' = server /\ DOMAIN Flight' = {} BY <1>1, <1>4, <2>1
    <3> QED BY <1>3, <1>5, <3>1 DEF SessionInv, ToldRight, ToldInOrder, Tells, Ready
  <2>2. CASE ~\E k \in DOMAIN client.told : client.told[k] = "connected"
    BY <1>3, <2>2 DEF SessionInv, ToldRight, ToldInOrder, Tells
  <2> QED BY <2>1, <2>2
<1> QED BY <1>6, <1>7, <1>8, <1>9, <1>10, <1>11, <1>12, <1>13, <1>14 DEF SessionInv

\* One unit for an answer.
LEMMA OneUnit ==
    ASSUME TypeOK, NEW what \in Words,
           NEW arg \in Words \cup (SUBSET Words) \cup [context : Words, type : Words]
    PROVE  LET units == <<Unit(what, arg)>> IN
           /\ units \in Seq(Units) /\ DOMAIN units = {1}
           /\ units[1].what = what /\ units[1].arg = arg /\ units[1].layers = Layers(server)
           /\ \A x : Under(units, x) <=> x = what
           /\ \A context, type :
                 IqIn(units, context, type) <=>
                    what = "iq" /\ arg = [context |-> context, type |-> type]
<1> DEFINE u == Unit(what, arg)
<1>1. u.what = what /\ u.arg = arg /\ u.layers = Layers(server) BY DEF Unit
<1>2. u \in Units
  <2>1. Layers(server) \in LayerFlags BY DEF TypeOK, Servers, Layers, LayerFlags
  <2> QED BY <2>1 DEF Unit, Units
<1> HIDE DEF u
<1> DEFINE units == <<u>>
<1>3. units \in Seq(Units) /\ DOMAIN units = {1} /\ units[1] = u BY <1>2
<1> HIDE DEF units
<1>4. /\ \A x : Under(units, x) <=> x = what
      /\ \A context, type :
                 IqIn(units, context, type) <=>
                    what = "iq" /\ arg = [context |-> context, type |-> type]
  BY <1>1, <1>3 DEF Under, IqIn
<1> QED BY <1>1, <1>3, <1>4 DEF units, u

\* An answer of one unit that is no iq, with the server where it says it is.
LEMMA AnswerKeeps ==
    ASSUME TypeOK, SessionInv, NEW w, Reads(w), w # "presence",
           NEW what \in Words, what \notin {"end", "error", "features", "iq"},
           NEW arg \in Words, Answers(<<Unit(what, arg)>>),
           server' \in Servers, server'.done = FALSE,
           what \in Secret => (set.tls = "required" => client.enc),
           server'.enc = (server.enc \/ what = "proceed"),
           server'.comp = (server.comp \/ what = "compressed"),
           server'.authed = (server.authed \/ what = "success"),
           server'.bound = server.bound,
           what = "proceed" => TlsUsed
    PROVE  TypeOK' /\ SessionInv'
<1> DEFINE units == <<Unit(what, arg)>>
<1>1. /\ units \in Seq(Units) /\ DOMAIN units = {1}
      /\ units[1].what = what /\ units[1].arg = arg /\ units[1].layers = Layers(server)
      /\ \A x : Under(units, x) <=> x = what
      /\ \A context, type : ~IqIn(units, context, type)
  BY OneUnit
<1>2. Answers(units) OBVIOUS
<1> HIDE DEF units
<1>3. Layers(client) = Layers(server) /\ client.authed = server.authed BY ServerTurn
<1>4. client.enc = server.enc /\ client.comp = server.comp BY <1>3 DEF Layers
<1>5. (server.enc => TlsUsed) /\ (server.bound => server.authed) BY DEF SessionInv, AsChosen
<1>6. server'.enc \in BOOLEAN /\ server'.comp \in BOOLEAN /\ server'.authed \in BOOLEAN
  BY DEF Servers
<1>7. EncIs(client, units, server') /\ CompIs(client, units, server') /\ AuthedIs(client, units, server')
  BY <1>1, <1>3, <1>4, <1>6 DEF EncIs, CompIs, AuthedIs
<1>8. Proper(units, server')
  BY <1>1, <1>3, <1>5, <1>7 DEF Proper, Final
<1>9. \A i \in DOMAIN units : units[i].what # "features" BY <1>1
<1> QED BY <1>2, <1>8, <1>9, AnswersKeep

LEMMA ServerStreamKeeps ==
    ASSUME TypeOK, SessionInv, ServerStream
    PROVE  TypeOK' /\ SessionInv'
<1>1. Reads("header") /\ UNCHANGED server /\ server \in Servers
  BY DEF ServerStream, TypeOK
<1>2. PICK version \in {"1.0", "none"} :
         Answers(<<Unit("stream", version), Unit("features", Offers)>>)
  BY DEF ServerStream
<1> DEFINE u == Unit("stream", version)  f == Unit("features", Offers)
<1>3. /\ u.what = "stream" /\ u.layers = Layers(server)
      /\ f.what = "features" /\ f.arg = Offers /\ f.layers = Layers(server)
  BY DEF Unit
<1>4. u \in Units /\ f \in Units
  <2>1. Layers(server) \in LayerFlags BY <1>1 DEF Servers, Layers, LayerFlags
  <2>2. "stream" \in Words /\ "features" \in Words /\ version \in Words BY DEF Words
  <2>3. Offers \in SUBSET Words
    <3>1. /\ policy.auth \subseteq {"DIGEST-MD5", "PLAIN", "EXTERNAL", "ANONYMOUS", "iqauth"}
          /\ policy.session \subseteq {"session"}
      BY SessionAssumption DEF TypeOK
    <3> QED BY <3>1, ZenonT(60) DEF Offers, Words
  <2> QED BY <2>1, <2>2, <2>3 DEF Unit, Units
<1> HIDE DEF u, f
<1> DEFINE units == <<u, f>>
<1>5. units \in Seq(Units) /\ DOMAIN units = {1, 2} /\ units[1] = u /\ units[2] = f
  <2>1. DOMAIN units = 1..2 BY DEF units
  <2> QED BY <1>4, <2>1
<1>6. Answers(units) BY <1>2 DEF u, f
<1> HIDE DEF units
<1>7. Layers(client) = Layers(server) /\ client.authed = server.authed /\ server.done = FALSE
  BY <1>1, ServerTurn
<1>8. /\ client.enc = server.enc /\ client.comp = server.comp
      /\ server.enc \in BOOLEAN /\ server.comp \in BOOLEAN /\ server.authed \in BOOLEAN
  BY <1>1, <1>7 DEF Layers, Servers
<1>9. /\ \A what : Under(units, what) => what \in {"stream", "features"}
      /\ \A context, type : ~IqIn(units, context, type)
  BY <1>3, <1>5 DEF Under, IqIn
<1>10. EncIs(client, units, server) /\ CompIs(client, units, server) /\ AuthedIs(client, units, server)
  BY <1>7, <1>8, <1>9 DEF EncIs, CompIs, AuthedIs
<1>11. Proper(units, server)
  BY <1>1, <1>3, <1>5, <1>7, <1>9, <1>10 DEF Proper, Final, Secret, SessionInv, AsChosen
<1>12. Offers' = Offers BY <1>1, <1>6 DEF Offers, OffersTls, Answers
<1>13. \A i \in DOMAIN units : units[i].what = "features" => units[i].arg = Offers'
  BY <1>3, <1>5, <1>12
<1> QED BY <1>1, <1>6, <1>11, <1>13, AnswersKeep

LEMMA ServerLayersKeep ==
    ASSUME TypeOK, SessionInv, ServerTls \/ ServerHandshake \/ ServerCompression
    PROVE  TypeOK' /\ SessionInv'
<1>1. /\ server \in Servers /\ server.enc \in BOOLEAN /\ server.comp \in BOOLEAN
      /\ server.authed \in BOOLEAN
  BY DEF TypeOK, Servers
<1>2. CASE ServerTls
  <2>1. /\ Reads("starttls") /\ TlsUsed /\ server.done = FALSE
    <3>1. Reads("starttls") BY <1>2 DEF ServerTls
    <3> QED BY <3>1, ServerTurn DEF Asked, MaySend
  <2>2. "proceed" \in Words /\ "" \in Words /\ "failure" \in Words /\ "tls" \in Words BY DEF Words
  <2>3. CASE Answers(<<Unit("proceed", "")>>) /\ server' = [server EXCEPT !.enc = TRUE]
    BY <1>1, <2>1, <2>2, <2>3, AnswerKeeps DEF Servers, Secret
  <2>4. CASE Answers(<<Unit("failure", "tls")>>) /\ UNCHANGED server
    BY <1>1, <2>1, <2>2, <2>4, AnswerKeeps DEF Secret
  <2> QED BY <1>2, <2>3, <2>4 DEF ServerTls
<1>3. CASE ServerHandshake
  <2>1. Reads("hello") /\ UNCHANGED server BY <1>3 DEF ServerHandshake
  <2>2. server.done = FALSE BY <2>1, ServerTurn
  <2>3. PICK result \in {"good", "bad"} : Answers(<<Unit("handshake", result)>>)
    BY <1>3 DEF ServerHandshake
  <2>4. "handshake" \in Words /\ result \in Words BY DEF Words
  <2> QED BY <1>1, <2>1, <2>2, <2>3, <2>4, AnswerKeeps DEF Secret
<1>4. CASE ServerCompression
  <2>1. Reads("compress") BY <1>4 DEF ServerCompression
  <2>s. "compress" \notin {"header", "starttls", "close"} OBVIOUS
  <2>2. server.done = FALSE /\ (set.tls = "required" => client.enc)
    BY <2>1, <2>s, ServerTurn
  <2>3. "compressed" \in Words /\ "" \in Words /\ "failure" \in Words /\ "compression" \in Words
    BY DEF Words
  <2>4. CASE Answers(<<Unit("compressed", "")>>) /\ server' = [server EXCEPT !.comp = TRUE]
    BY <1>1, <2>1, <2>2, <2>3, <2>4, AnswerKeeps DEF Servers
  <2>5. CASE Answers(<<Unit("failure", "compression")>>) /\ UNCHANGED server
    BY <1>1, <2>1, <2>2, <2>3, <2>5, AnswerKeeps
  <2> QED BY <1>4, <2>4, <2>5 DEF ServerCompression
<1> QED BY <1>2, <1>3, <1>4

LEMMA ServerSaslKeeps ==
    ASSUME TypeOK, SessionInv, ServerSasl
    PROVE  TypeOK' /\ SessionInv'
<1>1. PICK w \in Mechanisms \cup {"response"} : Reads(w)
  BY DEF ServerSasl
<1>2. /\ server \in Servers /\ server.enc \in BOOLEAN /\ server.comp \in BOOLEAN
      /\ server.authed \in BOOLEAN /\ server.exchanges + 1 \in Nat
  BY DEF TypeOK, Servers
<1>3. w # "presence" /\ w \notin {"header", "starttls", "close"} BY DEF Mechanisms
<1>4. server.done = FALSE /\ (set.tls = "required" => client.enc) BY <1>1, <1>3, ServerTurn
<1>5. /\ "challenge" \in Words /\ "" \in Words /\ "success" \in Words /\ "failure" \in Words
      /\ "sasl" \in Words
  BY DEF Words
<1>6. CASE Answers(<<Unit("challenge", "")>>) /\ server' = [server EXCEPT !.exchanges = @ + 1]
  BY <1>1, <1>2, <1>3, <1>4, <1>5, <1>6, AnswerKeeps DEF Servers
<1>7. CASE Answers(<<Unit("success", "")>>) /\ server' = [server EXCEPT !.authed = TRUE]
  BY <1>1, <1>2, <1>3, <1>4, <1>5, <1>7, AnswerKeeps DEF Servers
<1>8. CASE Answers(<<Unit("failure", "sasl")>>) /\ UNCHANGED server
  BY <1>1, <1>2, <1>3, <1>4, <1>5, <1>8, AnswerKeeps
<1> QED BY <1>6, <1>7, <1>8 DEF ServerSasl

LEMMA ServerIqKeeps ==
    ASSUME TypeOK, SessionInv, ServerIq
    PROVE  TypeOK' /\ SessionInv'
<1>1. PICK context \in {"bind", "session", "roster", "auth fields", "auth"} :
        /\ Reads(context)
        /\ \E type \in {"result", "error"} :
            /\ Answers(<<Unit("iq", [context |-> context, type |-> type])>>)
            /\ server' = IF type = "error" THEN server
                         ELSE [server EXCEPT !.bound = @ \/ context = "bind",
                                             !.session = @ \/ context = "session",
                                             !.authed = @ \/ context = "auth"]
  BY DEF ServerIq
<1>2. PICK type \in {"result", "error"} :
            /\ Answers(<<Unit("iq", [context |-> context, type |-> type])>>)
            /\ server' = IF type = "error" THEN server
                         ELSE [server EXCEPT !.bound = @ \/ context = "bind",
                                             !.session = @ \/ context = "session",
                                             !.authed = @ \/ context = "auth"]
  BY <1>1
<1> DEFINE arg == [context |-> context, type |-> type]
<1>3. arg \in [context : Words, type : Words] /\ "iq" \in Words BY DEF Words
<1>6. arg.context = context /\ arg.type = type OBVIOUS
<1>7. \A c, t : arg = [context |-> c, type |-> t] <=> context = c /\ type = t
  OBVIOUS
<1>r. \E c \in {"bind", "session", "roster", "auth fields", "auth"},
         t \in {"result", "error"} : arg = [context |-> c, type |-> t]
  OBVIOUS
<1>u. Answers(<<Unit("iq", arg)>>) BY <1>2
<1> HIDE DEF arg
<1> DEFINE units == <<Unit("iq", arg)>>
<1>4. /\ units \in Seq(Units) /\ DOMAIN units = {1}
      /\ units[1].what = "iq" /\ units[1].arg = arg /\ units[1].layers = Layers(server)
      /\ \A x : Under(units, x) <=> x = "iq"
      /\ \A c, t : IqIn(units, c, t) <=> arg = [context |-> c, type |-> t]
  <2>1. arg \in Words \cup (SUBSET Words) \cup [context : Words, type : Words] BY <1>3
  <2>2. /\ units \in Seq(Units) /\ DOMAIN units = {1}
        /\ units[1].what = "iq" /\ units[1].arg = arg /\ units[1].layers = Layers(server)
        /\ \A x : Under(units, x) <=> x = "iq"
        /\ \A c, t : IqIn(units, c, t) <=> ("iq" = "iq" /\ arg = [context |-> c, type |-> t])
    BY <1>3, <2>1, OneUnit, Zenon
  <2> QED BY <2>2
<1>5. Answers(units) BY <1>u
<1> HIDE DEF units
<1>8. /\ Layers(client) = Layers(server) /\ client.authed = server.authed /\ server.done = FALSE
      /\ Asked(client, server, context) /\ (set.tls = "required" => client.enc)
  BY <1>1, ServerTurn
<1>9. /\ server \in Servers /\ server.enc \in BOOLEAN /\ server.comp \in BOOLEAN
      /\ server.authed \in BOOLEAN /\ server.bound \in BOOLEAN /\ server.session \in BOOLEAN
  BY DEF TypeOK, Servers
<1>10. /\ server' \in Servers /\ server'.done = FALSE
       /\ server'.enc = server.enc /\ server'.comp = server.comp
       /\ server'.authed = (server.authed \/ (context = "auth" /\ type = "result"))
       /\ server'.bound = (server.bound \/ (context = "bind" /\ type = "result"))
       /\ server'.session = (server.session \/ (context = "session" /\ type = "result"))
  BY <1>2, <1>8, <1>9 DEF Servers
<1>11. client.enc = server.enc /\ client.comp = server.comp BY <1>8 DEF Layers
<1>12. EncIs(client, units, server') /\ CompIs(client, units, server') /\ AuthedIs(client, units, server')
  <2>1. /\ ~Under(units, "proceed") /\ ~Under(units, "compressed") /\ ~Under(units, "success")
        /\ IqIn(units, "auth", "result") <=> (context = "auth" /\ type = "result")
    <3>1. IqIn(units, "auth", "result") <=> arg = [context |-> "auth", type |-> "result"]
      BY <1>4
    <3> QED BY <1>4, <1>7, <3>1, ZenonT(60)
  <2> QED BY <1>8, <1>9, <1>10, <1>11, <2>1 DEF EncIs, CompIs, AuthedIs
<1>13. (server.enc => TlsUsed) /\ (server.bound => server.authed) BY DEF SessionInv, AsChosen
<1>14. context = "bind" => server.authed BY <1>8 DEF Asked, MaySend
<1>15. context # "auth" => Asked(client, server', context)
  BY <1>8, <1>10 DEF Asked, MaySend, Ready
<1>16. context = "auth" => ~SaslChosen /\ ~server'.bound
  BY <1>8, <1>9, <1>10 DEF Asked, MaySend
<1>17. /\ IqIn(units, "bind", "result") => server'.bound
       /\ IqIn(units, "session", "result") => server'.session
  <2>1. /\ IqIn(units, "bind", "result") <=> arg = [context |-> "bind", type |-> "result"]
        /\ IqIn(units, "session", "result") <=> arg = [context |-> "session", type |-> "result"]
    BY <1>4
  <2> QED BY <1>7, <1>10, <2>1
<1>18. Proper(units, server')
  <2>1. server'.bound => server'.authed BY <1>9, <1>10, <1>13, <1>14
  <2>2. server'.enc => TlsUsed BY <1>10, <1>13
  <2>4. ~Final(units[1]) BY <1>4 DEF Final
  <2> QED BY <1>4, <1>6, <1>8, <1>10, <1>12, <1>15, <1>16, <1>17, <1>r, <2>1, <2>2, <2>4, ZenonT(60) DEF Proper
<1>19. \A i \in DOMAIN units : units[i].what # "features" BY <1>4
<1>20. context # "presence" OBVIOUS
<1> QED BY <1>1, <1>5, <1>18, <1>19, <1>20, AnswersKeep

LEMMA ServerIgnoresKeeps ==
    ASSUME TypeOK, SessionInv, ServerIgnores
    PROVE  TypeOK' /\ SessionInv'
<1>1. Reads("presence") /\ Answers(<<>>) /\ UNCHANGED server /\ server \in Servers
  BY DEF ServerIgnores, TypeOK
<1>2. Layers(client) = Layers(server) /\ client.authed = server.authed /\ server.done = FALSE
  BY <1>1, ServerTurn
<1>3. <<>> \in Seq(Units) /\ DOMAIN <<>> = {} OBVIOUS
<1>4. /\ client.enc = server.enc /\ client.comp = server.comp
      /\ server.enc \in BOOLEAN /\ server.comp \in BOOLEAN /\ server.authed \in BOOLEAN
  BY <1>1, <1>2 DEF Layers, Servers
<1> DEFINE units == <<>>
<1>5. units \in Seq(Units) /\ DOMAIN units = {} /\ units = <<>> BY <1>3
<1> HIDE DEF units
<1>6. \A what, type : ~Under(units, what) /\ ~IqIn(units, what, type)
  BY <1>5 DEF Under, IqIn
<1>7. EncIs(client, units, server) /\ CompIs(client, units, server) /\ AuthedIs(client, units, server)
  BY <1>2, <1>4, <1>6 DEF EncIs, CompIs, AuthedIs
<1>8. Proper(units, server)
  BY <1>1, <1>2, <1>5, <1>6, <1>7 DEF Proper, SessionInv, AsChosen
<1> QED BY <1>1, <1>5, <1>8, AnswersKeep

\* The end of the stream is the last that comes.
LEMMA ServerEndsKeeps ==
    ASSUME TypeOK, SessionInv, ServerEnds
    PROVE  TypeOK' /\ SessionInv'
<1>1. PICK what \in {"end", "error"} : in' = Append(in, Unit(what, ""))
  BY DEF ServerEnds
<1> DEFINE u == Unit(what, "")
<1>2. /\ client.up /\ ~server.done /\ server \in Servers /\ server' = [server EXCEPT !.done = TRUE]
      /\ UNCHANGED <<set, policy, client, out, chunk, connects>>
  BY DEF ServerEnds, Present, TypeOK
<1>3. u \in Units /\ Final(u) /\ u.layers = Layers(server) /\ u.what = what
  <2>1. Layers(server) \in LayerFlags BY <1>2 DEF Servers, Layers, LayerFlags
  <2>2. what \in Words /\ "" \in Words BY DEF Words
  <2> QED BY <2>1, <2>2 DEF Unit, Units, Final
<1>4. in' = Append(in, u) BY <1>1
<1> HIDE DEF u
<1>5. /\ server' \in Servers /\ server'.enc = server.enc /\ server'.comp = server.comp
      /\ server'.authed = server.authed /\ server'.bound = server.bound
      /\ server'.session = server.session /\ server'.done
  BY <1>2 DEF Servers
<1>6. in \in Seq(Units) /\ chunk \in Seq(Units) BY DEF TypeOK
<1>7. /\ Flight \in Seq(Units) /\ Flight' = Append(Flight, u) /\ in' \in Seq(Units)
  <2>1. chunk \o Append(in, u) = Append(chunk \o in, u) BY <1>3, <1>6
  <2> QED BY <1>2, <1>3, <1>4, <1>6, <2>1 DEF Flight
<1> DEFINE f == Flight  g == Flight'
<1>8. f \in Seq(Units) /\ g = Append(f, u) BY <1>7
<1> HIDE DEF f, g
<1>9. /\ Len(f) \in Nat /\ Len(g) = Len(f) + 1
      /\ \A i \in DOMAIN f : i \in DOMAIN g /\ g[i] = f[i]
      /\ \A i \in DOMAIN g : i \in DOMAIN f \/ (i = Len(g) /\ g[i] = u)
      /\ 1 \in DOMAIN g
  BY <1>3, <1>8
<1>10. \A i \in DOMAIN f : ~Final(f[i])
  BY <1>2 DEF SessionInv, Lockstep, LockstepOf, f
<1>11. /\ \A w : w \notin {"end", "error"} => (Under(g, w) <=> Under(f, w))
       /\ \A context, type : IqIn(g, context, type) <=> IqIn(f, context, type)
  BY <1>3, <1>9 DEF Under, IqIn, Final
<1>12. TypeOK' BY <1>2, <1>5, <1>7 DEF TypeOK
<1>13. Lockstep'
  <2>1. /\ Len(out) <= 1
        /\ \A i \in DOMAIN f : /\ out = <<>>
                               /\ i = 1 \/ (i = 2 /\ f[1].what = "stream" /\ f[2].what = "features")
    BY <1>10 DEF SessionInv, Lockstep, LockstepOf, f
  <2>2. \A i \in DOMAIN f : i = 2 => 1 \in DOMAIN f BY <1>8
  <2>3. \A i \in DOMAIN g :
         IF Final(g[i]) THEN i = Len(g)
         ELSE /\ out = <<>>
              /\ i = 1 \/ (i = 2 /\ g[1].what = "stream" /\ g[2].what = "features")
    BY <1>3, <1>9, <1>10, <2>1, <2>2
  <2> QED BY <1>2, <1>5, <2>1, <2>3 DEF Lockstep, LockstepOf, g
<1>14. DownIsClean' BY <1>2 DEF DownIsClean
<1>15. SidesAgree'
  <2>1. EncIs(client, f, server) /\ CompIs(client, f, server) /\ AuthedIs(client, f, server)
    BY <1>2 DEF SessionInv, SidesAgree, f
  <2>2. EncIs(client, g, server') /\ CompIs(client, g, server') /\ AuthedIs(client, g, server')
    BY <1>5, <1>11, <2>1 DEF EncIs, CompIs, AuthedIs
  <2> QED BY <1>2, <2>2 DEF SidesAgree, EncIs, CompIs, AuthedIs, g
<1>16. Layers(server') = Layers(server) BY <1>5 DEF Layers
<1>17. WrittenRight'
  <2>1. \A i \in DOMAIN f :
          f[i].layers = IF Final(f[i]) THEN Layers(server) ELSE Layers(client)
    BY <1>2 DEF SessionInv, WrittenRight, f
  <2>2. \A i \in DOMAIN g :
          g[i].layers = IF Final(g[i]) THEN Layers(server') ELSE Layers(client)
    BY <1>3, <1>9, <1>16, <2>1
  <2>3. \A i \in DOMAIN out : out[i].layers = Layers(server')
    BY <1>2, <1>16 DEF SessionInv, WrittenRight
  <2> QED BY <1>2, <2>2, <2>3 DEF WrittenRight, g
<1>18. SecretWithTls'
  <2>1. \A i \in DOMAIN g : g[i].what \in Secret => i \in DOMAIN f /\ g[i] = f[i]
    BY <1>3, <1>9 DEF Final, Secret
  <2>2. set.tls = "required" => \A i \in DOMAIN g : g[i].what \in Secret => client.enc
    BY <1>2, <2>1 DEF SessionInv, SecretWithTls, f
  <2> QED BY <1>2, <2>2 DEF SessionInv, SecretWithTls, g
<1>19. AsChosen'
  <2>1. Offers' = Offers BY <1>2, <1>5 DEF Offers, OffersTls
  <2>2. \A i \in DOMAIN g : g[i].what = "features" => g[i].arg = Offers
    <3>1. \A i \in DOMAIN g : g[i].what = "features" => i \in DOMAIN f /\ g[i] = f[i]
      BY <1>3, <1>9 DEF Final
    <3> QED BY <3>1 DEF SessionInv, AsChosen, f
  <2>3. (SaslChosen' <=> SaslChosen) /\ (TlsUsed' <=> TlsUsed)
    BY <1>2 DEF SaslChosen, TlsUsed, Auths
  <2> QED BY <1>2, <1>5, <2>1, <2>2, <2>3 DEF SessionInv, AsChosen, g
<1>20. \A w : Asked(client, server', w) <=> Asked(client, server, w)
  BY <1>5 DEF Asked, MaySend, Ready
<1>21. Conversation'
  <2>0. (SaslChosen' <=> SaslChosen) /\ (TlsUsed' <=> TlsUsed)
    BY <1>2 DEF SaslChosen, TlsUsed, Auths
  <2>1. (\A i \in DOMAIN out : Asked(client, server, out[i].what))'
    BY <1>2, <1>20, <2>0 DEF SessionInv, Conversation, Asked, MaySend, Ready
  <2>e. client' = client /\ set' = set /\ policy' = policy BY <1>2
  <2>2. \A i \in DOMAIN g : g[i].what = "iq" => i \in DOMAIN f /\ g[i] = f[i]
    BY <1>3, <1>9 DEF Final
  <2>3. \A i \in DOMAIN g :
              g[i].what = "iq" =>
                /\ \E context \in {"bind", "session", "roster", "auth fields", "auth"},
                      type \in {"result", "error"} :
                         g[i].arg = [context |-> context, type |-> type]
                /\ g[i].arg.context # "auth" => Asked(client, server', g[i].arg.context)
                /\ g[i].arg.context = "auth" => ~SaslChosen /\ ~server'.bound
    <3>1. \A i \in DOMAIN f :
              f[i].what = "iq" =>
                /\ \E context \in {"bind", "session", "roster", "auth fields", "auth"},
                      type \in {"result", "error"} :
                         f[i].arg = [context |-> context, type |-> type]
                /\ f[i].arg.context # "auth" => Asked(client, server, f[i].arg.context)
                /\ f[i].arg.context = "auth" => ~SaslChosen /\ ~server.bound
      BY <1>2 DEF SessionInv, Conversation, f
    <3>2. SUFFICES ASSUME NEW i \in DOMAIN g, g[i].what = "iq"
                   PROVE  /\ \E context \in {"bind", "session", "roster", "auth fields", "auth"},
                                type \in {"result", "error"} :
                                   g[i].arg = [context |-> context, type |-> type]
                          /\ g[i].arg.context # "auth" => Asked(client, server', g[i].arg.context)
                          /\ g[i].arg.context = "auth" => ~SaslChosen /\ ~server'.bound
      OBVIOUS
    <3>3. i \in DOMAIN f /\ g[i] = f[i] BY <2>2, <3>2
    <3>4. g[i].arg.context # "auth" => Asked(client, server', g[i].arg.context)
      BY <1>20, <3>1, <3>2, <3>3
    <3> QED BY <1>5, <3>1, <3>2, <3>3, <3>4
  <2>a. \A i \in DOMAIN g : g[i].what = "iq" /\ g[i].arg.context # "auth" =>
            Asked(client, server', g[i].arg.context)
    BY <2>3
  <2>b. (\A i \in DOMAIN Flight : Flight[i].what = "iq" /\ Flight[i].arg.context # "auth" =>
            Asked(client, server, Flight[i].arg.context))'
    BY <2>0, <2>a, <2>e DEF Asked, MaySend, Ready, g
  <2>4. (\A i \in DOMAIN Flight :
              Flight[i].what = "iq" =>
                /\ \E context \in {"bind", "session", "roster", "auth fields", "auth"},
                      type \in {"result", "error"} :
                         Flight[i].arg = [context |-> context, type |-> type]
                /\ Flight[i].arg.context # "auth" =>
                      Asked(client, server, Flight[i].arg.context)
                /\ Flight[i].arg.context = "auth" => ~SaslChosen /\ ~server.bound)'
    BY <2>0, <2>3, <2>b DEF g
  <2>5. /\ IqIn(g, "bind", "result") => server'.bound
        /\ IqIn(g, "session", "result") => server'.session
    BY <1>2, <1>5, <1>11 DEF SessionInv, Conversation, f
  <2> QED BY <2>1, <2>4, <2>5 DEF Conversation, g
<1>22. ToldRight'
  <2>1. (\A i \in DOMAIN f : Final(f[i])) => \A i \in DOMAIN g : Final(g[i])
    BY <1>3, <1>9
  <2>2. Ready(client, server) => Ready(client, server') BY <1>5 DEF Ready
  <2> QED BY <1>2, <2>1, <2>2 DEF SessionInv, ToldRight, ToldInOrder, Tells, Ready, f, g
<1> QED BY <1>12, <1>13, <1>14, <1>15, <1>17, <1>18, <1>19, <1>21, <1>22 DEF SessionInv

\* Nobody notices a connection that breaks until the next write or read.
LEMMA BreakKeeps ==
    ASSUME TypeOK, SessionInv, Break
    PROVE  TypeOK' /\ SessionInv'
<1>1. /\ client.up /\ client \in Clients /\ client.sent = <<>>
      /\ client' = [client EXCEPT !.broken = TRUE]
      /\ UNCHANGED <<set, policy, out, server, in, chunk, connects>>
  BY DEF Break, Present, TypeOK
<1>2. /\ client' \in Clients /\ client'.up /\ client'.sent = <<>>
      /\ client'.enc = client.enc /\ client'.comp = client.comp
      /\ client'.authed = client.authed /\ client'.resourceBound = client.resourceBound
      /\ client'.features = client.features /\ client'.mechanism = client.mechanism
      /\ client'.told = client.told /\ client'.torn = client.torn
  BY <1>1 DEF Clients
<1>3. Flight' = Flight BY <1>1 DEF Flight
<1>4. Layers(client') = Layers(client) BY <1>2 DEF Layers
<1>5. TypeOK' BY <1>1, <1>2 DEF TypeOK
<1>6. Lockstep' /\ DownIsClean'
  BY <1>1, <1>2, <1>3 DEF SessionInv, Lockstep, DownIsClean
<1>7. SidesAgree' /\ WrittenRight' /\ SecretWithTls'
  BY <1>1, <1>2, <1>3, <1>4
     DEF SessionInv, SidesAgree, EncIs, CompIs, AuthedIs, WrittenRight, SecretWithTls
<1>8. AsChosen'
  BY <1>1, <1>2, <1>3 DEF SessionInv, AsChosen, SaslChosen, TlsUsed, Auths, Offers, OffersTls
<1>9. Conversation'
  <2>1. (SaslChosen' <=> SaslChosen) /\ (TlsUsed' <=> TlsUsed)
    BY <1>1 DEF SaslChosen, TlsUsed, Auths
  <2>2. Conversation BY DEF SessionInv
  <2>3. set' = set /\ policy' = policy /\ out' = out /\ server' = server BY <1>1
  <2>4. (\A i \in DOMAIN out : Asked(client, server, out[i].what))'
    BY <1>1, <1>2, <2>1, <2>2, <2>3, ZenonT(60) DEF Conversation, Asked, MaySend, Ready
  <2>a. \A i \in DOMAIN Flight : Flight[i].what = "iq" =>
            /\ Flight[i].arg.context # "auth" => Asked(client, server, Flight[i].arg.context)
            /\ Flight[i].arg.context = "auth" => ~SaslChosen /\ ~server.bound
            /\ \E context \in {"bind", "session", "roster", "auth fields", "auth"},
                  type \in {"result", "error"} :
                     Flight[i].arg = [context |-> context, type |-> type]
    BY <1>1, <2>2 DEF Conversation
  <2>b. (\A i \in DOMAIN Flight : Flight[i].what = "iq" /\ Flight[i].arg.context # "auth" =>
            Asked(client, server, Flight[i].arg.context))'
    BY <1>2, <1>3, <2>1, <2>3, <2>a DEF Asked, MaySend, Ready
  <2>5. (\A i \in DOMAIN Flight :
              Flight[i].what = "iq" =>
                /\ \E context \in {"bind", "session", "roster", "auth fields", "auth"},
                      type \in {"result", "error"} :
                         Flight[i].arg = [context |-> context, type |-> type]
                /\ Flight[i].arg.context # "auth" =>
                      Asked(client, server, Flight[i].arg.context)
                /\ Flight[i].arg.context = "auth" => ~SaslChosen /\ ~server.bound)'
    BY <1>3, <2>1, <2>3, <2>a, <2>b
  <2>6. /\ IqIn(Flight', "bind", "result") => server'.bound
        /\ IqIn(Flight', "session", "result") => server'.session
    BY <1>1, <1>3, <2>2, <2>3 DEF Conversation
  <2> QED BY <2>4, <2>5, <2>6 DEF Conversation
<1>10. ToldRight'
  BY <1>1, <1>2, <1>3 DEF SessionInv, ToldRight, ToldInOrder, Tells, Ready
<1> QED BY <1>5, <1>6, <1>7, <1>8, <1>9, <1>10 DEF SessionInv
-----------------------------------------------------------------------------
(***************************************************************************)
(* Every state the program reaches.                                        *)
(***************************************************************************)
LEMMA StartsInOrder == Init => TypeOK /\ SessionInv
<1>1. SUFFICES ASSUME Init PROVE TypeOK /\ SessionInv
  OBVIOUS
<1>2. /\ set \in Settings /\ policy \in Policies /\ client = NewClient /\ server = NewServer
      /\ out = <<>> /\ in = <<>> /\ chunk = <<>> /\ connects = 0
  BY <1>1 DEF Init
<1>3. /\ <<>> \in Seq(Units) /\ <<>> \in Seq(Messages) /\ <<>> \in Seq(Words)
      /\ DOMAIN <<>> = {} /\ Len(<<>>) = 0 /\ <<>> \o <<>> = <<>>
  OBVIOUS
<1>4. Flight = <<>> /\ DOMAIN Flight = {} BY <1>2, <1>3 DEF Flight
<1>5. /\ client \in Clients /\ client.sent = <<>> /\ Down(client)
      /\ client.mechanism = "none" /\ ~client.torn
  <2>1. "none" \in Words BY DEF Words
  <2> QED BY <1>2, <1>3, <2>1 DEF NewClient, Clients, Down
<1>6. server \in Servers /\ ~server.enc /\ ~server.bound BY <1>2 DEF NewServer, Servers
<1>7. TypeOK BY <1>2, <1>3, <1>5, <1>6 DEF TypeOK
<1>8. Lockstep BY <1>2, <1>3, <1>4 DEF Lockstep, LockstepOf
<1>9. DownIsClean BY <1>2, <1>3, <1>5 DEF DownIsClean, Down
<1>10. SidesAgree /\ WrittenRight /\ Conversation
  BY <1>5 DEF SidesAgree, WrittenRight, Conversation, Down
<1>11. SecretWithTls BY <1>2, <1>3, <1>4 DEF SecretWithTls
<1>12. AsChosen BY <1>4, <1>5, <1>6 DEF AsChosen
<1>13. ToldRight BY <1>2, <1>5 DEF ToldRight, ToldInOrder, Down
<1> QED BY <1>7, <1>8, <1>9, <1>10, <1>11, <1>12, <1>13 DEF SessionInv

LEMMA HandleKeeps ==
    ASSUME TypeOK, SessionInv, Handle
    PROVE  TypeOK' /\ SessionInv'
BY StreamKeeps, StreamEndKeeps, LayersKeep, BindResourceKeeps, LoginKeeps,
   ProceedKeeps, HandshakeKeeps, CompressedKeeps, FailureKeeps, ChallengeKeeps, SuccessKeeps,
   BindKeeps, SessionKeeps, RosterKeeps, AuthKeeps
   DEF Handle

LEMMA ServerStepKeeps ==
    ASSUME TypeOK, SessionInv, ServerStep
    PROVE  TypeOK' /\ SessionInv'
BY ServerStreamKeeps, ServerLayersKeep, ServerSaslKeeps, ServerIqKeeps, ServerIgnoresKeeps
   DEF ServerStep

LEMMA StepKeeps == TypeOK /\ SessionInv /\ [Next]_vars => TypeOK' /\ SessionInv'
<1>1. SUFFICES ASSUME TypeOK, SessionInv, [Next]_vars PROVE TypeOK' /\ SessionInv'
  OBVIOUS
<1>2. CASE Connect BY <1>1, <1>2, ConnectKeeps
<1>3. CASE UserDisconnect BY <1>1, <1>3, EndsKeep
<1>4. CASE ClientStep
  BY <1>1, <1>4, ReceiveKeeps, EndsKeep, HandleKeeps DEF ClientStep
<1>5. CASE ServerStep BY <1>1, <1>5, ServerStepKeeps
<1>6. CASE ServerEnds BY <1>1, <1>6, ServerEndsKeeps
<1>7. CASE Break BY <1>1, <1>7, BreakKeeps
<1>8. CASE UNCHANGED vars
  <2>1. UNCHANGED <<set, policy, client, out, server, in, chunk, connects>> BY <1>8 DEF vars
  <2>2. TypeOK' BY <1>1, <2>1 DEF TypeOK
  <2>3. Flight' = Flight BY <2>1 DEF Flight
  <2>4. /\ Lockstep' /\ DownIsClean'
    BY <1>1, <2>1, <2>3 DEF SessionInv, Lockstep, DownIsClean, Down
  <2>5. SidesAgree' BY <1>1, <2>1, <2>3 DEF SessionInv, SidesAgree, EncIs, CompIs, AuthedIs
  <2>6. WrittenRight' BY <1>1, <2>1, <2>3 DEF SessionInv, WrittenRight, EncIs, CompIs, AuthedIs
  <2>7. SecretWithTls' BY <1>1, <2>1, <2>3 DEF SessionInv, SecretWithTls
  <2>8. AsChosen'
    BY <1>1, <2>1, <2>3 DEF SessionInv, AsChosen, SaslChosen, TlsUsed, Auths, Offers, OffersTls
  <2>9. ToldRight'
    BY <1>1, <2>1, <2>3 DEF SessionInv, ToldRight, ToldInOrder, Tells, Ready
  <2>10. Conversation'
    BY <1>1, <2>1, <2>3, ZenonT(60)
       DEF SessionInv, Conversation, Asked, MaySend, Ready, SaslChosen, TlsUsed, Auths
  <2> QED BY <1>1, <2>1, <2>2, <2>4, <2>5, <2>6, <2>7, <2>8, <2>9, <2>10 DEF SessionInv
<1> QED BY <1>1, <1>2, <1>3, <1>4, <1>5, <1>6, <1>7, <1>8 DEF Next

\* Client and server take turns, and whatever is under way is as both sides expect it:
\* the invariant the two theorems below follow from.
THEOREM TurnsAreTaken == Spec => [](TypeOK /\ SessionInv)
<1>1. Init => TypeOK /\ SessionInv BY StartsInOrder
<1>2. (TypeOK /\ SessionInv) /\ [Next]_vars => (TypeOK /\ SessionInv)' BY StepKeeps
<1> QED BY <1>1, <1>2, PTL DEF Spec

LEMMA LayersFollow ==
    ASSUME TypeOK, SessionInv
    PROVE  LayersTrue
<1>1. ASSUME client.up, out # <<>> PROVE Head(out).layers = Layers(server)
  <2> DEFINE q == out
  <2>1. q \in Seq(Messages) /\ q # <<>> BY <1>1 DEF TypeOK
  <2>2. \A i \in DOMAIN q : q[i].layers = Layers(server)
    BY <1>1 DEF SessionInv, WrittenRight
  <2> HIDE DEF q
  <2>3. Len(q) \in Nat /\ Len(q) # 0 /\ DOMAIN q = 1..Len(q)
    BY <2>1, EmptySeq, LenProperties
  <2>4. 1 \in DOMAIN q BY <2>3
  <2>5. Head(q) = q[1] BY <2>1
  <2> QED BY <2>2, <2>4, <2>5 DEF q
<1>2. ASSUME client.up, in # <<>>, chunk = <<>> PROVE Head(in).layers = Layers(client)
  <2>1. Flight = in
    <3>1. in \in Seq(Units) BY DEF TypeOK
    <3>2. <<>> \o in = in BY <3>1
    <3> QED BY <1>2, <3>2 DEF Flight
  <2> DEFINE q == in
  <2>2. q \in Seq(Units) /\ q # <<>> BY <1>2 DEF TypeOK
  <2>3. \A i \in DOMAIN q :
           /\ q[i].layers = IF Final(q[i]) THEN Layers(server) ELSE Layers(client)
           /\ Final(q[i]) => i = Len(q)
    BY <1>2, <2>1 DEF SessionInv, WrittenRight, Lockstep, LockstepOf
  <2>4. /\ \A w : Under(Flight, w) <=> \E i \in DOMAIN q : q[i].what = w
    BY <2>1 DEF Under
  <2> HIDE DEF q
  <2>5. Len(q) \in Nat /\ Len(q) # 0 /\ DOMAIN q = 1..Len(q)
    BY <2>2, EmptySeq, LenProperties
  <2>6. 1 \in DOMAIN q BY <2>5
  <2>7. Head(q) = q[1] BY <2>2
  <2>8. CASE ~Final(q[1]) BY <2>3, <2>6, <2>7, <2>8 DEF q
  <2>9. CASE Final(q[1])
    <3>1. Len(q) = 1 BY <2>3, <2>6, <2>9
    <3>2. \A i \in DOMAIN q : i = 1 BY <2>5, <3>1
    <3>3. ~Under(Flight, "proceed") /\ ~Under(Flight, "compressed")
      BY <2>4, <2>9, <3>2 DEF Final
    <3>4. Layers(client) = Layers(server) BY <1>2, <3>3, SidesEqual
    <3> QED BY <2>3, <2>6, <2>7, <2>9, <3>4 DEF q
  <2> QED BY <2>8, <2>9
<1>3. LayersAgree BY <1>1, <1>2 DEF LayersAgree
<1>4. NothingWithoutTls BY DEF SessionInv, SecretWithTls, NothingWithoutTls
<1> QED BY <1>3, <1>4 DEF LayersTrue

LEMMA ToldFollows ==
    ASSUME TypeOK, SessionInv
    PROVE  ToldTruth
<1>1. ToldInOrder BY DEF SessionInv, ToldRight
<1>2. ConnectedMeansReady
  BY DEF SessionInv, ToldRight, ConnectedMeansReady, Tells, Ready
<1> QED BY <1>1, <1>2 DEF ToldTruth

\* Whatever an application configures, a server offers and refuses, and whenever the
\* stream ends or the connection breaks: each side of ClientBase's stream reads with
\* the layers the other has written with, and nothing but the negotiation leaves a
\* client that requires TLS before it is encrypted.
THEOREM LayersAlike == Spec => []LayersTrue
<1>1. TypeOK /\ SessionInv => LayersTrue BY LayersFollow
<1> QED BY <1>1, TurnsAreTaken, PTL

\* The connection listeners are told onConnect once at most and only when the server
\* is as far as the client then believes, and onDisconnect once, last, when it is so.
THEOREM ListenersToldTruth == Spec => []ToldTruth
<1>1. TypeOK /\ SessionInv => ToldTruth BY ToldFollows
<1> QED BY <1>1, TurnsAreTaken, PTL
=============================================================================
