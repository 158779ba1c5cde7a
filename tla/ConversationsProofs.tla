------------------------ MODULE ConversationsProofs ------------------------
(***************************************************************************)
(* Proofs about what is said to others, for any number of them.            *)
(*                                                                         *)
(* The first part is MessageSessions: conversations keep their threads and *)
(* notices go to who asked for them, which follows from what holds of      *)
(* every session the client has (Sound) and from no two having one id.     *)
(* The second is Responders: requests get one answer each, which counts    *)
(* answers against those who still wait (WaitAlone, AnsweredOnce), and the *)
(* commands and hashes that are offered have nodes (Registered,            *)
(* Announced).                                                             *)
(***************************************************************************)
EXTENDS MessageSessions, Responders, SequenceTheorems, FiniteSetTheorems, TLAPS

States == {"gone", "active", "composing"}
Events == {"delivered", "composing", "cancel"}

SessionT ==
    [id : Nat, res : Resources \cup {""}, types : SUBSET Types, wantUpgrade : BOOLEAN,
     honor : BOOLEAN, thread : Nat, hadMessages : BOOLEAN, handled : BOOLEAN,
     enableChatStates : BOOLEAN, lastState : States, disable : BOOLEAN,
     requested : SUBSET {"delivered", "composing"}, lastID : Nat, lastEvent : Events,
     refused : BOOLEAN, told : SUBSET (Nat \X Events)]

MessageT == [res : Resources \cup {""}, thread : Nat, type : Types \cup {"error"},
             content : Contents]

\* A session, when n messages have been received: what is asked for was asked for by a
\* message, what was told as delivered is no longer asked for, and who had a message
\* without a state gets none.
Sound(s, n) ==
    /\ s.lastID <= n
    /\ \A t \in s.told : t[1] <= n
    /\ s.requested /= {} => s.lastID /= 0
    /\ <<s.lastID, "delivered">> \in s.told => "delivered" \notin s.requested
    /\ s.refused => ~ s.enableChatStates

\* The sessions, when n messages have been received and k sessions made.
AllSound(seq, n, k) ==
    /\ seq \in Seq(SessionT)
    /\ \A i \in DOMAIN seq : Sound(seq[i], n) /\ seq[i].id <= k
    /\ \A i, j \in DOMAIN seq : seq[i].id = seq[j].id => i = j

SessionsInv ==
    /\ auto \subseteq Types /\ threads \in Nat /\ made \in Nat /\ received \in Nat
    /\ AllSound(sessions, received, made)

\* t is what s has become: its thread is kept, and its resource or none.
Follows(s, t) ==
    /\ t.id = s.id
    /\ s.hadMessages => t.thread = s.thread
    /\ s.res /= "" => t.res \in {s.res, ""}

\* q has what has become of sessions of p, and new ones.
Continues(p, q, k) ==
    \A i \in DOMAIN q : q[i].id > k \/ \E j \in DOMAIN p : Follows(p[j], q[i])

-----------------------------------------------------------------------------
\* Ids tell the sessions apart.
LEMMA OfIs ==
    ASSUME NEW seq, NEW n, NEW k, AllSound(seq, n, k), NEW i \in DOMAIN seq
    PROVE  Of(seq, seq[i].id) = seq[i]
<1>1. \E j \in DOMAIN seq : seq[j].id = seq[i].id OBVIOUS
<1>2. \A j \in DOMAIN seq : seq[j].id = seq[i].id => j = i BY DEF AllSound
<1> QED BY <1>1, <1>2 DEF Of

LEMMA KeptByAll ==
    ASSUME NEW p, NEW q, NEW n, NEW m, NEW k \in Nat, NEW l,
           AllSound(p, n, k), AllSound(q, m, l), Continues(p, q, k)
    PROVE  \A id \in Ids(p) \cap Ids(q) : Follows(Of(p, id), Of(q, id))
<1> SUFFICES ASSUME NEW id \in Ids(p) \cap Ids(q) PROVE Follows(Of(p, id), Of(q, id))
  OBVIOUS
<1>1. PICK i \in DOMAIN p : p[i].id = id BY DEF Ids
<1>2. PICK h \in DOMAIN q : q[h].id = id BY DEF Ids
<1>3. Of(p, id) = p[i] BY <1>1, OfIs
<1>4. Of(q, id) = q[h] BY <1>2, OfIs
<1>5. p[i] \in SessionT /\ p[i].id <= k
  BY LenProperties, ElementOfSeq DEF AllSound
<1>6. ~(q[h].id > k)
  <2>1. p[i].id \in Nat BY <1>5 DEF SessionT
  <2>2. ~(p[i].id > k) BY <1>5, <2>1
  <2> QED BY <1>1, <1>2, <2>2
<1>7. PICK j \in DOMAIN p : Follows(p[j], q[h]) BY <1>6 DEF Continues
<1>8. p[j].id = p[i].id BY <1>1, <1>2, <1>7 DEF Follows
<1>9. j = i BY <1>8 DEF AllSound
<1> QED BY <1>3, <1>4, <1>7, <1>9

\* One session is changed where it stands.
LEMMA Replaced ==
    ASSUME NEW seq, NEW n \in Nat, NEW m \in Nat, NEW k \in Nat, AllSound(seq, n, k), n <= m,
           NEW i, NEW e,
           i \in DOMAIN seq => e \in SessionT /\ Sound(e, m) /\ Follows(seq[i], e)
    PROVE  /\ AllSound([seq EXCEPT ![i] = e], m, k)
           /\ Continues(seq, [seq EXCEPT ![i] = e], k)
<1> DEFINE q == [seq EXCEPT ![i] = e]
<1>0. seq \in Seq(SessionT) /\ DOMAIN seq = 1 .. Len(seq) /\ Len(seq) \in Nat
  BY LenProperties DEF AllSound
<1>1. DOMAIN q = DOMAIN seq /\ (\A j \in DOMAIN seq : q[j] = IF j = i THEN e ELSE seq[j])
  BY <1>0
<1>2. q \in Seq(SessionT)
  <2>1. CASE i \in DOMAIN seq BY <1>0, <2>1, ExceptSeq
  <2>2. CASE i \notin DOMAIN seq
    <3>1. q = seq BY <2>2, <1>0
    <3> QED BY <3>1, <1>0
  <2> QED BY <2>1, <2>2
<1>3. \A j \in DOMAIN seq : Sound(seq[j], m)
  <2> SUFFICES ASSUME NEW j \in DOMAIN seq PROVE Sound(seq[j], m) OBVIOUS
  <2>1. seq[j] \in SessionT /\ Sound(seq[j], n) BY DEF AllSound
  <2>2. \A t \in seq[j].told : t[1] \in Nat /\ t[1] <= n BY <2>1 DEF SessionT, Sound
  <2>3. seq[j].lastID \in Nat BY <2>1 DEF SessionT
  <2> QED BY <2>1, <2>2, <2>3 DEF Sound
<1>4. \A j \in DOMAIN seq : Follows(seq[j], q[j])
  BY <1>1 DEF Follows
<1>5. \A j \in DOMAIN seq : q[j].id = seq[j].id BY <1>4 DEF Follows
<1>6. \A j \in DOMAIN q : Sound(q[j], m) /\ q[j].id <= k
  BY <1>1, <1>3, <1>5 DEF AllSound
<1>7. \A j, h \in DOMAIN q : q[j].id = q[h].id => j = h
  BY <1>1, <1>5 DEF AllSound
<1> HIDE DEF q
<1>8. AllSound(q, m, k) BY <1>2, <1>6, <1>7 DEF AllSound
<1>9. Continues(seq, q, k) BY <1>1, <1>4 DEF Continues
<1> QED BY <1>8, <1>9 DEF q

\* One is taken out: the others are what they were.
LEMMA TakenOut ==
    ASSUME NEW seq, NEW n \in Nat, NEW k \in Nat, AllSound(seq, n, k), NEW i \in DOMAIN seq
    PROVE  /\ AllSound(RemoveAt(seq, i), n, k)
           /\ \A j \in DOMAIN RemoveAt(seq, i) : \E h \in DOMAIN seq : RemoveAt(seq, i)[j] = seq[h]
<1> DEFINE a == SubSeq(seq, 1, i - 1)
           b == SubSeq(seq, i + 1, Len(seq))
           q == a \o b
           from(j) == IF j < i THEN j ELSE j + 1
<1>0. seq \in Seq(SessionT) /\ DOMAIN seq = 1 .. Len(seq) /\ Len(seq) \in Nat /\ i \in 1 .. Len(seq)
  BY LenProperties DEF AllSound
<1>1. \A j \in 1 .. Len(seq) : seq[j] \in SessionT BY <1>0, ElementOfSeq
<1>2. a \in Seq(SessionT) /\ Len(a) = i - 1 /\ (\A j \in 1 .. i - 1 : a[j] = seq[j])
  <2>1. \A j \in 1 .. i - 1 : seq[j] \in SessionT BY <1>0, <1>1
  <2>2. /\ a \in Seq(SessionT) /\ Len(a) = (IF 1 <= i - 1 THEN (i - 1) - 1 + 1 ELSE 0)
        /\ \A j \in 1 .. (i - 1) - 1 + 1 : a[j] = seq[1 + j - 1]
    BY <1>0, <2>1, SubSeqProperties
  <2> HIDE DEF a
  <2> QED BY <1>0, <2>2
<1>3. /\ b \in Seq(SessionT) /\ Len(b) = Len(seq) - i
      /\ \A j \in 1 .. Len(seq) - i : b[j] = seq[i + j]
  <2>1. \A j \in i + 1 .. Len(seq) : seq[j] \in SessionT BY <1>0, <1>1
  <2>2. /\ b \in Seq(SessionT)
        /\ Len(b) = (IF i + 1 <= Len(seq) THEN Len(seq) - (i + 1) + 1 ELSE 0)
        /\ \A j \in 1 .. Len(seq) - (i + 1) + 1 : b[j] = seq[(i + 1) + j - 1]
    BY <1>0, <2>1, SubSeqProperties
  <2> HIDE DEF b
  <2>3. i \in Nat /\ Len(seq) \in Nat /\ i <= Len(seq) BY <1>0
  <2>4. /\ Len(seq) - (i + 1) + 1 = Len(seq) - i
        /\ (IF i + 1 <= Len(seq) THEN Len(seq) - (i + 1) + 1 ELSE 0) = Len(seq) - i
        /\ \A j \in 1 .. Len(seq) - i : (i + 1) + j - 1 = i + j
    BY ONLY <2>3
  <2>5. Len(b) = Len(seq) - i BY <2>2, <2>4
  <2>6. \A j \in 1 .. Len(seq) - i : b[j] = seq[i + j]
    <3> TAKE j \in 1 .. Len(seq) - i
    <3>1. b[j] = seq[(i + 1) + j - 1] BY <2>2, <2>4
    <3> QED BY <3>1, <2>4
  <2> QED BY <2>2, <2>5, <2>6
<1> HIDE DEF a, b
<1>4. /\ q \in Seq(SessionT) /\ Len(q) = Len(a) + Len(b)
      /\ \A j \in 1 .. Len(a) + Len(b) : q[j] = IF j <= Len(a) THEN a[j] ELSE b[j - Len(a)]
  BY <1>2, <1>3, ConcatProperties
<1>5. DOMAIN q = 1 .. Len(q) BY <1>4, LenProperties
<1> HIDE DEF q
<1>6. Len(q) = Len(seq) - 1 BY <1>0, <1>2, <1>3, <1>4
<1>7. \A j \in DOMAIN q : from(j) \in DOMAIN seq /\ q[j] = seq[from(j)]
  <2> SUFFICES ASSUME NEW j \in 1 .. Len(seq) - 1
               PROVE  from(j) \in 1 .. Len(seq) /\ q[j] = seq[from(j)]
    BY <1>0, <1>5, <1>6
  <2>1. CASE j < i
    <3>1. j \in 1 .. i - 1 /\ j <= Len(a) /\ j \in 1 .. Len(a) + Len(b) /\ j \in 1 .. Len(seq)
      BY <2>1, <1>0, <1>2, <1>3
    <3>2. q[j] = a[j] BY <3>1, <1>4
    <3> QED BY <3>1, <3>2, <2>1, <1>2
  <2>2. CASE ~(j < i)
    <3>1. /\ ~(j <= Len(a)) /\ j \in 1 .. Len(a) + Len(b) /\ j + 1 \in 1 .. Len(seq)
          /\ j - Len(a) \in 1 .. Len(seq) - i /\ i + (j - Len(a)) = j + 1
      BY <2>2, <1>0, <1>2, <1>3, SMTT(30)
    <3>2. q[j] = b[j - Len(a)] BY <3>1, <1>4
    <3>3. b[j - Len(a)] = seq[i + (j - Len(a))] BY <3>1, <1>3
    <3> QED BY <3>1, <3>2, <3>3, <2>2
  <2> QED BY <2>1, <2>2
<1>8. \A j \in DOMAIN q : Sound(q[j], n) /\ q[j].id <= k BY <1>7 DEF AllSound
<1>9. \A j, h \in DOMAIN q : q[j].id = q[h].id => j = h
  <2> SUFFICES ASSUME NEW j \in DOMAIN q, NEW h \in DOMAIN q, q[j].id = q[h].id PROVE j = h
    OBVIOUS
  <2>1. from(j) = from(h) BY <1>7 DEF AllSound
  <2>2. j \in Nat /\ h \in Nat /\ i \in Nat BY <1>0, <1>5, <1>6
  <2> QED BY <2>1, <2>2
<1>10. AllSound(q, n, k) BY <1>4, <1>8, <1>9 DEF AllSound
<1>11. RemoveAt(seq, i) = q BY DEF RemoveAt, q, a, b
<1> QED BY <1>7, <1>10, <1>11

\* A new one is put behind them.
LEMMA PutBehind ==
    ASSUME NEW seq, NEW n \in Nat, NEW m \in Nat, NEW k \in Nat, AllSound(seq, n, k), n <= m,
           NEW e \in SessionT, Sound(e, m), e.id = k + 1, NEW h, h = k + 1
    PROVE  /\ AllSound(Append(seq, e), m, h)
           /\ \A i \in DOMAIN Append(seq, e) :
                Append(seq, e)[i].id > k \/ \E j \in DOMAIN seq : Append(seq, e)[i] = seq[j]
<1> DEFINE q == Append(seq, e)
<1>0. seq \in Seq(SessionT) /\ DOMAIN seq = 1 .. Len(seq) /\ Len(seq) \in Nat
  BY LenProperties DEF AllSound
<1>1. q \in Seq(SessionT) /\ Len(q) = Len(seq) + 1 /\ DOMAIN q = 1 .. Len(seq) + 1
  BY <1>0, AppendProperties, LenProperties
<1>2. \A i \in 1 .. Len(seq) : q[i] = seq[i] BY <1>0, AppendProperties
<1>3. q[Len(seq) + 1] = e BY <1>0, AppendProperties
<1> HIDE DEF q
<1>4. \A i \in DOMAIN q : i = Len(seq) + 1 \/ i \in DOMAIN seq BY <1>0, <1>1
<1>5. \A i \in DOMAIN seq : seq[i] \in SessionT /\ Sound(seq[i], n) /\ seq[i].id <= k
  BY DEF AllSound
<1>6. \A i \in DOMAIN seq : Sound(seq[i], m)
  <2> SUFFICES ASSUME NEW j \in DOMAIN seq PROVE Sound(seq[j], m) OBVIOUS
  <2>1. \A t \in seq[j].told : t[1] \in Nat /\ t[1] <= n BY <1>5, ZenonT(60) DEF SessionT, Sound
  <2>2. seq[j].lastID \in Nat BY <1>5 DEF SessionT
  <2> QED BY <1>5, <2>1, <2>2 DEF Sound
<1>7. \A i \in DOMAIN seq : seq[i].id \in Nat /\ seq[i].id <= k BY <1>5 DEF SessionT
<1>8. \A i \in DOMAIN q : Sound(q[i], m) /\ q[i].id <= k + 1
  BY <1>0, <1>2, <1>3, <1>4, <1>6, <1>7
<1>9. \A i, j \in DOMAIN q : q[i].id = q[j].id => i = j
  <2> SUFFICES ASSUME NEW i \in DOMAIN q, NEW j \in DOMAIN q, q[i].id = q[j].id PROVE i = j
    OBVIOUS
  <2>1. CASE i \in DOMAIN seq /\ j \in DOMAIN seq
    BY <2>1, <1>0, <1>2 DEF AllSound
  <2>2. CASE ~(i \in DOMAIN seq) /\ ~(j \in DOMAIN seq) BY <2>2, <1>4
  <2>3. CASE (i \in DOMAIN seq) /= (j \in DOMAIN seq)
    BY <2>3, <1>0, <1>2, <1>3, <1>4, <1>7
  <2> QED BY <2>1, <2>2, <2>3
<1>10. AllSound(q, m, h) BY <1>1, <1>8, <1>9 DEF AllSound
<1>11. \A i \in DOMAIN q : q[i].id > k \/ \E j \in DOMAIN seq : q[i] = seq[j]
  <2> SUFFICES ASSUME NEW i \in DOMAIN q PROVE q[i].id > k \/ \E j \in DOMAIN seq : q[i] = seq[j]
    OBVIOUS
  <2>1. CASE i = Len(seq) + 1 BY <2>1, <1>3
  <2>2. CASE i \in DOMAIN seq BY <2>2, <1>0, <1>2
  <2> QED BY <2>1, <2>2, <1>4
<1> QED BY <1>10, <1>11 DEF q

\* Where each is what it was, or new, the sessions are continued.
LEMMA SameOrNew ==
    ASSUME NEW p, NEW q, NEW k,
           \A i \in DOMAIN q : q[i].id > k \/ \E j \in DOMAIN p : q[i] = p[j]
    PROVE  Continues(p, q, k)
<1>1. \A s : Follows(s, s) BY DEF Follows
<1> QED BY <1>1 DEF Continues

-----------------------------------------------------------------------------
\* A session made now.
LEMMA NewIsSound ==
    ASSUME NEW id \in Nat, NEW res \in Resources \cup {""}, NEW types, types \subseteq Types,
           NEW honor \in BOOLEAN, NEW handled \in BOOLEAN, NEW n, 0 <= n
    PROVE  /\ NewSession(id, res, types, honor, handled) \in SessionT
           /\ Sound(NewSession(id, res, types, honor, handled), n)
           /\ NewSession(id, res, types, honor, handled).id = id
<1> DEFINE s == NewSession(id, res, types, honor, handled)
<1>1. s \in SessionT BY DEF NewSession, SessionT, States, Events
<1>2. s.lastID = 0 /\ s.told = {} /\ s.requested = {} /\ s.refused = FALSE /\ s.id = id
  BY DEF NewSession
<1> HIDE DEF s
<1>3. s.lastID <= n /\ (\A t \in s.told : t[1] <= n) BY <1>2
<1>4. <<s.lastID, "delivered">> \in s.told => "delivered" \notin s.requested BY <1>2
<1>5. Sound(s, n) BY <1>2, <1>3, <1>4 DEF Sound
<1> QED BY <1>1, <1>2, <1>5 DEF s

\* What a message that arrives makes of a session.
LEMMA HandledIsSound ==
    ASSUME NEW s \in SessionT, NEW m \in MessageT, received \in Nat, threads \in Nat,
           Sound(s, received)
    PROVE  /\ Handled(s, m) \in SessionT
           /\ Sound(Handled(s, m), received + 1)
           /\ Follows(s, Handled(s, m))
<1> DEFINE u == IF s.wantUpgrade /\ s.res = "" THEN [s EXCEPT !.res = m.res] ELSE s
           t == IF s.hadMessages THEN u
                ELSE [u EXCEPT !.hadMessages = TRUE,
                        !.thread = IF m.thread = 0 THEN threads + 1 ELSE m.thread]
           c == StatesFiltered(t, m)
           e == EventsFiltered(c, m)
<1>1. m.res \in Resources \cup {""} /\ m.thread \in Nat BY DEF MessageT
<1>2. /\ u \in SessionT /\ u.id = s.id /\ u.hadMessages = s.hadMessages /\ u.thread = s.thread
      /\ s.res /= "" => u.res = s.res
      /\ u.lastID = s.lastID /\ u.told = s.told /\ u.requested = s.requested
      /\ u.refused = s.refused /\ u.enableChatStates = s.enableChatStates
  BY <1>1, ZenonT(60) DEF SessionT
<1> HIDE DEF u
<1>3. /\ t \in SessionT /\ t.id = u.id /\ (u.hadMessages => t.thread = u.thread) /\ t.res = u.res
      /\ t.lastID = u.lastID /\ t.told = u.told /\ t.requested = u.requested
      /\ t.refused = u.refused /\ t.enableChatStates = u.enableChatStates
  <2>1. CASE s.hadMessages BY <2>1, <1>2
  <2>2. CASE ~ s.hadMessages
    <3> DEFINE h == IF m.thread = 0 THEN threads + 1 ELSE m.thread
               v == [u EXCEPT !.hadMessages = TRUE]
    <3>1. h \in Nat
      <4>1. threads + 1 \in Nat OBVIOUS
      <4> QED BY <4>1, <1>1
    <3> HIDE DEF h
    <3>2. /\ v \in SessionT /\ v.id = u.id /\ v.res = u.res
          /\ v.lastID = u.lastID /\ v.told = u.told /\ v.requested = u.requested
          /\ v.refused = u.refused /\ v.enableChatStates = u.enableChatStates
      BY <1>2 DEF SessionT
    <3> HIDE DEF v
    <3>3. /\ [v EXCEPT !.thread = h] \in SessionT /\ [v EXCEPT !.thread = h].id = v.id
          /\ [v EXCEPT !.thread = h].res = v.res
          /\ [v EXCEPT !.thread = h].lastID = v.lastID /\ [v EXCEPT !.thread = h].told = v.told
          /\ [v EXCEPT !.thread = h].requested = v.requested
          /\ [v EXCEPT !.thread = h].refused = v.refused
          /\ [v EXCEPT !.thread = h].enableChatStates = v.enableChatStates
      BY <3>1, <3>2 DEF SessionT
    <3>4. t = [v EXCEPT !.thread = h] BY <2>2 DEF h, v
    <3> HIDE DEF t
    <3>5. ~ u.hadMessages BY <2>2, <1>2
    <3> QED BY <3>2, <3>3, <3>4, <3>5
  <2> QED BY <2>1, <2>2
<1> HIDE DEF t
<1>4. HasState(m) \in BOOLEAN BY DEF HasState
<1>5. /\ c \in SessionT /\ c.id = t.id /\ c.thread = t.thread /\ c.res = t.res
      /\ c.lastID = t.lastID /\ c.told = t.told /\ c.requested = t.requested
      /\ \/ c.refused = t.refused /\ c.enableChatStates = t.enableChatStates
         \/ c.refused = ~ c.enableChatStates
  <2>1. CASE t.enableChatStates /\ t.handled
    <3> DEFINE h == HasState(m)
               r == [t EXCEPT !.enableChatStates = h, !.refused = ~ h]
    <3>1. c = r BY <2>1 DEF StatesFiltered
    <3>2. h \in BOOLEAN BY <1>4
    <3> HIDE DEF h, c
    <3>3. /\ r \in SessionT /\ r.id = t.id /\ r.thread = t.thread /\ r.res = t.res
          /\ r.lastID = t.lastID /\ r.told = t.told /\ r.requested = t.requested
          /\ r.refused = ~ h /\ r.enableChatStates = h
      BY <1>3, <3>2, ZenonT(60) DEF SessionT
    <3> HIDE DEF r
    <3> QED BY <3>1, <3>3
  <2>2. CASE ~(t.enableChatStates /\ t.handled)
    <3>1. c = t BY <2>2 DEF StatesFiltered
    <3> QED BY <3>1, <1>3
  <2> QED BY <2>1, <2>2
<1> HIDE DEF c
<1>6. /\ e \in SessionT /\ e.id = c.id /\ e.thread = c.thread /\ e.res = c.res /\ e.told = c.told
      /\ e.refused = c.refused /\ e.enableChatStates = c.enableChatStates
      /\ \/ e.lastID = c.lastID /\ e.requested = c.requested
         \/ e.lastID = 0 /\ e.requested = {}
         \/ e.lastID = received + 1 /\ e.requested = {"delivered", "composing"}
  <2> DEFINE k == received + 1
             a == [c EXCEPT !.disable = TRUE]
             b == [c EXCEPT !.requested = {}, !.lastID = 0]
             d == [c EXCEPT !.lastID = k, !.requested = {"delivered", "composing"}]
  <2>1. e = c \/ e = a \/ e = b \/ e = d BY DEF EventsFiltered
  <2>2. k \in Nat OBVIOUS
  <2> HIDE DEF e, k
  <2>3. CASE e = c BY <2>3, <1>5
  <2>4. CASE e = a
    <3>1. /\ a \in SessionT /\ a.id = c.id /\ a.thread = c.thread /\ a.res = c.res
          /\ a.told = c.told /\ a.refused = c.refused /\ a.enableChatStates = c.enableChatStates
          /\ a.lastID = c.lastID /\ a.requested = c.requested
      BY <1>5 DEF SessionT
    <3> QED BY <2>4, <3>1
  <2>5. CASE e = b
    <3>1. /\ b \in SessionT /\ b.id = c.id /\ b.thread = c.thread /\ b.res = c.res
          /\ b.told = c.told /\ b.refused = c.refused /\ b.enableChatStates = c.enableChatStates
          /\ b.lastID = 0 /\ b.requested = {}
      BY <1>5 DEF SessionT
    <3> QED BY <2>5, <3>1
  <2>6. CASE e = d
    <3>1. /\ d \in SessionT /\ d.id = c.id /\ d.thread = c.thread /\ d.res = c.res
          /\ d.told = c.told /\ d.refused = c.refused /\ d.enableChatStates = c.enableChatStates
          /\ d.lastID = k /\ d.requested = {"delivered", "composing"}
      BY <1>5, <2>2 DEF SessionT
    <3> QED BY <2>6, <3>1 DEF k
  <2> QED BY <2>1, <2>3, <2>4, <2>5, <2>6
<1> HIDE DEF e
<1>7. Follows(s, e) BY <1>2, <1>3, <1>5, <1>6 DEF Follows
<1>8. e.refused => ~ e.enableChatStates
  <2>1. s.refused => ~ s.enableChatStates BY DEF Sound
  <2>2. c.refused \in BOOLEAN /\ c.enableChatStates \in BOOLEAN BY <1>5 DEF SessionT
  <2>3. t.refused => ~ t.enableChatStates BY <2>1, <1>2, <1>3
  <2>4. c.refused => ~ c.enableChatStates BY <2>2, <2>3, <1>5
  <2> QED BY <2>4, <1>6
<1>9. e.told = s.told /\ s.told \subseteq Nat \X Events /\ s.lastID \in Nat
  <2>1. e.told = c.told BY <1>6
  <2>2. c.told = t.told BY <1>5
  <2>3. t.told = u.told BY <1>3
  <2>4. u.told = s.told BY <1>2
  <2>5. e.told = s.told BY ONLY <2>1, <2>2, <2>3, <2>4
  <2>6. s.told \subseteq Nat \X Events /\ s.lastID \in Nat BY DEF SessionT
  <2> QED BY ONLY <2>5, <2>6
<1>10. \A x \in s.told : x[1] \in Nat /\ x[1] <= received BY <1>9 DEF Sound
<1>11. \A x \in e.told : x[1] <= received + 1 BY <1>9, <1>10
<1>12. c.lastID = s.lastID /\ c.requested = s.requested BY <1>2, <1>3, <1>5
<1>13. /\ e.lastID <= received + 1 /\ (e.requested /= {} => e.lastID /= 0)
       /\ <<e.lastID, "delivered">> \in e.told => "delivered" \notin e.requested
  <2>1. CASE e.lastID = c.lastID /\ e.requested = c.requested
    BY <2>1, <1>9, <1>12 DEF Sound
  <2>2. CASE e.lastID = 0 /\ e.requested = {} BY <2>2
  <2>3. CASE e.lastID = received + 1 /\ e.requested = {"delivered", "composing"}
    <3>1. <<received + 1, "delivered">> \notin s.told
      <4>1. SUFFICES ASSUME <<received + 1, "delivered">> \in s.told PROVE FALSE OBVIOUS
      <4>2. <<received + 1, "delivered">>[1] <= received BY <4>1, <1>10
      <4> QED BY <4>2
    <3> QED BY <2>3, <3>1, <1>9
  <2> QED BY <2>1, <2>2, <2>3, <1>6
<1>14. Sound(e, received + 1) BY <1>8, <1>11, <1>13 DEF Sound
<1>15. Handled(s, m) = e BY DEF Handled, e, c, t, u
<1> QED BY <1>6, <1>7, <1>14, <1>15

\* What the application does of a session's own.
LEMMA ResetIsSound ==
    ASSUME NEW s \in SessionT, NEW n \in Nat, Sound(s, n)
    PROVE  LET t == [[s EXCEPT !.res = ""] EXCEPT !.wantUpgrade = TRUE]
           IN  t \in SessionT /\ Sound(t, n) /\ Follows(s, t)
<1> DEFINE t == [[s EXCEPT !.res = ""] EXCEPT !.wantUpgrade = TRUE]
<1>1. /\ t \in SessionT /\ t.id = s.id /\ t.thread = s.thread /\ t.res = ""
      /\ t.lastID = s.lastID /\ t.told = s.told /\ t.requested = s.requested
      /\ t.refused = s.refused /\ t.enableChatStates = s.enableChatStates
  BY DEF SessionT
<1> HIDE DEF t
<1>2. Sound(t, n) BY <1>1 DEF Sound
<1>3. Follows(s, t) BY <1>1 DEF Follows
<1> QED BY <1>1, <1>2, <1>3 DEF t

-----------------------------------------------------------------------------
LEMMA SessionsTyped ==
    ASSUME SessionsInv, NEW i \in DOMAIN sessions
    PROVE  sessions[i] \in SessionT /\ Sound(sessions[i], received) /\ sessions[i].id \in Nat
<1>1. sessions[i] \in SessionT BY LenProperties, ElementOfSeq DEF SessionsInv, AllSound
<1>2. Sound(sessions[i], received) BY DEF SessionsInv, AllSound
<1> QED BY <1>1, <1>2 DEF SessionT

\* A step that sends nothing and continues the sessions.
LEMMA QuietStep ==
    ASSUME SessionsInv, SessionsInv', Continues(sessions, sessions', made), lastSent' = lastSent
    PROVE  ThreadsKept /\ NoticesWanted
<1>1. made \in Nat /\ AllSound(sessions, received, made) /\ AllSound(sessions', received', made')
  BY DEF SessionsInv
<1>2. \A id \in Ids(sessions) \cap Ids(sessions') : Follows(Of(sessions, id), Of(sessions', id))
  BY <1>1, KeptByAll
<1> QED BY <1>2 DEF ThreadsKept, NoticesWanted, Follows

\* A step in which one session sends something.
LEMMA SendingStep ==
    ASSUME SessionsInv, NEW i \in DOMAIN sessions, NEW s, NEW kind, NEW what, NEW about,
           Sends(i, s, kind, what, about), received' = received, threads' \in Nat,
           s \in SessionT, Sound(s, received), Follows(sessions[i], s),
           kind = "text" => about = s.thread,
           kind = "event" /\ what /= "cancel" => about /= 0,
           kind = "event" /\ what = "delivered" => <<about, "delivered">> \notin sessions[i].told,
           kind = "state" => ~ sessions[i].refused
    PROVE  SessionsInv' /\ ThreadsKept /\ NoticesWanted
<1>1. /\ made \in Nat /\ received \in Nat /\ AllSound(sessions, received, made)
      /\ auto \subseteq Types
  BY DEF SessionsInv
<1>2. /\ sessions' = [sessions EXCEPT ![i] = s] /\ made' = made /\ auto' = auto
      /\ lastSent'.kind = kind /\ lastSent'.id = s.id /\ lastSent'.what = what /\ lastSent'.about = about
  BY DEF Sends
<1>3. received <= received
  <2>1. received \in Nat BY <1>1
  <2> QED BY ONLY <2>1
<1>4. AllSound(sessions', received, made) /\ Continues(sessions, sessions', made)
  BY <1>1, <1>2, <1>3, Replaced
<1>5. SessionsInv' BY <1>1, <1>2, <1>4 DEF SessionsInv
<1>6. \A id \in Ids(sessions) \cap Ids(sessions') : Follows(Of(sessions, id), Of(sessions', id))
  BY <1>1, <1>4, KeptByAll
<1>7. s.id = sessions[i].id BY DEF Follows
<1>8. Of(sessions, lastSent'.id) = sessions[i] BY <1>1, <1>2, <1>7, OfIs
<1>9. i \in DOMAIN sessions' /\ sessions'[i] = s BY <1>2
<1>10. Of(sessions', lastSent'.id) = s
  <2>1. Of(sessions', sessions'[i].id) = sessions'[i] BY <1>4, <1>9, OfIs
  <2> QED BY <2>1, <1>2, <1>9
<1>11. ThreadsKept BY <1>2, <1>6, <1>10 DEF ThreadsKept, Follows
<1>12. NoticesWanted BY <1>2, <1>8 DEF NoticesWanted
<1> QED BY <1>5, <1>11, <1>12

-----------------------------------------------------------------------------
\* Every message is one of those MessageT describes.
LEMMA MessagesTyped ==
    ASSUME SessionsInv, NEW m \in Messages
    PROVE  m \in MessageT
<1>1. threads + 1 \in Nat BY DEF SessionsInv
<1>2. \A i \in DOMAIN sessions : sessions[i].thread \in Nat BY SessionsTyped DEF SessionT
<1>3. /\ m \in [res : Resources \cup {""},
                thread : {0, threads + 1} \cup {sessions[i].thread : i \in DOMAIN sessions},
                type : Types \cup {"error"}, content : Contents]
  BY DEF Messages
<1>4. {0, threads + 1} \cup {sessions[i].thread : i \in DOMAIN sessions} \subseteq Nat
  BY <1>1, <1>2
<1>5. m.thread \in Nat BY <1>3, <1>4
<1>6. m = [res |-> m.res, thread |-> m.thread, type |-> m.type, content |-> m.content]
  BY <1>3
<1> QED BY <1>3, <1>5, <1>6 DEF MessageT

\* What is true of the sessions is true of them when more has been received.
LEMMA MoreReceived ==
    ASSUME NEW seq, NEW n \in Nat, NEW m \in Nat, NEW k \in Nat, AllSound(seq, n, k), n <= m
    PROVE  AllSound(seq, m, k)
<1>1. [seq EXCEPT ![0] = 0] = seq
  <2>1. DOMAIN seq = 1 .. Len(seq) /\ seq \in [1 .. Len(seq) -> SessionT]
    BY LenProperties DEF AllSound
  <2> QED BY <2>1
<1>2. 0 \notin DOMAIN seq BY LenProperties DEF AllSound
<1>3. AllSound([seq EXCEPT ![0] = 0], m, k) BY <1>2, Replaced
<1> QED BY <1>1, <1>3

LEMMA SessionMadeKeeps ==
    ASSUME SessionsInv, NEW m \in MessageT, Created(m), m.type \in auto,
           received' = received + 1, UNCHANGED lastSent
    PROVE  /\ made' = made + 1 /\ AllSound(sessions', received + 1, made + 1)
           /\ Continues(sessions, sessions', made)
<1>1. /\ made \in Nat /\ received \in Nat /\ threads \in Nat
      /\ AllSound(sessions, received, made) /\ auto \subseteq Types
  BY DEF SessionsInv
<1>2. PICK handled \in BOOLEAN, gone \in 0 .. Len(sessions) :
        sessions' = Append(IF gone = 0 THEN sessions ELSE RemoveAt(sessions, gone),
                           Handled(NewSession(made + 1, m.res, {m.type}, TRUE, handled), m))
  BY DEF Created
<1> DEFINE s == NewSession(made + 1, m.res, {m.type}, TRUE, handled)
           e == Handled(s, m)
           q == IF gone = 0 THEN sessions ELSE RemoveAt(sessions, gone)
<1>3. s \in SessionT /\ Sound(s, received) /\ s.id = made + 1
  <2>1. made + 1 \in Nat BY <1>1
  <2>2. 0 <= received
    <3>1. received \in Nat BY <1>1
    <3> QED BY ONLY <3>1
  <2>3. m.res \in Resources \cup {""} BY DEF MessageT
  <2>4. {m.type} \subseteq Types BY <1>1
  <2>5. TRUE \in BOOLEAN OBVIOUS
  <2> HIDE DEF e, q
  <2> QED BY <2>1, <2>2, <2>3, <2>4, <2>5, NewIsSound
<1> HIDE DEF s
<1>4. e \in SessionT /\ Sound(e, received + 1) /\ Follows(s, e)
  BY <1>1, <1>3, HandledIsSound
<1>5. e.id = made + 1 BY <1>3, <1>4 DEF Follows
<1> HIDE DEF e
<1>6. AllSound(q, received, made) /\ (\A j \in DOMAIN q : \E h \in DOMAIN sessions : q[j] = sessions[h])
  <2>1. CASE gone = 0 BY <2>1, <1>1
  <2>2. CASE gone /= 0
    <3>1. gone \in DOMAIN sessions BY <2>2, <1>1, LenProperties DEF AllSound
    <3> QED BY <2>2, <3>1, <1>1, TakenOut
  <2> QED BY <2>1, <2>2
<1> HIDE DEF q
<1>7. received \in Nat /\ received + 1 \in Nat /\ received <= received + 1
  <2>1. received \in Nat BY <1>1
  <2> QED BY ONLY <2>1
<1>8. /\ AllSound(Append(q, e), received + 1, made + 1)
      /\ \A i \in DOMAIN Append(q, e) :
           Append(q, e)[i].id > made \/ \E j \in DOMAIN q : Append(q, e)[i] = q[j]
  <2>1. made \in Nat /\ received \in Nat /\ received + 1 \in Nat /\ received <= received + 1
    BY <1>1, <1>7
  <2>2. AllSound(q, received, made) BY <1>6
  <2>3. e \in SessionT /\ Sound(e, received + 1) BY <1>4
  <2> DEFINE h == made + 1
             n == received + 1
  <2>4. h = made + 1 /\ n \in Nat /\ received <= n /\ Sound(e, n) BY <2>1, <2>3
  <2> HIDE DEF h, n
  <2>5. /\ AllSound(Append(q, e), n, h)
        /\ \A i \in DOMAIN Append(q, e) :
             Append(q, e)[i].id > made \/ \E j \in DOMAIN q : Append(q, e)[i] = q[j]
    BY ONLY <2>1, <2>2, <2>3, <2>4, <1>5, PutBehind, SMTT(30)
  <2> QED BY <2>5 DEF h, n
<1>9. sessions' = Append(q, e) BY <1>2 DEF q, e, s
<1>10. \A i \in DOMAIN sessions' :
         sessions'[i].id > made \/ \E j \in DOMAIN sessions : sessions'[i] = sessions[j]
  BY <1>6, <1>8, <1>9
<1>11. Continues(sessions, sessions', made) BY <1>10, SameOrNew
<1> QED BY <1>8, <1>9, <1>11 DEF Created

LEMMA ReceiveKeeps ==
    ASSUME SessionsInv, NEW m \in Messages, notifyMessageHandlers(m)
    PROVE  SessionsInv' /\ ThreadsKept /\ NoticesWanted
<1>1. /\ made \in Nat /\ received \in Nat /\ threads \in Nat
      /\ AllSound(sessions, received, made) /\ auto \subseteq Types
  BY DEF SessionsInv
<1>2. m \in MessageT BY MessagesTyped
<1>3. /\ received' = received + 1 /\ auto' = auto /\ lastSent' = lastSent
      /\ threads' = threads \/ threads' = threads + 1
  BY DEF notifyMessageHandlers
<1>4. received + 1 \in Nat /\ received <= received + 1 /\ threads + 1 \in Nat /\ made + 1 \in Nat
  BY <1>1
<1>5. /\ made' \in Nat /\ AllSound(sessions', received + 1, made')
      /\ Continues(sessions, sessions', made)
  <2>1. CASE UNCHANGED <<sessions, made>>
    <3>1. AllSound(sessions, received + 1, made) BY <1>1, <1>4, MoreReceived
    <3>2. Continues(sessions, sessions, made)
      <4>1. \A i \in DOMAIN sessions : sessions[i].id > made \/ \E j \in DOMAIN sessions : sessions[i] = sessions[j]
        OBVIOUS
      <4> QED BY <4>1, SameOrNew
    <3> QED BY <2>1, <3>1, <3>2, <1>1
  <2>2. CASE /\ sessions' = [sessions EXCEPT ![SessionFor(m)] = Handled(@, m)]
             /\ UNCHANGED made
    <3> DEFINE i == SessionFor(m)
               e == Handled(sessions[i], m)
    <3>1. i \in DOMAIN sessions =>
            e \in SessionT /\ Sound(e, received + 1) /\ Follows(sessions[i], e)
      <4> SUFFICES ASSUME i \in DOMAIN sessions
                   PROVE  e \in SessionT /\ Sound(e, received + 1) /\ Follows(sessions[i], e)
        OBVIOUS
      <4>1. sessions[i] \in SessionT /\ Sound(sessions[i], received) BY SessionsTyped
      <4> HIDE DEF i
      <4> QED BY <4>1, <1>1, <1>2, HandledIsSound
    <3>2. sessions' = [sessions EXCEPT ![i] = e] BY <2>2
    <3> HIDE DEF i, e
    <3>3. /\ AllSound([sessions EXCEPT ![i] = e], received + 1, made)
          /\ Continues(sessions, [sessions EXCEPT ![i] = e], made)
      BY <3>1, <1>1, <1>4, Replaced
    <3> QED BY <2>2, <3>2, <3>3, <1>1
  <2>3. CASE m.type \in auto /\ Created(m)
    BY <2>3, <1>1, <1>2, <1>3, <1>4, SessionMadeKeeps
  <2> QED BY <2>1, <2>2, <2>3 DEF notifyMessageHandlers
<1>6. SessionsInv' BY <1>1, <1>3, <1>4, <1>5 DEF SessionsInv
<1> QED BY <1>3, <1>5, <1>6, QuietStep

-----------------------------------------------------------------------------
LEMMA StartKeeps ==
    ASSUME SessionsInv, UNCHANGED received,
           NEW res, res \in Resources \cup {""}, NEW types, types \subseteq Types,
           NEW honor \in BOOLEAN, Start(res, types, honor, TRUE)
    PROVE  SessionsInv' /\ ThreadsKept /\ NoticesWanted
<1>1. /\ made \in Nat /\ received \in Nat /\ threads \in Nat
      /\ AllSound(sessions, received, made) /\ auto \subseteq Types
  BY DEF SessionsInv
<1> DEFINE s == NewSession(made + 1, res, types, honor, TRUE)
<1>2. made + 1 \in Nat
  <2>1. made \in Nat BY <1>1
  <2> QED BY ONLY <2>1
<1>3. 0 <= received /\ received <= received
  <2>1. received \in Nat BY <1>1
  <2> QED BY ONLY <2>1
<1>5. s \in SessionT /\ Sound(s, received) /\ s.id = made + 1
  <2>1. TRUE \in BOOLEAN OBVIOUS
  <2> QED BY <1>2, <1>3, <2>1, NewIsSound
<1> HIDE DEF s
<1>6. /\ AllSound(Append(sessions, s), received, made + 1)
      /\ \A i \in DOMAIN Append(sessions, s) :
           Append(sessions, s)[i].id > made \/ \E j \in DOMAIN sessions : Append(sessions, s)[i] = sessions[j]
  <2>1. made \in Nat /\ received \in Nat /\ AllSound(sessions, received, made) BY <1>1
  <2> QED BY ONLY <2>1, <1>3, <1>5, PutBehind
<1>7. /\ sessions' = Append(sessions, s) /\ made' = made + 1 /\ lastSent' = lastSent
      /\ auto' = auto /\ threads' = threads /\ received' = received
  BY DEF Start, s
<1>8. Continues(sessions, sessions', made) BY <1>6, <1>7, SameOrNew
<1>9. SessionsInv' BY <1>1, <1>2, <1>6, <1>7 DEF SessionsInv
<1> QED BY <1>7, <1>8, <1>9, QuietStep

LEMMA DisposeKeeps ==
    ASSUME SessionsInv, UNCHANGED received, NEW i \in DOMAIN sessions, disposeMessageSession(i)
    PROVE  SessionsInv' /\ ThreadsKept /\ NoticesWanted
<1>1. /\ made \in Nat /\ received \in Nat /\ threads \in Nat
      /\ AllSound(sessions, received, made) /\ auto \subseteq Types
  BY DEF SessionsInv
<1>2. /\ sessions' = RemoveAt(sessions, i) /\ made' = made /\ lastSent' = lastSent
      /\ auto' = auto /\ threads' = threads /\ received' = received
  BY DEF disposeMessageSession
<1>3. /\ AllSound(sessions', received, made)
      /\ \A j \in DOMAIN sessions' : \E h \in DOMAIN sessions : sessions'[j] = sessions[h]
  BY <1>1, <1>2, TakenOut
<1>4. Continues(sessions, sessions', made) BY <1>3, SameOrNew
<1>5. SessionsInv' BY <1>1, <1>2, <1>3 DEF SessionsInv
<1> QED BY <1>2, <1>4, <1>5, QuietStep

LEMMA ResetKeeps ==
    ASSUME SessionsInv, UNCHANGED received, NEW i \in DOMAIN sessions, resetResource(i)
    PROVE  SessionsInv' /\ ThreadsKept /\ NoticesWanted
<1>1. /\ made \in Nat /\ received \in Nat /\ threads \in Nat
      /\ AllSound(sessions, received, made) /\ auto \subseteq Types
  BY DEF SessionsInv
<1> DEFINE e == [[sessions[i] EXCEPT !.res = ""] EXCEPT !.wantUpgrade = TRUE]
<1>2. sessions[i] \in SessionT /\ Sound(sessions[i], received) BY SessionsTyped
<1>3. e \in SessionT /\ Sound(e, received) /\ Follows(sessions[i], e)
  BY <1>1, <1>2, ResetIsSound
<1>4. sessions' = [sessions EXCEPT ![i] = e] BY DEF resetResource
<1> HIDE DEF e
<1>5. received <= received
  <2>1. received \in Nat BY <1>1
  <2> QED BY ONLY <2>1
<1>6. /\ AllSound([sessions EXCEPT ![i] = e], received, made)
      /\ Continues(sessions, [sessions EXCEPT ![i] = e], made)
  BY <1>1, <1>3, <1>5, Replaced
<1>7. made' = made /\ lastSent' = lastSent /\ auto' = auto /\ threads' = threads /\ received' = received
  BY DEF resetResource
<1>8. SessionsInv' BY <1>1, <1>4, <1>6, <1>7 DEF SessionsInv
<1> QED BY <1>4, <1>6, <1>7, <1>8, QuietStep

LEMMA RegisterKeeps ==
    ASSUME SessionsInv, UNCHANGED received, NEW type \in Types, registerMessageSessionHandler(type)
    PROVE  SessionsInv' /\ ThreadsKept /\ NoticesWanted
<1>1. /\ sessions' = sessions /\ made' = made /\ lastSent' = lastSent /\ threads' = threads
      /\ received' = received /\ auto' = auto \cup {type}
  BY DEF registerMessageSessionHandler
<1>2. SessionsInv' BY <1>1 DEF SessionsInv
<1>3. Continues(sessions, sessions', made) BY <1>1, SameOrNew
<1> QED BY <1>1, <1>2, <1>3, QuietStep

LEMMA SendTextKeeps ==
    ASSUME SessionsInv, UNCHANGED received, NEW i \in DOMAIN sessions, SendText(i)
    PROVE  SessionsInv' /\ ThreadsKept /\ NoticesWanted
<1> DEFINE s == sessions[i]
           t == IF s.hadMessages THEN s
                ELSE [s EXCEPT !.hadMessages = TRUE, !.thread = threads + 1]
           e == IF s.disable THEN t ELSE [t EXCEPT !.lastEvent = "cancel"]
<1>1. s \in SessionT /\ Sound(s, received) BY SessionsTyped
<1>2. threads \in Nat /\ threads + 1 \in Nat BY DEF SessionsInv
<1>3. Sends(i, e, "text", "", t.thread)
  BY DEF SendText
<1>4. threads' \in Nat BY <1>2 DEF SendText
<1> HIDE DEF s
<1>5. /\ t \in SessionT /\ t.id = s.id /\ (s.hadMessages => t.thread = s.thread) /\ t.res = s.res
      /\ t.lastID = s.lastID /\ t.told = s.told /\ t.requested = s.requested
      /\ t.refused = s.refused /\ t.enableChatStates = s.enableChatStates
  BY <1>1, <1>2 DEF SessionT
<1> HIDE DEF t
<1>6. /\ e \in SessionT /\ e.id = t.id /\ e.thread = t.thread /\ e.res = t.res
      /\ e.lastID = t.lastID /\ e.told = t.told /\ e.requested = t.requested
      /\ e.refused = t.refused /\ e.enableChatStates = t.enableChatStates
  BY <1>5, ZenonT(60) DEF SessionT, Events
<1> HIDE DEF e
<1>7. Sound(e, received) BY <1>1, <1>5, <1>6 DEF Sound
<1>8. Follows(s, e) BY <1>5, <1>6 DEF Follows
<1> QED BY <1>3, <1>4, <1>6, <1>7, <1>8, SendingStep DEF s

LEMMA SetChatStateKeeps ==
    ASSUME SessionsInv, UNCHANGED received, NEW i \in DOMAIN sessions,
           NEW state \in {"active", "composing"}, setChatState(i, state)
    PROVE  SessionsInv' /\ ThreadsKept /\ NoticesWanted
<1> DEFINE s == sessions[i]
           e == [s EXCEPT !.lastState = state]
<1>1. s \in SessionT /\ Sound(s, received) BY SessionsTyped
<1>2. s.enableChatStates /\ Sends(i, e, "state", state, 0) /\ threads' = threads
  BY DEF setChatState
<1>3. threads' \in Nat BY <1>2 DEF SessionsInv
<1> HIDE DEF s
<1>4. /\ e \in SessionT /\ e.id = s.id /\ e.thread = s.thread /\ e.res = s.res
      /\ e.lastID = s.lastID /\ e.told = s.told /\ e.requested = s.requested
      /\ e.refused = s.refused /\ e.enableChatStates = s.enableChatStates
  BY <1>1 DEF SessionT, States
<1> HIDE DEF e
<1>5. Sound(e, received) /\ Follows(s, e) BY <1>1, <1>4 DEF Sound, Follows
<1>6. ~ s.refused BY <1>1, <1>2 DEF Sound
<1> QED BY <1>2, <1>3, <1>4, <1>5, <1>6, SendingStep DEF s

LEMMA RaiseEventKeeps ==
    ASSUME SessionsInv, UNCHANGED received, NEW i \in DOMAIN sessions,
           NEW event \in {"delivered", "composing", "cancel"}, raiseMessageEvent(i, event)
    PROVE  SessionsInv' /\ ThreadsKept /\ NoticesWanted
<1> DEFINE s == sessions[i]
           r == Requested(s, event)
           e == [s EXCEPT !.requested = r, !.lastEvent = event,
                          !.told = @ \cup {<<s.lastID, event>>}]
<1>1. s \in SessionT /\ Sound(s, received) BY SessionsTyped
<1>2. /\ event \in s.requested \/ event = "cancel"
      /\ Sends(i, e, "event", event, s.lastID) /\ threads' = threads
  BY DEF raiseMessageEvent
<1>3. threads' \in Nat BY <1>2 DEF SessionsInv
<1> HIDE DEF s
<1>4. \/ r = s.requested \ {event} /\ event = "delivered"
      \/ r = s.requested /\ event /= "delivered"
  BY DEF Requested
<1> HIDE DEF r
<1>5. r \in SUBSET {"delivered", "composing"} /\ r \subseteq s.requested
  BY <1>1, <1>4 DEF SessionT
<1>6. s.lastID \in Nat /\ s.lastID <= received /\ <<s.lastID, event>> \in Nat \X Events
  BY <1>1 DEF SessionT, Sound, Events
<1>7. /\ e \in SessionT /\ e.id = s.id /\ e.thread = s.thread /\ e.res = s.res
      /\ e.lastID = s.lastID /\ e.told = s.told \cup {<<s.lastID, event>>} /\ e.requested = r
      /\ e.refused = s.refused /\ e.enableChatStates = s.enableChatStates
  BY <1>1, <1>5, <1>6 DEF SessionT, Events
<1> HIDE DEF e
<1>8. \A t \in e.told : t[1] <= received
  <2>1. \A t \in s.told : t[1] <= received BY <1>1 DEF Sound
  <2>2. <<s.lastID, event>>[1] <= received BY <1>6
  <2> QED BY <1>7, <2>1, <2>2
<1>9. <<e.lastID, "delivered">> \in e.told => "delivered" \notin e.requested
  <2>1. <<s.lastID, "delivered">> \in s.told => "delivered" \notin s.requested
    BY <1>1 DEF Sound
  <2>2. CASE event = "delivered" BY <2>2, <1>4, <1>7
  <2>3. CASE event /= "delivered"
    <3>1. <<s.lastID, "delivered">> /= <<s.lastID, event>> BY <2>3
    <3> QED BY <2>1, <3>1, <1>5, <1>7
  <2> QED BY <2>2, <2>3
<1>10. e.requested /= {} => e.lastID /= 0 BY <1>1, <1>5, <1>7 DEF Sound
<1>11. Sound(e, received) BY <1>1, <1>6, <1>7, <1>8, <1>9, <1>10 DEF Sound
<1>12. Follows(s, e) BY <1>7 DEF Follows
<1>13. event /= "cancel" => s.lastID /= 0 BY <1>1, <1>2 DEF Sound
<1>14. event = "delivered" => <<s.lastID, "delivered">> \notin s.told BY <1>1, <1>2 DEF Sound
<1> QED BY <1>2, <1>3, <1>7, <1>11, <1>12, <1>13, <1>14, SendingStep DEF s

-----------------------------------------------------------------------------
LEMMA SessionsStart ==
    ASSUME SessionsInit
    PROVE  SessionsInv
<1>1. <<>> \in Seq(SessionT) /\ DOMAIN <<>> = {} BY EmptySeq
<1>2. AllSound(<<>>, 0, 0) BY <1>1 DEF AllSound
<1> QED BY <1>2 DEF SessionsInit, SessionsInv

LEMMA EachStepKeeps ==
    ASSUME SessionsInv, SessionsNext
    PROVE  SessionsInv' /\ ThreadsKept /\ NoticesWanted
<1>1. CASE \E m \in Messages : notifyMessageHandlers(m) BY <1>1, ReceiveKeeps
<1>2. CASE /\ Call
           /\ \/ \E res \in Resources \cup {""}, types \in {{}, {"chat"}}, honor \in BOOLEAN :
                    Start(res, types, honor, TRUE)
              \/ \E i \in DOMAIN sessions :
                    \/ disposeMessageSession(i) \/ resetResource(i) \/ SendText(i)
                    \/ \E state \in {"active", "composing"} : setChatState(i, state)
                    \/ \E event \in {"delivered", "composing", "cancel"} :
                          raiseMessageEvent(i, event)
              \/ \E type \in Types \ auto : registerMessageSessionHandler(type)
  <2>1. UNCHANGED received BY <1>2 DEF Call
  <2>2. CASE \E res \in Resources \cup {""}, types \in {{}, {"chat"}}, honor \in BOOLEAN :
               Start(res, types, honor, TRUE)
    <3>1. {} \subseteq Types /\ {"chat"} \subseteq Types BY DEF Types
    <3> QED BY <2>1, <2>2, <3>1, StartKeeps
  <2>3. ASSUME NEW i \in DOMAIN sessions,
               \/ disposeMessageSession(i) \/ resetResource(i) \/ SendText(i)
               \/ \E state \in {"active", "composing"} : setChatState(i, state)
               \/ \E event \in {"delivered", "composing", "cancel"} : raiseMessageEvent(i, event)
        PROVE  SessionsInv' /\ ThreadsKept /\ NoticesWanted
    BY <2>1, <2>3, DisposeKeeps, ResetKeeps, SendTextKeeps, SetChatStateKeeps, RaiseEventKeeps
  <2>4. CASE \E type \in Types \ auto : registerMessageSessionHandler(type)
    BY <2>1, <2>4, RegisterKeeps
  <2> QED BY <1>2, <2>2, <2>3, <2>4
<1> QED BY <1>1, <1>2 DEF SessionsNext

\* For any resources and bounds: a conversation keeps its thread from its first message on,
\* and is bound to no other resource but through the bare address; what it sends bears the
\* thread (messagesession.cpp); an event is told about a message that asked for it, that it
\* was delivered only once; and who sent a message without a state is sent none
\* (messageeventfilter.cpp, chatstatefilter.cpp).
THEOREM ThreadsAndNotices == SessionsSpec => ConversationsKept
<1>1. SessionsInit => SessionsInv BY SessionsStart
<1>2. SessionsInv /\ [SessionsNext]_sessionsVars => SessionsInv'
  <2>1. ASSUME SessionsInv, UNCHANGED sessionsVars PROVE SessionsInv'
    BY <2>1 DEF SessionsInv, sessionsVars
  <2> QED BY <2>1, EachStepKeeps
<1>3. SessionsInv /\ [SessionsNext]_sessionsVars => [ThreadsKept /\ NoticesWanted]_sessionsVars
  BY EachStepKeeps
<1> QED BY <1>1, <1>2, <1>3, PTL DEF SessionsSpec, ConversationsKept

(***************************************************************************)
(* Requests of others: the invariant.                                      *)
(***************************************************************************)
RespondersTypes ==
    /\ features \in [AllFeatures -> Nat]
    /\ form \in BOOLEAN
    /\ nodeHandlers \in [Nodes -> [Handlers -> Nat]]
    /\ providers \subseteq Commands
    /\ generated \in Nat
    /\ \A s \in DOMAIN activeSessions : activeSessions[s] \in Nat
    /\ tasks \subseteq [remote : Remotes, session : Nat, id : Nat]
    /\ asked \subseteq [from : Remotes, id : Nat \ {0}, known : BOOLEAN] /\ IsFiniteSet(asked)
    /\ answers \in Seq([to : Remotes, id : Nat, type : {"result", "error"}])

\* Who offers a command is registered for its node, and for no other; what is gone was left.
Registered ==
    /\ providers # {} => "adhoc" \in there
    /\ "adhoc" \in there => "command" \in known
    /\ \A c \in providers : nodeHandlers[c]["adhoc"] > 0
    /\ \A n \in Nodes : nodeHandlers[n]["adhoc"] > 0 => n \in providers \cup {NoNode, AdhocNode}
    /\ \A n \in Nodes : nodeHandlers[n]["gone"] > 0 => left # {}
    /\ ruined => left # {}

\* What was announced has a node, which Capabilities handles once.
Announced ==
    announced # <<>> =>
        /\ nodeHandlers[CapsNode]["caps"] = 1
        /\ announced = <<announced[1], announced[2]>>
        /\ ~ moved => announced[1] = features

\* A remote does not use an id twice.
Numbered ==
    /\ \A r, s \in asked : r.from = s.from /\ r.id = s.id => r = s
    /\ \A r \in asked : r.id <= Cardinality({u \in asked : u.from = r.from})

\* Who waits for the application waits alone in a session.
WaitAlone ==
    /\ \A t \in tasks : t.session \in DOMAIN activeSessions /\ activeSessions[t.session] = t.id
    /\ \A t, u \in tasks : t.session = u.session => t = u
    /\ \A t, u \in tasks : t.remote = u.remote /\ t.id = u.id => t = u
    /\ \A t \in tasks : \E r \in asked : r.from = t.remote /\ r.id = t.id /\ r.known

RespondersInv ==
    /\ RespondersTypes /\ Registered /\ Announced /\ Numbered
    /\ mixed = {} => WaitAlone /\ AnsweredOnce

\* Where in a list the answers to a request are.
Places(list, from, id) == {i \in DOMAIN list : list[i].to = from /\ list[i].id = id}

\* One more answer is one more place.
LEMMA OneMorePlace ==
    ASSUME NEW S, NEW s \in Seq(S), NEW x \in S, NEW from, NEW id
    PROVE  /\ Cardinality(Places(s, from, id)) \in Nat
           /\ x.to = from /\ x.id = id =>
                 Cardinality(Places(s \o <<x>>, from, id)) = Cardinality(Places(s, from, id)) + 1
           /\ ~ (x.to = from /\ x.id = id) =>
                 Cardinality(Places(s \o <<x>>, from, id)) = Cardinality(Places(s, from, id))
  <1>1. /\ IsFiniteSet(1 .. Len(s)) /\ DOMAIN s = 1 .. Len(s) /\ Len(s) \in Nat
    BY FS_Interval
  <1>2. IsFiniteSet(Places(s, from, id)) /\ Cardinality(Places(s, from, id)) \in Nat
    <2>1. Places(s, from, id) \subseteq 1 .. Len(s) BY <1>1 DEF Places
    <2> QED BY <1>1, <2>1, FS_Subset, FS_CardinalityType
  <1>3. /\ DOMAIN (s \o <<x>>) = DOMAIN s \cup {Len(s) + 1} /\ (s \o <<x>>)[Len(s) + 1] = x
        /\ \A i \in DOMAIN s : (s \o <<x>>)[i] = s[i]
        /\ Len(s) + 1 \notin DOMAIN s
    BY <1>1
  <1>4. CASE x.to = from /\ x.id = id
    <2>1. Places(s \o <<x>>, from, id) = Places(s, from, id) \cup {Len(s) + 1}
      BY <1>3, <1>4 DEF Places
    <2>2. Len(s) + 1 \notin Places(s, from, id) BY <1>3 DEF Places
    <2> QED BY <1>2, <1>4, <2>1, <2>2, FS_AddElement
  <1>5. CASE ~ (x.to = from /\ x.id = id)
    <2>1. Places(s \o <<x>>, from, id) = Places(s, from, id)
      BY <1>3, <1>5 DEF Places
    <2> QED BY <1>2, <1>5, <2>1
  <1> QED BY <1>4, <1>5

LEMMA RespondersStart ==
    ASSUME RespondersAssumption, RespondersInit
    PROVE  RespondersInv
  <1>1. RespondersTypes
    <2>1. IsFiniteSet(asked) BY FS_EmptySet DEF RespondersInit
    <2>2. /\ form \in BOOLEAN /\ providers \subseteq Commands
          /\ generated \in Nat /\ tasks = {} /\ asked = {}
      BY DEF RespondersInit
    <2>6. DOMAIN activeSessions = {} BY DEF RespondersInit
    <2>4. features \in [AllFeatures -> Nat] BY DEF RespondersInit
    <2>5. nodeHandlers \in [Nodes -> [Handlers -> Nat]] BY DEF RespondersInit
    <2>3. answers \in Seq([to : Remotes, id : Nat, type : {"result", "error"}]) BY DEF RespondersInit
    <2> QED BY <2>1, <2>2, <2>3, <2>4, <2>5, <2>6 DEF RespondersTypes
  <1>2. Registered /\ Announced /\ Numbered
    BY DEF RespondersInit, Registered, Announced, Numbered, Handlers, AllFeatures
  <1>3. WaitAlone /\ AnsweredOnce
    <2>1. tasks = {} /\ asked = {} /\ DOMAIN answers = {} BY DEF RespondersInit
    <2> QED BY <2>1 DEF WaitAlone, AnsweredOnce
  <1> QED BY <1>1, <1>2, <1>3 DEF RespondersInv

LEMMA RespondersSuffice ==
    ASSUME RespondersAssumption, RespondersInv
    PROVE  RequestsAnswered
  <1>1. AnsweredOnce
    BY DEF RespondersInv, AnsweredOnce
  <1>2. CapsVerify
    <2> SUFFICES ASSUME announced # <<>>, ~ moved, announced[2] = FALSE
                 PROVE  Hash(InfoAnswer(CapsNode)) = announced
      BY DEF CapsVerify
    <2>1. announced = <<features, FALSE>>
      BY DEF RespondersInv, Announced
    <2>2. nodeHandlers[CapsNode]["caps"] = 1 BY DEF RespondersInv, Announced
    <2>3. CapsNode \in Nodes /\ CapsNode # NoNode /\ CapsNode # AdhocNode /\ CapsNode \notin providers
      BY DEF RespondersAssumption, Nodes, RespondersInv, RespondersTypes, CapsNode, NoNode, AdhocNode
    <2>4. nodeHandlers[CapsNode]["adhoc"] = 0
      <3>1. nodeHandlers[CapsNode]["adhoc"] \in Nat
        BY <2>3 DEF RespondersInv, RespondersTypes, Handlers
      <3> QED BY <2>3, <3>1 DEF RespondersInv, Registered
    <2>5. NodeFeatures(nodeHandlers[CapsNode]) = features
      <3>1. \A f \in AllFeatures : features[f] \in Nat /\ features[f] * 1 = features[f]
        BY DEF RespondersInv, RespondersTypes
      <3>2. \A f \in AllFeatures :
              (IF f = "adhoc" THEN nodeHandlers[CapsNode]["adhoc"] ELSE 0) + features[f] * nodeHandlers[CapsNode]["caps"]
                 = features[f]
        BY <2>2, <2>4, <3>1
      <3>3. features = [f \in AllFeatures |-> features[f]] BY DEF RespondersInv, RespondersTypes
      <3> QED BY <3>2, <3>3 DEF NodeFeatures
    <2> QED BY <2>1, <2>3, <2>5 DEF Hash, InfoAnswer
  <1>3. ListedHasNode
    BY DEF RespondersInv, Registered, ListedHasNode, NodeItems
  <1> QED BY <1>1, <1>2, <1>3 DEF RequestsAnswered
(***************************************************************************)
(* Steps.                                                                  *)
(***************************************************************************)
\* What registration does to the handlers of the nodes.
LEMMA Registering ==
    ASSUME NEW handlers \in [Nodes -> [Handlers -> Nat]], NEW h \in Handlers, NEW node \in Nodes,
           NEW more, more = registerNodeHandler(handlers, h, node)
    PROVE  /\ more \in [Nodes -> [Handlers -> Nat]]
           /\ more[node][h] = handlers[node][h] + 1
           /\ \A n \in Nodes, k \in Handlers : n # node \/ k # h => more[n][k] = handlers[n][k]
  BY DEF registerNodeHandler

LEMMA Removing ==
    ASSUME NEW handlers \in [Nodes -> [Handlers -> Nat]], NEW h \in Handlers, NEW node \in Nodes,
           NEW less, less = removeNodeHandler(handlers, h, node)
    PROVE  /\ less \in [Nodes -> [Handlers -> Nat]]
           /\ less[node][h] = 0
           /\ \A n \in Nodes, k \in Handlers : n # node \/ k # h => less[n][k] = handlers[n][k]
  BY DEF removeNodeHandler

LEMMA RemovingAll ==
    ASSUME NEW handlers \in [Nodes -> [Handlers -> Nat]], NEW h \in Handlers,
           NEW none, none = removeNodeHandlers(handlers, h)
    PROVE  /\ none \in [Nodes -> [Handlers -> Nat]]
           /\ \A n \in Nodes : none[n][h] = 0
           /\ \A n \in Nodes, k \in Handlers : k # h => none[n][k] = handlers[n][k]
  BY DEF removeNodeHandlers

\* A call answers nobody: who waits still waits, or its session was destroyed.
LEMMA CallAnswersNobody ==
    ASSUME RespondersInv, CallMade,
           activeSessions' = activeSessions \/ activeSessions' = <<>>
    PROVE  /\ Numbered'
           /\ mixed' = {} => WaitAlone' /\ AnsweredOnce'
           /\ \A s \in DOMAIN activeSessions' : activeSessions'[s] \in Nat
  <1>1. UNCHANGED <<generated, tasks, asked, answers>> BY DEF CallMade
  <1>2. Numbered' BY <1>1 DEF RespondersInv, Numbered
  <1>3. \A s \in DOMAIN activeSessions' : activeSessions'[s] \in Nat
    BY DEF RespondersInv, RespondersTypes
  <1>4. ASSUME mixed' = {} PROVE WaitAlone' /\ AnsweredOnce'
    <2>1. mixed = {} /\ DOMAIN activeSessions \subseteq DOMAIN activeSessions'
      BY <1>4 DEF CallMade
    <2>2. WaitAlone /\ AnsweredOnce BY <2>1 DEF RespondersInv
    <2>3. \A s \in DOMAIN activeSessions : activeSessions'[s] = activeSessions[s]
      BY <2>1
    <2>4. WaitAlone' BY <1>1, <2>1, <2>2, <2>3 DEF WaitAlone
    <2>5. AnsweredOnce' BY <1>1, <1>4, <2>1, <2>2 DEF AnsweredOnce, AnswersTo
    <2> QED BY <2>4, <2>5
  <1> QED BY <1>2, <1>3, <1>4

\* What is left to show of a call.
LEMMA CallKeeps ==
    ASSUME RespondersInv, CallMade,
           features' \in [AllFeatures -> Nat], form' \in BOOLEAN,
           nodeHandlers' \in [Nodes -> [Handlers -> Nat]], providers' \subseteq Commands,
           activeSessions' = activeSessions \/ activeSessions' = <<>>,
           Registered', Announced'
    PROVE  RespondersInv'
  <1>1. UNCHANGED <<generated, tasks, asked, answers>> BY DEF CallMade
  <1>2. RespondersTypes' BY <1>1, CallAnswersNobody DEF RespondersInv, RespondersTypes
  <1> QED BY <1>2, CallAnswersNobody DEF RespondersInv

LEMMA NodeTypes ==
    ASSUME RespondersAssumption
    PROVE  /\ {NoNode, AdhocNode, CapsNode} \cup Commands \subseteq Nodes
           /\ NoNode # AdhocNode /\ CapsNode \notin Commands \cup {NoNode, AdhocNode}
           /\ AdhocNode \notin Commands /\ NoNode \notin Commands
           /\ {"adhoc", "caps", "gone"} \subseteq Handlers
  BY DEF RespondersAssumption, Nodes, NoNode, AdhocNode, CapsNode, Handlers

LEMMA FeaturesType ==
    ASSUME features \in [AllFeatures -> Nat], NEW f \in AllFeatures
    PROVE  addFeature(features, f) \in [AllFeatures -> Nat] /\ removeFeature(features, f) \in [AllFeatures -> Nat]
  BY DEF addFeature, removeFeature

LEMMA CreateAdhocKeeps ==
    ASSUME RespondersAssumption, RespondersInv, CallMade, CreateAdhoc
    PROVE  RespondersInv'
  <1> DEFINE first == registerNodeHandler(nodeHandlers, "adhoc", AdhocNode)
  <1>1. nodeHandlers \in [Nodes -> [Handlers -> Nat]] /\ features \in [AllFeatures -> Nat]
    BY DEF RespondersInv, RespondersTypes
  <1>2. nodeHandlers' = registerNodeHandler(first, "adhoc", NoNode) BY DEF CreateAdhoc
  <1>3. /\ first \in [Nodes -> [Handlers -> Nat]]
        /\ \A n \in Nodes, k \in Handlers : n # AdhocNode \/ k # "adhoc" => first[n][k] = nodeHandlers[n][k]
    BY <1>1, NodeTypes, Registering
  <1> HIDE DEF first
  <1>4. /\ nodeHandlers' \in [Nodes -> [Handlers -> Nat]]
        /\ \A n \in Nodes, k \in Handlers :
              n \notin {NoNode, AdhocNode} \/ k # "adhoc" => nodeHandlers'[n][k] = nodeHandlers[n][k]
    BY <1>2, <1>3, NodeTypes, Registering
  <1>5. UNCHANGED <<form, providers, activeSessions, announced, left, ruined>> /\ moved' = TRUE
        /\ there' = there \cup {"adhoc"} /\ known' = known \cup {"command"}
    BY DEF CreateAdhoc, CallMade
  <1>6. features' \in [AllFeatures -> Nat] BY <1>1, FeaturesType DEF AllFeatures, CreateAdhoc
  <1>7. Registered'
    BY <1>4, <1>5, NodeTypes DEF RespondersInv, RespondersTypes, Registered
  <1>8. Announced' BY <1>4, <1>5, NodeTypes DEF RespondersInv, Announced
  <1> QED BY <1>4, <1>5, <1>6, <1>7, <1>8, CallKeeps DEF RespondersInv, RespondersTypes

LEMMA DestroyAdhocKeeps ==
    ASSUME RespondersAssumption, RespondersInv, CallMade, DestroyAdhoc
    PROVE  RespondersInv'
  <1> DEFINE first == removeNodeHandler(nodeHandlers, "adhoc", AdhocNode)
             kept == removeNodeHandler(first, "adhoc", NoNode)
  <1>1. nodeHandlers \in [Nodes -> [Handlers -> Nat]] /\ features \in [AllFeatures -> Nat]
    BY DEF RespondersInv, RespondersTypes
  <1>2. nodeHandlers' = [n \in Nodes |-> [kept[n] EXCEPT !["gone"] = @ + kept[n]["adhoc"], !["adhoc"] = 0]]
    BY DEF DestroyAdhoc
  <1>3. /\ first \in [Nodes -> [Handlers -> Nat]] /\ first[AdhocNode]["adhoc"] = 0
        /\ \A n \in Nodes, k \in Handlers : n # AdhocNode \/ k # "adhoc" => first[n][k] = nodeHandlers[n][k]
    BY <1>1, NodeTypes, Removing
  <1> HIDE DEF first
  <1>4. /\ kept \in [Nodes -> [Handlers -> Nat]]
        /\ kept[AdhocNode]["adhoc"] = 0 /\ kept[NoNode]["adhoc"] = 0
        /\ \A n \in Nodes, k \in Handlers :
              n \notin {NoNode, AdhocNode} \/ k # "adhoc" => kept[n][k] = nodeHandlers[n][k]
    BY <1>3, NodeTypes, Removing
  <1> HIDE DEF kept
  <1>5. /\ nodeHandlers' \in [Nodes -> [Handlers -> Nat]]
        /\ \A n \in Nodes : /\ nodeHandlers'[n]["adhoc"] = 0
                             /\ nodeHandlers'[n]["caps"] = kept[n]["caps"]
                             /\ nodeHandlers'[n]["gone"] = kept[n]["gone"] + kept[n]["adhoc"]
    BY <1>2, <1>4, NodeTypes
  <1>6. /\ UNCHANGED <<form, announced, ruined>> /\ moved' = TRUE /\ "adhoc" \notin there'
        /\ left' = left \cup providers /\ providers' = {} /\ activeSessions' = <<>>
    BY DEF DestroyAdhoc, CallMade
  <1>7. features' \in [AllFeatures -> Nat] BY <1>1, FeaturesType DEF AllFeatures, DestroyAdhoc
  <1>8. \A n \in Nodes : nodeHandlers'[n]["gone"] > 0 => left' # {}
    <2> SUFFICES ASSUME NEW n \in Nodes, nodeHandlers'[n]["gone"] > 0 PROVE left' # {}
      OBVIOUS
    <2>1. kept[n]["gone"] \in Nat /\ kept[n]["adhoc"] \in Nat BY <1>4, NodeTypes
    <2>2. CASE kept[n]["gone"] > 0
      <3>1. nodeHandlers[n]["gone"] > 0 BY <1>4, <2>2, NodeTypes
      <3> QED BY <3>1, <1>6 DEF RespondersInv, Registered
    <2>3. CASE kept[n]["adhoc"] > 0
      <3>1. n \notin {NoNode, AdhocNode} /\ nodeHandlers[n]["adhoc"] > 0 BY <1>4, <2>3, NodeTypes
      <3> QED BY <3>1, <1>6 DEF RespondersInv, Registered
    <2> QED BY <1>5, <2>1, <2>2, <2>3
  <1>9. Registered' BY <1>5, <1>6, <1>8 DEF RespondersInv, Registered
  <1>10. Announced' BY <1>4, <1>5, <1>6, NodeTypes DEF RespondersInv, Announced
  <1> QED BY <1>5, <1>6, <1>7, <1>9, <1>10, CallKeeps DEF RespondersInv, RespondersTypes

LEMMA ProvidersKeep ==
    ASSUME RespondersAssumption, RespondersInv, CallMade, NEW c \in Commands,
           registerAdhocCommandProvider(c) \/ removeAdhocCommandProvider(c)
    PROVE  RespondersInv'
  <1>1. nodeHandlers \in [Nodes -> [Handlers -> Nat]] /\ c \in Nodes /\ c \notin {NoNode, AdhocNode, CapsNode}
    BY NodeTypes DEF RespondersInv, RespondersTypes
  <1>2. /\ UNCHANGED <<there, known, features, form, activeSessions, announced, left, moved, ruined>>
        /\ "adhoc" \in there
    BY DEF registerAdhocCommandProvider, removeAdhocCommandProvider, CallMade
  <1>3. /\ nodeHandlers' \in [Nodes -> [Handlers -> Nat]]
        /\ \A n \in Nodes, k \in Handlers : n # c \/ k # "adhoc" => nodeHandlers'[n][k] = nodeHandlers[n][k]
        /\ \/ providers' = providers \cup {c} /\ nodeHandlers'[c]["adhoc"] = nodeHandlers[c]["adhoc"] + 1
           \/ providers' = providers \ {c} /\ nodeHandlers'[c]["adhoc"] = 0
    <2>1. CASE registerAdhocCommandProvider(c)
      <3>1. /\ nodeHandlers' = registerNodeHandler(nodeHandlers, "adhoc", c)
            /\ providers' = providers \cup {c}
        BY <2>1 DEF registerAdhocCommandProvider
      <3> QED BY <1>1, <3>1, NodeTypes, Registering, SMTT(30)
    <2>2. CASE removeAdhocCommandProvider(c)
      <3>1. /\ nodeHandlers' = removeNodeHandler(nodeHandlers, "adhoc", c)
            /\ providers' = providers \ {c}
        BY <2>2 DEF removeAdhocCommandProvider
      <3> QED BY <1>1, <3>1, NodeTypes, Removing, SMTT(30)
    <2> QED BY <2>1, <2>2
  <1>4. nodeHandlers[c]["adhoc"] \in Nat BY <1>1, NodeTypes
  <1>5. Registered'
    <2>1. providers \subseteq Commands BY DEF RespondersInv, RespondersTypes
    <2>2. \A d \in providers' : nodeHandlers'[d]["adhoc"] > 0
      BY <1>1, <1>3, <1>4, <2>1, NodeTypes DEF RespondersInv, Registered
    <2>3. \A n \in Nodes : nodeHandlers'[n]["adhoc"] > 0 => n \in providers' \cup {NoNode, AdhocNode}
      BY <1>1, <1>3, <1>4, NodeTypes DEF RespondersInv, Registered
    <2>4. \A n \in Nodes : nodeHandlers'[n]["gone"] > 0 => left' # {}
      BY <1>2, <1>3, NodeTypes DEF RespondersInv, Registered
    <2> QED BY <1>2, <2>2, <2>3, <2>4 DEF RespondersInv, Registered
  <1>6. Announced' BY <1>1, <1>2, <1>3, NodeTypes DEF RespondersInv, Announced
  <1> QED BY <1>2, <1>3, <1>5, <1>6, CallKeeps DEF RespondersInv, RespondersTypes

\* Calls that change neither commands nor their nodes.
LEMMA FeatureCallsKeep ==
    ASSUME RespondersAssumption, RespondersInv, CallMade,
           ToggleLastActivity \/ SetForm \/ \E f \in Features : ChangeFeature(f)
    PROVE  RespondersInv'
  <1>1. features \in [AllFeatures -> Nat] /\ form \in BOOLEAN BY DEF RespondersInv, RespondersTypes
  <1>2. /\ UNCHANGED <<nodeHandlers, providers, activeSessions, announced, left, ruined>>
        /\ known \subseteq known' /\ ("adhoc" \in there' <=> "adhoc" \in there)
    BY DEF CallMade, ToggleLastActivity, SetForm, ChangeFeature
  <1>3. features' \in [AllFeatures -> Nat]
    BY <1>1, FeaturesType DEF ToggleLastActivity, SetForm, ChangeFeature, AllFeatures
  <1>4. form' \in BOOLEAN BY <1>1 DEF ToggleLastActivity, SetForm, ChangeFeature
  <1>5. moved' = TRUE \/ UNCHANGED <<moved, features>>
    BY DEF ToggleLastActivity, SetForm, ChangeFeature
  <1>6. Registered' BY <1>2 DEF RespondersInv, Registered
  <1>7. Announced' BY <1>2, <1>5 DEF RespondersInv, Announced
  <1> QED BY <1>2, <1>3, <1>4, <1>6, <1>7, CallKeeps DEF RespondersInv, RespondersTypes

\* Calls of the presence: only Capabilities comes to a node, or goes from it.
LEMMA PresenceCallsKeep ==
    ASSUME RespondersAssumption, RespondersInv, CallMade,
           AddPresenceExtension \/ RemovePresenceExtension \/ SendPresence
    PROVE  RespondersInv'
  <1> DEFINE none == removeNodeHandlers(nodeHandlers, "caps")
  <1>1. nodeHandlers \in [Nodes -> [Handlers -> Nat]] /\ features \in [AllFeatures -> Nat] /\ form \in BOOLEAN
    BY DEF RespondersInv, RespondersTypes
  <1>2. /\ none \in [Nodes -> [Handlers -> Nat]] /\ \A n \in Nodes : none[n]["caps"] = 0
        /\ \A n \in Nodes, k \in Handlers : k # "caps" => none[n][k] = nodeHandlers[n][k]
    BY <1>1, NodeTypes, RemovingAll
  <1> HIDE DEF none
  <1>3. /\ nodeHandlers' \in [Nodes -> [Handlers -> Nat]]
        /\ \A n \in Nodes, k \in Handlers : k # "caps" => nodeHandlers'[n][k] = nodeHandlers[n][k]
        /\ SendPresence => nodeHandlers'[CapsNode]["caps"] = 1
    <2>1. CASE nodeHandlers' = none /\ ~ SendPresence BY <1>2, <2>1
    <2>2. CASE SendPresence
      <3>1. nodeHandlers' = registerNodeHandler(none, "caps", CapsNode) BY <2>2 DEF SendPresence, none
      <3>2. CapsNode \in Nodes /\ "caps" \in Handlers BY NodeTypes
      <3>3. /\ nodeHandlers' \in [Nodes -> [Handlers -> Nat]]
            /\ nodeHandlers'[CapsNode]["caps"] = none[CapsNode]["caps"] + 1
            /\ \A n \in Nodes, k \in Handlers :
                  n # CapsNode \/ k # "caps" => nodeHandlers'[n][k] = none[n][k]
        BY <1>2, <3>1, <3>2, Registering
      <3> QED BY <1>2, <3>2, <3>3
    <2>3. ~ SendPresence => nodeHandlers' = none
      BY DEF AddPresenceExtension, RemovePresenceExtension, none
    <2> QED BY <2>1, <2>2, <2>3
  <1>4. /\ UNCHANGED <<known, features, form, providers, activeSessions, left, ruined>>
        /\ "adhoc" \in there' <=> "adhoc" \in there
    BY DEF CallMade, AddPresenceExtension, RemovePresenceExtension, SendPresence
  <1>5. Registered'
    <2>1. \A n \in Nodes : /\ nodeHandlers'[n]["adhoc"] = nodeHandlers[n]["adhoc"]
                           /\ nodeHandlers'[n]["gone"] = nodeHandlers[n]["gone"]
      BY <1>3, NodeTypes
    <2>2. providers \subseteq Nodes BY NodeTypes DEF RespondersInv, RespondersTypes
    <2> QED BY <1>4, <2>1, <2>2 DEF RespondersInv, Registered
  <1>6. Announced'
    <2>1. CASE SendPresence
      <3>1. announced' = <<features, form>> /\ moved' = FALSE BY <2>1 DEF SendPresence, Hash
      <3> QED BY <1>1, <1>3, <1>4, <2>1, <3>1 DEF Announced
    <2>2. CASE AddPresenceExtension \/ RemovePresenceExtension
      <3>1. announced' = <<>> BY <2>2 DEF AddPresenceExtension, RemovePresenceExtension
      <3> QED BY <3>1 DEF Announced
    <2> QED BY <2>1, <2>2
  <1> QED BY <1>1, <1>3, <1>4, <1>5, <1>6, CallKeeps DEF RespondersInv, RespondersTypes

\* A request that is new.
LEMMA AskedType ==
    ASSUME RespondersInv, NEW from \in Remotes, NEW k \in BOOLEAN,
           asked' = asked \cup {[from |-> from, id |-> NextId(from), known |-> k]}
    PROVE  /\ NextId(from) \in Nat \ {0}
           /\ asked' \subseteq [from : Remotes, id : Nat \ {0}, known : BOOLEAN] /\ IsFiniteSet(asked')
           /\ \A r \in asked : ~ (r.from = from /\ r.id = NextId(from))
           /\ Numbered'
  <1> DEFINE Whose(set, remote) == {u \in set : u.from = remote}
             q == [from |-> from, id |-> NextId(from), known |-> k]
  <1>1. /\ asked \subseteq [from : Remotes, id : Nat \ {0}, known : BOOLEAN] /\ IsFiniteSet(asked)
        /\ Numbered
    BY DEF RespondersInv, RespondersTypes
  <1>2. \A remote : IsFiniteSet(Whose(asked, remote)) /\ Cardinality(Whose(asked, remote)) \in Nat
    <2> SUFFICES ASSUME NEW remote PROVE IsFiniteSet(Whose(asked, remote)) /\ Cardinality(Whose(asked, remote)) \in Nat
      OBVIOUS
    <2>1. Whose(asked, remote) \subseteq asked OBVIOUS
    <2> QED BY <1>1, <2>1, FS_Subset, FS_CardinalityType
  <1>3. NextId(from) = Cardinality(Whose(asked, from)) + 1 BY DEF NextId
  <1>4. \A r \in asked : r.id <= Cardinality(Whose(asked, r.from)) BY <1>1 DEF Numbered
  <1> HIDE DEF Whose
  <1>5. \A r \in asked : ~ (r.from = from /\ r.id = NextId(from))
    BY <1>1, <1>2, <1>3, <1>4
  <1>6. NextId(from) \in Nat \ {0} BY <1>2, <1>3
  <1>7. q \in [from : Remotes, id : Nat \ {0}, known : BOOLEAN] BY <1>6
  <1>8. IsFiniteSet(asked') BY <1>1, FS_AddElement
  <1>9. q.from = from /\ q.id = NextId(from) /\ asked' = asked \cup {q} OBVIOUS
  <1> HIDE DEF q
  <1>10. Numbered'
    <2>1. \A r, s \in asked' : r.from = s.from /\ r.id = s.id => r = s
      BY <1>1, <1>5, <1>9 DEF Numbered
    <2>2. q \notin Whose(asked, from) BY <1>5, <1>9 DEF Whose
    <2>3. Whose(asked', from) = Whose(asked, from) \cup {q} BY <1>9 DEF Whose
    <2>4. Cardinality(Whose(asked', from)) = Cardinality(Whose(asked, from)) + 1
      BY <1>2, <2>2, <2>3, FS_AddElement
    <2>5. \A remote : remote # from => Whose(asked', remote) = Whose(asked, remote) BY <1>9 DEF Whose
    <2>6. ASSUME NEW r \in asked' PROVE r.id <= Cardinality(Whose(asked', r.from))
      <3>1. CASE r = q BY <1>2, <1>3, <1>9, <2>4, <3>1
      <3>2. CASE r \in asked /\ r.from = from BY <1>1, <1>2, <1>4, <2>4, <3>2
      <3>3. CASE r \in asked /\ r.from # from BY <1>4, <2>5, <3>3
      <3> QED BY <1>9, <3>1, <3>2, <3>3
    <2> QED BY <2>1, <2>6 DEF Numbered, Whose
  <1> QED BY <1>1, <1>5, <1>6, <1>7, <1>8, <1>9, <1>10

AnswerT == [to : Remotes, id : Nat, type : {"result", "error"}]

\* One answer more.
LEMMA OneAnswer ==
    ASSUME RespondersInv, NEW x \in AnswerT, answers' = answers \o <<x>>
    PROVE  /\ answers' \in Seq(AnswerT)
           /\ AnswersTo(x.to, x.id) \in Nat /\ AnswersTo(x.to, x.id)' = AnswersTo(x.to, x.id) + 1
           /\ \A from, id : from # x.to \/ id # x.id => AnswersTo(from, id)' = AnswersTo(from, id)
           /\ \A i \in DOMAIN answers' : answers'[i] = x \/ (i \in DOMAIN answers /\ answers'[i] = answers[i])
  <1>1. answers \in Seq(AnswerT) BY DEF RespondersInv, RespondersTypes, AnswerT
  <1>2. \A from, id : /\ AnswersTo(from, id) = Cardinality(Places(answers, from, id))
                      /\ AnswersTo(from, id)' = Cardinality(Places(answers', from, id))
    BY DEF AnswersTo, Places
  <1> QED BY <1>1, <1>2, OneMorePlace

\* Nobody was answered, or waits, who has not asked.
LEMMA Unanswered ==
    ASSUME RespondersInv, mixed = {}, NEW from, NEW id, \A r \in asked : ~ (r.from = from /\ r.id = id)
    PROVE  /\ AnswersTo(from, id) = 0
           /\ \A t \in tasks : ~ (t.remote = from /\ t.id = id)
  <1>1. AnsweredOnce /\ WaitAlone BY DEF RespondersInv
  <1>2. Places(answers, from, id) = {} BY <1>1 DEF AnsweredOnce, Places
  <1>3. AnswersTo(from, id) = 0 BY <1>2, FS_EmptySet DEF AnswersTo, Places
  <1> QED BY <1>1, <1>3 DEF WaitAlone

\* What a request becomes when it is received.
Received(r) ==
    [from |-> r.from, id |-> NextId(r.from), type |-> r.type, payload |-> r.payload, node |-> r.node]

LEMMA RequestType ==
    ASSUME NEW r \in Requests
    PROVE  r.from \in Remotes /\ r.node \in Nodes
  BY DEF Requests, Nodes

LEMMA DispatchKeeps ==
    ASSUME RespondersInv, NEW r \in Requests, ReceiveRequest(r), NEW q, q = Received(r), Dispatch(q)
    PROVE  RespondersInv'
  <1>0. PICK new : new = [from |-> q.from, id |-> q.id, known |-> q.payload \in known] OBVIOUS
  <1>1. /\ UNCHANGED <<there, known, features, form, nodeHandlers, providers, announced, left, moved,
                       activeSessions, generated, tasks, mixed>>
        /\ asked' = asked \cup {new} /\ ruined' = (ruined \/ Dangles(q))
    BY <1>0 DEF ReceiveRequest, Dispatch, Received
  <1>2. q.from \in Remotes /\ q.node \in Nodes /\ q.id = NextId(q.from) /\ (q.payload \in known) \in BOOLEAN
    BY RequestType DEF Received
  <1>3. /\ q.id \in Nat \ {0}
        /\ asked' \subseteq [from : Remotes, id : Nat \ {0}, known : BOOLEAN] /\ IsFiniteSet(asked')
        /\ \A u \in asked : ~ (u.from = q.from /\ u.id = q.id)
        /\ Numbered'
    BY <1>0, <1>1, <1>2, AskedType
  <1>4. \/ q.payload \notin known /\ answers' = answers
        \/ q.payload \in known /\ \E x \in AnswerT : x.to = q.from /\ x.id = q.id /\ answers' = answers \o <<x>>
    <2>1. CASE q.payload \notin known
      <3>1. answers' = answers \o <<>> BY <2>1 DEF Dispatch, Received
      <3>2. answers \in Seq(AnswerT) BY DEF RespondersInv, RespondersTypes, AnswerT
      <3> QED BY <2>1, <3>1, <3>2
    <2>2. CASE q.payload \in known
      <3>1. \E type \in {"result", "error"} : answers' = answers \o <<Answer(q, type)>>
        <4>1. AnswersOf(q) = <<>> \/ \E type \in {"result", "error"} : AnswersOf(q) = <<Answer(q, type)>>
          BY DEF AnswersOf, HandleGet, HandleDisco
        <4> QED BY <2>2, <4>1 DEF Dispatch, Received
      <3>2. \A type \in {"result", "error"} :
              Answer(q, type) \in AnswerT /\ Answer(q, type).to = q.from /\ Answer(q, type).id = q.id
        BY <1>2, <1>3 DEF Answer, AnswerT
      <3> QED BY <2>2, <3>1, <3>2
    <2> QED BY <2>1, <2>2
  <1>5. new.from = q.from /\ new.id = q.id /\ new.known = (q.payload \in known)
    BY <1>0
  <1>6. RespondersTypes'
    <2>1. answers' \in Seq(AnswerT)
      BY <1>4, OneAnswer DEF RespondersInv, RespondersTypes, AnswerT
    <2> QED BY <1>1, <1>3, <2>1 DEF RespondersInv, RespondersTypes, AnswerT
  <1>7. Registered'
    <2>1. Dangles(q) => left # {}
      BY <1>2 DEF RespondersInv, Registered, Dangles
    <2> QED BY <1>1, <2>1 DEF RespondersInv, Registered
  <1>8. Announced' BY <1>1 DEF RespondersInv, Announced
  <1>9. ASSUME mixed = {} PROVE WaitAlone' /\ AnsweredOnce'
    <2>1. WaitAlone /\ AnsweredOnce BY <1>9 DEF RespondersInv
    <2>2. WaitAlone' BY <1>1, <2>1 DEF WaitAlone
    <2>3. AnswersTo(q.from, q.id) = 0 /\ \A t \in tasks : ~ (t.remote = q.from /\ t.id = q.id)
      BY <1>3, <1>9, Unanswered
    <2>4. /\ AnswersTo(q.from, q.id)' = IF q.payload \in known THEN 1 ELSE 0
          /\ \A u \in asked : AnswersTo(u.from, u.id)' = AnswersTo(u.from, u.id)
          /\ \A i \in DOMAIN answers' :
                \/ answers'[i].to = q.from /\ answers'[i].id = q.id
                \/ i \in DOMAIN answers /\ answers'[i] = answers[i]
      <3>1. CASE answers' = answers /\ q.payload \notin known
        <4>1. \A from, id : AnswersTo(from, id)' = AnswersTo(from, id) BY <3>1 DEF AnswersTo
        <4> QED BY <2>3, <3>1, <4>1
      <3>2. CASE q.payload \in known /\ \E x \in AnswerT : x.to = q.from /\ x.id = q.id /\ answers' = answers \o <<x>>
        <4>1. PICK x \in AnswerT : x.to = q.from /\ x.id = q.id /\ answers' = answers \o <<x>> BY <3>2
        <4>2. AnswersTo(x.to, x.id)' = AnswersTo(x.to, x.id) + 1 BY <4>1, OneAnswer
        <4>3. \A from, id : from # x.to \/ id # x.id => AnswersTo(from, id)' = AnswersTo(from, id)
          BY <4>1, OneAnswer
        <4>4. \A i \in DOMAIN answers' : answers'[i] = x \/ (i \in DOMAIN answers /\ answers'[i] = answers[i])
          BY <4>1, OneAnswer
        <4>5. AnswersTo(q.from, q.id)' = 1 BY <2>3, <4>1, <4>2
        <4>6. \A u \in asked : AnswersTo(u.from, u.id)' = AnswersTo(u.from, u.id) BY <1>3, <4>1, <4>3
        <4> QED BY <3>2, <4>1, <4>4, <4>5, <4>6
      <3> QED BY <1>4, <3>1, <3>2
    <2>5. \A u \in asked' : AnswersTo(u.from, u.id)' =
            IF u.known /\ {t \in tasks' : t.remote = u.from /\ t.id = u.id} = {} THEN 1 ELSE 0
      <3>1. \A u \in asked : AnswersTo(u.from, u.id) =
              IF u.known /\ {t \in tasks : t.remote = u.from /\ t.id = u.id} = {} THEN 1 ELSE 0
        BY <1>9, <2>1 DEF AnsweredOnce
      <3>2. {t \in tasks : t.remote = new.from /\ t.id = new.id} = {} BY <1>5, <2>3
      <3>3. ASSUME NEW u \in asked
            PROVE  AnswersTo(u.from, u.id)' =
                     IF u.known /\ {t \in tasks' : t.remote = u.from /\ t.id = u.id} = {} THEN 1 ELSE 0
        BY <1>1, <2>4, <3>1
      <3>4. AnswersTo(new.from, new.id)' =
              IF new.known /\ {t \in tasks' : t.remote = new.from /\ t.id = new.id} = {} THEN 1 ELSE 0
        BY <1>1, <1>5, <2>4, <3>2
      <3> QED BY <1>1, <3>3, <3>4
    <2>6. \A i \in DOMAIN answers' : \E u \in asked' : u.from = answers'[i].to /\ u.id = answers'[i].id
      BY <1>1, <1>5, <1>9, <2>1, <2>4 DEF AnsweredOnce
    <2> QED BY <2>2, <2>5, <2>6 DEF AnsweredOnce
  <1> QED BY <1>1, <1>3, <1>6, <1>7, <1>8, <1>9 DEF RespondersInv

LEMMA ExecuteKeeps ==
    ASSUME RespondersInv, NEW r \in Requests, ReceiveRequest(r), NEW q, q = Received(r), ForProvider(q),
           NEW named \in 0 .. generated, ExecuteCommand(q, named)
    PROVE  RespondersInv'
  <1>0. PICK new, session, task :
           /\ new = [from |-> q.from, id |-> q.id, known |-> q.payload \in known]
           /\ session = (IF named = 0 THEN generated + 1 ELSE named)
           /\ task = [remote |-> q.from, session |-> session, id |-> q.id]
    OBVIOUS
  <1>1. /\ UNCHANGED <<there, known, features, form, nodeHandlers, providers, announced, left, moved,
                       answers, ruined>>
        /\ asked' = asked \cup {new} /\ tasks' = tasks \cup {task}
        /\ generated' = IF named = 0 THEN generated + 1 ELSE generated
        /\ mixed' = IF session \in DOMAIN activeSessions THEN mixed \cup {session} ELSE mixed
    BY <1>0 DEF ReceiveRequest, ExecuteCommand, Received
  <1>2. /\ DOMAIN activeSessions' = DOMAIN activeSessions \cup {session}
        /\ activeSessions'[session] = q.id
        /\ \A s \in DOMAIN activeSessions : s # session => activeSessions'[s] = activeSessions[s]
    BY <1>0 DEF ExecuteCommand
  <1>3. q.from \in Remotes /\ q.id = NextId(q.from) /\ q.payload \in known
    <2>1. q.payload = "command" /\ providers # {} BY DEF ForProvider
    <2>2. "command" \in known BY <2>1 DEF RespondersInv, Registered
    <2> QED BY <2>1, <2>2, RequestType DEF Received
  <1>4. /\ q.id \in Nat \ {0}
        /\ asked' \subseteq [from : Remotes, id : Nat \ {0}, known : BOOLEAN] /\ IsFiniteSet(asked')
        /\ \A u \in asked : ~ (u.from = q.from /\ u.id = q.id)
        /\ Numbered'
    BY <1>0, <1>1, <1>3, AskedType
  <1>5. /\ new.from = q.from /\ new.id = q.id /\ new.known
        /\ task.remote = q.from /\ task.id = q.id /\ task.session = session
    BY <1>0, <1>3
  <1>6. session \in Nat /\ generated' \in Nat /\ task \in [remote : Remotes, session : Nat, id : Nat]
    BY <1>0, <1>1, <1>3, <1>4 DEF RespondersInv, RespondersTypes
  <1>7. RespondersTypes'
    BY <1>1, <1>2, <1>4, <1>6 DEF RespondersInv, RespondersTypes
  <1>8. Registered' /\ Announced' BY <1>1 DEF RespondersInv, Registered, Announced
  <1>9. ASSUME mixed' = {} PROVE WaitAlone' /\ AnsweredOnce'
    <2>1. mixed = {} /\ session \notin DOMAIN activeSessions BY <1>1, <1>9
    <2>2. WaitAlone /\ AnsweredOnce BY <2>1 DEF RespondersInv
    <2>3. AnswersTo(q.from, q.id) = 0 /\ \A t \in tasks : ~ (t.remote = q.from /\ t.id = q.id)
      BY <1>4, <2>1, Unanswered
    <2>4. WaitAlone'
      <3>1. \A t \in tasks' : t.session \in DOMAIN activeSessions' /\ activeSessions'[t.session] = t.id
        BY <1>1, <1>2, <1>5, <2>1, <2>2 DEF WaitAlone
      <3>2. \A t, u \in tasks' : t.session = u.session => t = u
        BY <1>1, <1>5, <2>1, <2>2 DEF WaitAlone
      <3>3. \A t, u \in tasks' : t.remote = u.remote /\ t.id = u.id => t = u
        BY <1>1, <1>5, <2>2, <2>3 DEF WaitAlone
      <3>4. \A t \in tasks' : \E u \in asked' : u.from = t.remote /\ u.id = t.id /\ u.known
        BY <1>1, <1>5, <2>2 DEF WaitAlone
      <3> QED BY <3>1, <3>2, <3>3, <3>4 DEF WaitAlone
    <2>5. \A from, id : AnswersTo(from, id)' = AnswersTo(from, id) BY <1>1 DEF AnswersTo
    <2>6. \A u \in asked : AnswersTo(u.from, u.id) =
            IF u.known /\ {t \in tasks : t.remote = u.from /\ t.id = u.id} = {} THEN 1 ELSE 0
      BY <2>1, <2>2 DEF AnsweredOnce
    <2>7. ASSUME NEW u \in asked
          PROVE  AnswersTo(u.from, u.id)' =
                   IF u.known /\ {t \in tasks' : t.remote = u.from /\ t.id = u.id} = {} THEN 1 ELSE 0
      <3>1. {t \in tasks' : t.remote = u.from /\ t.id = u.id} = {t \in tasks : t.remote = u.from /\ t.id = u.id}
        BY <1>1, <1>4, <1>5
      <3> QED BY <2>5, <2>6, <3>1
    <2>8. AnswersTo(new.from, new.id)' =
            IF new.known /\ {t \in tasks' : t.remote = new.from /\ t.id = new.id} = {} THEN 1 ELSE 0
      BY <1>1, <1>5, <2>3, <2>5
    <2>9. \A i \in DOMAIN answers' : \E u \in asked' : u.from = answers'[i].to /\ u.id = answers'[i].id
      BY <1>1, <2>1, <2>2 DEF AnsweredOnce
    <2>10. \A u \in asked' : AnswersTo(u.from, u.id)' =
            IF u.known /\ {t \in tasks' : t.remote = u.from /\ t.id = u.id} = {} THEN 1 ELSE 0
      BY <1>1, <2>7, <2>8
    <2> QED BY <2>4, <2>9, <2>10 DEF AnsweredOnce
  <1> QED BY <1>4, <1>7, <1>8, <1>9 DEF RespondersInv

LEMMA RespondKeeps ==
    ASSUME RespondersInv, NEW task \in tasks, NEW type \in {"result", "error"}, Respond(task, type)
    PROVE  RespondersInv'
  <1>1. /\ UNCHANGED <<there, known, features, form, nodeHandlers, providers, generated, announced,
                       asked, mixed, left, moved, ruined>>
        /\ tasks' = tasks \ {task}
    BY DEF Respond
  <1>2. task.remote \in Remotes /\ task.id \in Nat /\ tasks' \subseteq [remote : Remotes, session : Nat, id : Nat]
    BY <1>1 DEF RespondersInv, RespondersTypes
  <1>3. Registered' /\ Announced' /\ Numbered'
    BY <1>1 DEF RespondersInv, Registered, Announced, Numbered
  <1>4. CASE task.session \in DOMAIN activeSessions
    <2>1. PICK x : x = Answer([from |-> task.remote, id |-> activeSessions[task.session]], type) OBVIOUS
    <2>2. answers' = Append(answers, x) /\ DOMAIN activeSessions' = DOMAIN activeSessions \ {task.session}
          /\ \A s \in DOMAIN activeSessions' : activeSessions'[s] = activeSessions[s]
      BY <1>4, <2>1 DEF Respond
    <2>3. activeSessions[task.session] \in Nat BY <1>4 DEF RespondersInv, RespondersTypes
    <2>4. x \in AnswerT /\ x.to = task.remote /\ x.id = activeSessions[task.session]
      BY <1>2, <2>1, <2>3 DEF Answer, AnswerT
    <2>5. answers \in Seq(AnswerT) BY DEF RespondersInv, RespondersTypes, AnswerT
    <2>6. answers' = answers \o <<x>> BY <2>2, <2>4, <2>5
    <2>7. RespondersTypes'
      <3>1. answers' \in Seq(AnswerT) BY <2>4, <2>6, OneAnswer
      <3> QED BY <1>1, <1>2, <2>2, <3>1 DEF RespondersInv, RespondersTypes, AnswerT
    <2>8. ASSUME mixed' = {} PROVE WaitAlone' /\ AnsweredOnce'
      <3>1. WaitAlone /\ AnsweredOnce /\ mixed = {} BY <1>1, <2>8 DEF RespondersInv
      <3>2. x.id = task.id BY <2>4, <3>1 DEF WaitAlone
      <3>3. WaitAlone' BY <1>1, <2>2, <3>1 DEF WaitAlone
      <3>4. PICK q \in asked : q.from = task.remote /\ q.id = task.id /\ q.known BY <3>1 DEF WaitAlone
      <3>5. \A u \in asked : AnswersTo(u.from, u.id) =
              IF u.known /\ {t \in tasks : t.remote = u.from /\ t.id = u.id} = {} THEN 1 ELSE 0
        BY <3>1 DEF AnsweredOnce
      <3>6. ASSUME NEW u \in asked
            PROVE  AnswersTo(u.from, u.id)' =
                     IF u.known /\ {t \in tasks' : t.remote = u.from /\ t.id = u.id} = {} THEN 1 ELSE 0
        <4>1. CASE u.from = task.remote /\ u.id = task.id
          <5>1. u = q BY <3>4, <4>1 DEF RespondersInv, Numbered
          <5>2. AnswersTo(u.from, u.id) = 0 BY <3>5, <4>1
          <5>3. {t \in tasks' : t.remote = u.from /\ t.id = u.id} = {} BY <1>1, <3>1, <4>1 DEF WaitAlone
          <5>4. AnswersTo(x.to, x.id)' = AnswersTo(x.to, x.id) + 1 BY <2>4, <2>6, OneAnswer
          <5> QED BY <2>4, <3>2, <3>4, <4>1, <5>1, <5>2, <5>3, <5>4
        <4>2. CASE u.from # task.remote \/ u.id # task.id
          <5>1. {t \in tasks' : t.remote = u.from /\ t.id = u.id} = {t \in tasks : t.remote = u.from /\ t.id = u.id}
            BY <1>1, <4>2
          <5>2. AnswersTo(u.from, u.id)' = AnswersTo(u.from, u.id) BY <2>4, <2>6, <3>2, <4>2, OneAnswer
          <5> QED BY <3>5, <5>1, <5>2
        <4> QED BY <4>1, <4>2
      <3>7. \A i \in DOMAIN answers' : answers'[i] = x \/ (i \in DOMAIN answers /\ answers'[i] = answers[i])
        BY <2>4, <2>6, OneAnswer
      <3>8. \A i \in DOMAIN answers' : \E u \in asked' : u.from = answers'[i].to /\ u.id = answers'[i].id
        BY <1>1, <2>4, <3>1, <3>2, <3>4, <3>7 DEF AnsweredOnce
      <3> QED BY <1>1, <3>3, <3>6, <3>8 DEF AnsweredOnce
    <2> QED BY <1>3, <2>7, <2>8 DEF RespondersInv
  <1>5. CASE task.session \notin DOMAIN activeSessions
    <2>1. UNCHANGED <<answers, activeSessions>> BY <1>5 DEF Respond
    <2>2. mixed # {} BY <1>5 DEF RespondersInv, WaitAlone
    <2>3. RespondersTypes' BY <1>1, <1>2, <2>1 DEF RespondersInv, RespondersTypes
    <2> QED BY <1>1, <1>3, <2>2, <2>3 DEF RespondersInv
  <1> QED BY <1>4, <1>5

LEMMA RespondersStep ==
    ASSUME RespondersAssumption, RespondersInv, [RespondersNext]_respondersVars
    PROVE  RespondersInv'
  <1>1. CASE UNCHANGED respondersVars
    <2>1. RespondersTypes' BY <1>1 DEF respondersVars, RespondersInv, RespondersTypes
    <2>2. Registered' /\ Announced' BY <1>1 DEF respondersVars, RespondersInv, Registered, Announced
    <2>3. Numbered' BY <1>1 DEF respondersVars, RespondersInv, Numbered
    <2>4. mixed' = {} => WaitAlone' BY <1>1 DEF respondersVars, RespondersInv, WaitAlone
    <2>5. mixed' = {} => AnsweredOnce' BY <1>1 DEF respondersVars, RespondersInv, AnsweredOnce, AnswersTo
    <2> QED BY <2>1, <2>2, <2>3, <2>4, <2>5 DEF RespondersInv
  <1>2. ASSUME NEW r \in Requests, ReceiveRequest(r) PROVE RespondersInv'
    <2>1. PICK q : q = Received(r) OBVIOUS
    <2>2. Dispatch(q) \/ (ForProvider(q) /\ \E named \in 0 .. generated : ExecuteCommand(q, named))
      BY <1>2, <2>1 DEF ReceiveRequest, Received
    <2> QED BY <1>2, <2>1, <2>2, DispatchKeeps, ExecuteKeeps
  <1> QED BY <1>1, <1>2, CreateAdhocKeeps, DestroyAdhocKeeps, ProvidersKeep, FeatureCallsKeep,
             PresenceCallsKeep, RespondKeeps DEF RespondersNext

\* For any remotes, commands and features: a request gets one answer, under its id, or waits for
\* the application (ClientBase::notifyIqHandlers, Disco, Adhoc, LastActivity); what is said of
\* the announced node is what was announced (Capabilities); a listed command can be asked for.
THEOREM RequestsGetAnswers ==
    ASSUME RespondersAssumption
    PROVE  RespondersSpec => []RequestsAnswered
<1>1. RespondersInit => RespondersInv BY RespondersStart
<1>2. RespondersInv /\ [RespondersNext]_respondersVars => RespondersInv' BY RespondersStep
<1>3. RespondersInv => RequestsAnswered BY RespondersSuffice
<1> QED BY <1>1, <1>2, <1>3, PTL DEF RespondersSpec
=============================================================================
