------------------------- MODULE StanzaContents -------------------------
(* What a stanza promises to carry: for every kind of extension the value   *)
(* that the other side reads, given the one that was written.  Most kinds   *)
(* carry all of it; what the others lose is the table below.                *)
EXTENDS Stanzas

KeptField(f) ==
    [f EXCEPT !.options = IF f.type \in ListTypes THEN @ ELSE <<>>,
              !.values = CASE f.type \in MultiTypes -> @
                           [] f.type = "boolean" ->
                                IF @ = <<>> \/ @[1] \in {"0", "false"} THEN <<"0">> ELSE <<"1">>
                           [] OTHER -> SubSeq(@, 1, IF @ = <<>> THEN 0 ELSE 1)]
KeptFields(fs) == TagsOf(KeptField, SelectSeq(fs, LAMBDA f : f.type /= ""))
KeptForm(x) ==
    [x EXCEPT !.fields = KeptFields(@), !.reported = TagsOf(KeptFields, @),
              !.items = TagsOf(KeptFields, @)]
KeptForms(forms) == TagsOf(KeptForm, SelectSeq(forms, LAMBDA f : f.type /= ""))

(* An item's payload is the item; its type is told by the payloads. *)
KeptEvent(x) ==
    LET ops == IF x.itemOperations = <<>> THEN <<>>
               ELSE FlattenSeq(TagsOf(LAMBDA o : o.payload, x.itemOperations[1]))
        base == [NoEvent EXCEPT !.type = x.type, !.node = x.node,
                    !.subscriptionIDs = x.subscriptionIDs,
                    !.collection = IF x.subscriptionIDs = <<>> THEN "" ELSE x.collection]
    IN  CASE x.type \in {"collection", "configuration"} -> [base EXCEPT !.config = x.config]
          [] x.type \in {"items", "retracted"} ->
               [base EXCEPT
                  !.type = IF \E i \in DOMAIN ops : ops[i].name = "retract" THEN "retracted"
                           ELSE "items",
                  !.itemOperations =
                      <<TagsOf(LAMBDA p : [retract |-> p.name = "retract",
                                           item |-> findAttribute(p, "id"), payload |-> <<p>>],
                               ops)>>]
          [] x.type = "subscription" ->
               [base EXCEPT !.jid = x.jid, !.subscribed = x.subscribed]
          [] OTHER -> base

KeptMUCAdmin(x) ==
    LET Filled(own, all) == IF own = "" THEN all ELSE own
        list == IF x.role = "" /\ x.affiliation = "" THEN <<>>
                ELSE TagsOf(LAMBDA i : [i EXCEPT !.jid = Bare(@), !.reason = "",
                                                 !.role = Filled(@, x.role),
                                                 !.affiliation = Filled(@, x.affiliation)],
                            x.list)
    IN  [list |-> list, role |-> FirstValid(TagsOf(LAMBDA i : i.role, list)),
         affiliation |-> FirstValid(TagsOf(LAMBDA i : i.affiliation, list))]

KeptMUCOwner(x) ==
    LET none == [valid |-> TRUE, type |-> "incoming", jid |-> "", reason |-> "",
                 pwd |-> "", form |-> <<>>]
    IN  CASE x.type = "destroy" -> [none EXCEPT !.type = x.type, !.jid = Bare(x.jid)]
          [] x.type \in {"instant", "send", "cancel", "incoming"} ->
               [none EXCEPT !.form = KeptForms(x.form)]
          [] OTHER -> none

(* One of three things is carried: a state, the end of a room, an          *)
(* invitation or its refusal.                                              *)
KeptMUCUser(x) ==
    LET Or(v) == IF v = "" THEN "none" ELSE v
        Real(p) == IF PtrText(p) = "" THEN <<>> ELSE p
        jid == PtrText(x.jid)
        kept == [NoMUCUser EXCEPT !.reason = x.reason, !.password = x.password]
        to == IF jid = "" /\ x.operation = "inviteFrom" THEN "inviteTo"
              ELSE IF jid = "" /\ x.operation = "declineFrom" THEN "declineTo"
              ELSE x.operation
    IN  CASE x.affiliation /= "" \/ x.role /= "" ->
               [NoMUCUser EXCEPT !.affiliation = Or(x.affiliation), !.role = Or(x.role),
                                 !.jid = Real(x.jid), !.actor = x.actor,
                                 !.flags = x.flags \cap ToSet(Codes)]
          [] x.affiliation = "" /\ x.role = "" /\ x.del ->
               [NoMUCUser EXCEPT !.del = TRUE, !.flags = {"destroyed"},
                                 !.alternate = Real(x.alternate), !.reason = x.reason]
          [] x.affiliation = "" /\ x.role = "" /\ ~ x.del
             /\ x.operation /= "none" /\ x.jid /= <<>> ->
               IF x.operation \in {"inviteTo", "inviteFrom"}
               THEN [kept EXCEPT !.operation = to, !.jid = x.jid, !.continue = x.continue,
                                 !.thread = IF x.continue THEN <<PtrText(x.thread)>> ELSE <<>>]
               ELSE [kept EXCEPT !.operation = to,
                                 !.jid = IF x.operation = "declineTo" THEN <<"">> ELSE x.jid]
          [] OTHER -> NoMUCUser

KeptCommand(x) ==
    [x EXCEPT !.notes = <<>>, !.form = KeptForms(@),
              !.status = IF x.actions /= {} /\ @ = "" THEN "executing" ELSE @,
              !.action = IF x.actions /= {} THEN "complete"
                         ELSE IF @ = "" THEN "execute" ELSE @]

KeptRegistration(x) ==
    LET none == [x EXCEPT !.form = <<>>, !.oob = <<>>, !.values = <<>>, !.del = FALSE]
    IN  IF x.form /= <<>> THEN [none EXCEPT !.form = KeptForms(x.form)]
        ELSE IF x.oob /= <<>>
        THEN [none EXCEPT !.oob = SelectSeq(x.oob, LAMBDA o : o.valid /\ ~ o.iqext)]
        ELSE IF x.del THEN [none EXCEPT !.del = TRUE]
        ELSE [none EXCEPT !.values = x.values]

KeptSearch(x) ==
    LET none == [form |-> <<>>, values |-> <<>>, instructions |-> "", srl |-> <<>>]
    IN  IF x.form /= <<>> THEN [none EXCEPT !.form = KeptForms(x.form)]
        ELSE IF DOMAIN x.values /= {}
        THEN [none EXCEPT !.values = [f \in DOMAIN x.values |-> ""],
                          !.instructions = x.instructions]
        ELSE [none EXCEPT !.srl = TagsOf(LAMBDA r : IF r.jid = "" THEN NoResult
                                                    ELSE [r EXCEPT !.jid = Bare(@)], x.srl)]

KeptPrivacy(x) ==
    LET none == [context |-> "unread", default |-> "", active |-> "", names |-> <<>>,
                 items |-> <<>>]
        name == PtrText(x.names)
    IN  CASE x.context = "names" -> none
          [] x.context \in {"default", "unsetDefault"} -> [none EXCEPT !.default = name]
          [] x.context \in {"activate", "unsetActivate"} -> [none EXCEPT !.active = name]
          [] OTHER -> [none EXCEPT
                         !.names = <<name>>,
                         !.items = TagsOf(LAMBDA i : [i EXCEPT !.packets =
                                                        IF @ = ToSet(Packets) THEN {} ELSE @],
                                          x.items)]

KeptS5B(x) ==
    LET hosts == SelectSeq(x.hosts, LAMBDA h : h.jid /= "" /\ h.host /= "")
    IN  IF x.type = "hosts"
        THEN [x EXCEPT !.hosts = hosts, !.type = IF hosts = <<>> THEN "" ELSE @, !.jid = ""]
        ELSE [x EXCEPT !.hosts = <<>>, !.mode = "tcp"]

KeptIBB(x) ==
    [x EXCEPT !.seq = IF x.type = "data" THEN @ ELSE "0",
              !.blockSize = IF x.type = "open" THEN @ ELSE "0",
              !.data = IF x.type = "data" THEN @ ELSE <<>>]

KeptVCard(x) ==
    LET Picture(p) == IF ~ p.set THEN NoPicture
                      ELSE IF p.extval /= "" THEN [NoPicture EXCEPT !.set = TRUE, !.extval = p.extval]
                      ELSE IF p.type /= "" /\ p.binval /= <<>> THEN p ELSE NoPicture
        geo == x.lat /= "" /\ x.lon /= ""
    IN  IF ~ x.valid THEN NoVCard
        ELSE [x EXCEPT !.texts["SORT-STRING"] = "", !.prodid = "gloox", !.labels = <<>>,
                       !.name = IF x.N THEN @ ELSE NoVCard.name,
                       !.photo = Picture(@), !.logo = Picture(@),
                       !.emails = SelectSeq(@, LAMBDA e : e.userid /= ""),
                       !.telephones = SelectSeq(@, LAMBDA p : p.number /= ""),
                       !.lat = IF geo THEN @ ELSE "", !.lon = IF geo THEN @ ELSE "",
                       !.orgunits = IF x.orgname = "" THEN <<>> ELSE @]

(* Options without a form are read as an invalid one; a subscription with  *)
(* options loses its address to them.                                      *)
KeptPubSub(x) ==
    LET none == [NoPubSub EXCEPT !.ctx = x.ctx]
        df == IF KeptForms(x.options.df) = <<>> THEN <<InvalidForm>> ELSE KeptForms(x.options.df)
    IN  CASE x.ctx = "subscriptions" ->
               IF DOMAIN x.subscriptions = {} THEN NoPubSub
               ELSE [none EXCEPT !.subscriptions =
                        [n \in DOMAIN x.subscriptions |->
                           TagsOf(LAMBDA s : [s EXCEPT !.subid = ""], x.subscriptions[n])]]
          [] x.ctx = "affiliations" ->
               IF DOMAIN x.affiliations = {} THEN NoPubSub
               ELSE [none EXCEPT !.affiliations = x.affiliations]
          [] x.ctx = "subscribe" ->
               IF x.options.df = <<>> THEN [none EXCEPT !.node = x.node, !.jid = x.jid]
               ELSE [none EXCEPT !.node = x.node, !.options.df = df]
          [] x.ctx = "unsubscribe" ->
               [none EXCEPT !.node = x.node, !.jid = x.jid, !.subid = x.subid]
          [] x.ctx \in {"options", "setoptions"} ->
               [none EXCEPT !.ctx = "options", !.jid = x.jid,
                            !.options = [node |-> x.options.node, df |-> df]]
          [] x.ctx = "items" ->
               [none EXCEPT !.node = x.node, !.subid = x.subid, !.maxItems = x.maxItems,
                            !.items = x.items]
          [] x.ctx = "publish" -> [none EXCEPT !.node = x.node, !.items = x.items]
          [] OTHER -> [none EXCEPT !.node = x.node]

KeptPubSubOwner(x) ==
    LET none == [NoOwner EXCEPT !.ctx = x.ctx, !.node = x.node]
        form == KeptForms(x.form)
    IN  CASE x.ctx \in {"configure", "setconfigure"} ->
               [none EXCEPT !.form = form,
                            !.ctx = IF form = <<>> THEN "setconfigure" ELSE "configure"]
          [] x.ctx = "default" -> [none EXCEPT !.node = ""]
          [] x.ctx \in {"subscriptions", "setsubscriptions"} ->
               [none EXCEPT !.ctx = "subscriptions", !.subList = x.subList]
          [] x.ctx \in {"affiliations", "setaffiliations"} ->
               [none EXCEPT !.ctx = "affiliations", !.affList = x.affList]
          [] OTHER -> none

Kept(kind, x) ==
    CASE kind = "messageevent" ->
           LET known == x.event \ {"cancel"}
           IN  [event |-> known \cup (IF known = {} \/ x.id /= "" THEN {"cancel"} ELSE {}),
                id |-> ""]
      [] kind = "vcardupdate" ->
           LET hash == IF x.notReady \/ x.noImage THEN "" ELSE x.hash
           IN  [x EXCEPT !.hash = hash, !.noImage = hash = ""]
      [] kind = "dataform" -> KeptForm(x)
      [] kind = "featureneg" -> [form |-> KeptForms(x.form)]
      [] kind = "amp" -> [x EXCEPT !.rules = <<>>]
      [] kind = "pubsubevent" -> KeptEvent(x)
      [] kind = "mucadmin" -> KeptMUCAdmin(x)
      [] kind = "mucowner" -> KeptMUCOwner(x)
      [] kind = "mucuser" -> KeptMUCUser(x)
      [] kind = "muc" -> NoMUC
      [] kind = "adhoc" -> KeptCommand(x)
      [] kind = "registration" -> KeptRegistration(x)
      [] kind = "search" -> KeptSearch(x)
      [] kind = "privacy" -> KeptPrivacy(x)
      [] kind = "roster" ->
           [roster |-> TagsOf(LAMBDA i : IF i.remove THEN RosterRemoval(i.jid)
                                         ELSE [i EXCEPT !.subscription = SubscriptionOf(i.sub, i.ask)],
                              x.roster)]
      [] kind = "auth" ->
           [user |-> "", pwd |-> "", resource |-> "",
            digest |-> x.digest /\ x.pwd /= "" /\ x.resource /= ""]
      [] kind = "discoinfo" ->
           [x EXCEPT !.identities = SelectSeq(@, LAMBDA i : i.category /= "" /\ i.type /= ""),
                     !.features = SelectSeq(@, LAMBDA f : f /= ""), !.form = KeptForms(@)]
      [] kind = "discoitems" -> [x EXCEPT !.items = SelectSeq(@, LAMBDA i : i.jid /= "")]
      [] kind = "ibb" -> KeptIBB(x)
      [] kind = "bytestreams" -> KeptS5B(x)
      [] kind = "offline" -> [context |-> "unread", msgs |-> <<>>]
      [] kind = "bind" ->
           LET byJid == x.bind /\ x.resource = "" /\ x.jid /= ""
           IN  [x EXCEPT !.jid = IF byJid THEN @ ELSE ""]
      [] kind = "vcard" -> KeptVCard(x)
      [] kind = "pubsub" -> KeptPubSub(x)
      [] kind = "pubsubowner" -> KeptPubSubOwner(x)
      [] OTHER -> x

OfKind(stanza, kind) ==
    TagsOf(LAMBDA e : e.value, SelectSeq(stanza.extensions, LAMBDA e : e.kind = kind))

(* Whether the stanza is one that the extension's filter names with this   *)
(* element: an extension put into another is not read at all.              *)
Carries(stanza, kind, t) ==
    LET name == IF stanza.name = "subscription" THEN "presence" ELSE stanza.name
    IN  /\ t /= NoTag
        /\ \E e \in ToSet(Elements[kind]) :
              e.steps = <<name, t.name>> /\ e.ns \in {"", xmlns(t)}

(* What the peer wrote is what the receiver reads, but for what the table  *)
(* above names: the constructors and tag() of forty kinds of extension and *)
(* of the stanzas agree on every name, attribute and place.  No unit test  *)
(* takes a value through both, and the second journey starts from what the *)
(* first one's reader made of an altered element.                          *)
WrittenIsRead ==
    got /= <<>> /\ ~ altered =>
        /\ \A k \in ToSet(factory) :
              LET written == SelectSeq(OfKind(sent[1], k),
                                       LAMBDA x : Carries(sent[1], k, Write(k, x)))
              IN  OfKind(got[1], k) = TagsOf(LAMBDA x : Kept(k, x), written)
        /\ [got[1] EXCEPT !.extensions = <<>>] =
              [sent[1] EXCEPT !.extensions = <<>>,
                              !.id = IF sent[1].name \in {"iq", "message"} THEN @ ELSE ""]

(* Every extension of an arriving stanza is read by the class registered   *)
(* for it, once, in the order of the element, and no other: a filter that  *)
(* finds too much or too little, a class registered twice or an element    *)
(* two classes take for theirs would break it.                             *)
ReachesItsReader ==
    got /= <<>> =>
        LET root == wire[1]
            Found(e) ==
                SelectSeq(allDescendants(root, <<>>),
                          LAMBDA p : /\ Len(p) = Len(e.steps) - 1
                                     /\ \A i \in DOMAIN e.steps :
                                           e.steps[i] \in {At(root, SubSeq(p, 1, i - 1)).name, "*"}
                                     /\ e.ns \in {xmlns(At(root, p)), ""})
        IN  \A k \in Kinds :
              OfKind(got[1], k) =
                 IF ~ Contains(factory, k) THEN <<>>
                 ELSE FlattenSeq(TagsOf(LAMBDA e : TagsOf(LAMBDA p : Read(k, root, p), Found(e)),
                                        Elements[k]))

-----------------------------------------------------------------------------
(* A path as it is meant: alternatives of steps, each with a name, whether *)
(* it may be at any depth, a leading dot, and a condition on attributes.   *)
Holds(t, step) ==
    /\ step.name \in {t.name, "*"}
    /\ step.attr /= "" => hasAttribute(t, step.attr)
    /\ step.value /= "" => findAttribute(t, step.attr) = step.value

(* The places a path means: down from the start one step after another.    *)
Meant(root, start, path, steps) ==
    LET n == Len(steps)
        base == IF path.lead = "/" THEN <<>> ELSE start
        OnPath(p) ==
            \E at \in [1..n -> Len(base)..Len(p)] :
                /\ at[n] = Len(p)
                /\ path.lead /= "//" => at[1] = Len(base)
                /\ \A i \in 2..n : IF steps[i].deep THEN at[i] > at[i - 1]
                                   ELSE at[i] = at[i - 1] + 1
                /\ \A i \in 1..n : Holds(At(root, SubSeq(p, 1, at[i])), steps[i])
    IN  {p \in {base} \cup ToSet(allDescendants(root, base)) : OnPath(p)}

(* A search finds the places its expression means, and each of them once:  *)
(* parse() builds the tokens, with one pass over the text that calls       *)
(* itself for predicates and unions, and evaluateTagList() walks them.     *)
FindsWhatThePathSays ==
    search /= <<>> =>
        LET s == search[1]
        IN  /\ ToSet(s.found) = UNION {Meant(s.root, s.start, s.path, s.path.alternatives[i]) :
                                         i \in DOMAIN s.path.alternatives}
            /\ Cardinality(ToSet(s.found)) = Len(s.found)
=============================================================================
