--------------------------- MODULE VCard ---------------------------
(* gloox's VCard (vcard.cpp): what is read from a vCard element and what   *)
(* tag() writes.  The conventions are those of StanzaExtensions.           *)
EXTENDS StanzaExtensions

(* The fields of one text: the members, and the names they are written     *)
(* under.  The product id is never written, and the sort string under      *)
(* another name than the one it is read from.                              *)
Texts == <<"FN", "NICKNAME", "URL", "BDAY", "JABBERID", "TITLE", "ROLE", "NOTE", "DESC",
           "MAILER", "TZ", "REV", "SORT-STRING", "UID">>
WrittenAs(f) == IF f = "SORT-STRING" THEN "SORT_STRING" ELSE f

NameParts == <<"FAMILY", "GIVEN", "MIDDLE", "PREFIX", "SUFFIX">>
EmailTypes == <<"INTERNET", "WORK", "HOME", "X400", "PREF">>
AddressTypes == <<"POSTAL", "PARCEL", "HOME", "WORK", "PREF", "DOM", "INTL">>
AddressParts == <<"POBOX", "EXTADD", "STREET", "LOCALITY", "REGION", "PCODE", "CTRY">>
TelTypes == <<"HOME", "WORK", "VOICE", "FAX", "PAGER", "MSG", "CELL", "VIDEO", "BBS",
              "MODEM", "ISDN", "PCS", "PREF">>
Classes == <<"PRIVATE", "PUBLIC", "CONFIDENTIAL">>

(* checkField() for each of the names; the types that are set. *)
CheckFields(t, names) == [f \in ToSet(names) |-> Text(t, f)]
TypesIn(t, names) == {n \in ToSet(names) : hasChild(t, n)}
(* insertField() *)
Inserted(x, names) == TagsOf(LAMBDA f : Opt(f, x[f]), names)
InsertedTypes(types, names) == TagsOf(LAMBDA n : Flag(n, n \in types), names)

NoPicture == [set |-> FALSE, extval |-> "", type |-> "", binval |-> <<>>]
ReadPicture(x, t) ==
    IF hasChild(t, "EXTVAL") THEN [x EXCEPT !.set = TRUE, !.extval = Text(t, "EXTVAL")]
    ELSE IF hasChild(t, "TYPE") /\ hasChild(t, "BINVAL")
    THEN [x EXCEPT !.set = TRUE, !.type = Text(t, "TYPE"),
                   !.binval = decode64(Text(t, "BINVAL"))]
    ELSE x
WritePicture(name, x) ==
    IF ~ x.set THEN NoTag
    ELSE E(name, <<>>,
           IF x.extval /= "" THEN <<Leaf("EXTVAL", x.extval)>>
           ELSE IF x.type /= "" /\ x.binval /= <<>>
           THEN <<Leaf("TYPE", x.type), Leaf("BINVAL", encode64(x.binval))>>
           ELSE <<>>)

(* A domestic address is not an international one. *)
Domestic(types) == IF "DOM" \in types THEN types \ {"INTL"} ELSE types
ReadAddress(t) ==
    CheckFields(t, AddressParts) @@ [types |-> Domestic(TypesIn(t, AddressTypes))]

(* The types of a label are compared with each child in turn, so the last  *)
(* one decides; the lines are the text of the label itself.                *)
ReadLabel(t) ==
    [lines |-> TagsOf(LAMBDA c : t.cdata, findChildren(t, "LINE")),
     types |-> IF t.kids = <<>> THEN {"undefined"}
               ELSE {Last(t.kids).name} \cap ToSet(AddressTypes)]

ReadTel(t) == [number |-> Text(t, "NUMBER"), types |-> TypesIn(t, TelTypes)]
ReadEmail(t) == [userid |-> Text(t, "USERID"), types |-> TypesIn(t, EmailTypes)]

NoVCard == [valid |-> TRUE, texts |-> [f \in ToSet(Texts) |-> ""], prodid |-> "gloox",
            N |-> FALSE, name |-> [f \in ToSet(NameParts) |-> ""],
            photo |-> NoPicture, logo |-> NoPicture, emails |-> <<>>, addresses |-> <<>>,
            labels |-> <<>>, telephones |-> <<>>, lon |-> "", lat |-> "",
            orgname |-> "", orgunits |-> <<>>, class |-> ""]

(* A part that is absent keeps what an earlier element of the name gave. *)
TextOr(t, f, old) == IF hasChild(t, f) THEN Text(t, f) ELSE old
ReadVCardChild(x, t) ==
    CASE t.name = "N" ->
           [x EXCEPT !.N = TRUE, !.name = [f \in DOMAIN @ |-> TextOr(t, f, @[f])]]
      [] t.name = "PHOTO" -> [x EXCEPT !.photo = ReadPicture(@, t)]
      [] t.name = "LOGO" -> [x EXCEPT !.logo = ReadPicture(@, t)]
      [] t.name = "EMAIL" /\ hasChild(t, "USERID") ->
           [x EXCEPT !.emails = Append(@, ReadEmail(t))]
      [] t.name = "ADR" -> [x EXCEPT !.addresses = Append(@, ReadAddress(t))]
      [] t.name = "LABEL" -> [x EXCEPT !.labels = Append(@, ReadLabel(t))]
      [] t.name = "TEL" /\ hasChild(t, "NUMBER") ->
           [x EXCEPT !.telephones = Append(@, ReadTel(t))]
      [] t.name = "ORG" ->
           [x EXCEPT !.orgname = IF hasChild(t, "ORGNAME") THEN LastText(t, "ORGNAME") ELSE @,
                     !.orgunits = @ \o TagsOf(LAMBDA c : c.cdata, findChildren(t, "ORGUNIT"))]
      [] t.name = "GEO" -> [x EXCEPT !.lon = TextOr(t, "LON", @), !.lat = TextOr(t, "LAT", @)]
      [] t.name = "CLASS" ->
           LET set == SelectSeq(Classes, LAMBDA c : hasChild(t, c))
           IN  IF set = <<>> THEN x ELSE [x EXCEPT !.class = Head(set)]
      [] OTHER -> x
ReadVCard(t) ==
    FoldLeft(ReadVCardChild,
             [NoVCard EXCEPT !.texts = CheckFields(t, Texts),
                             !.prodid = TextOr(t, "PRODID", @)],
             t.kids)

WriteVCard(x) ==
    E("vCard", Ns("vcard-temp") @@ [version |-> IF x.valid THEN "3.0" ELSE ""],
      IF ~ x.valid THEN <<>>
      ELSE TagsOf(LAMBDA f : Opt(WrittenAs(f), x.texts[f]), Texts)
           \o <<IF x.N THEN E("N", <<>>, Inserted(x.name, NameParts)) ELSE NoTag,
                WritePicture("PHOTO", x.photo), WritePicture("LOGO", x.logo)>>
           \o TagsOf(LAMBDA e : E("EMAIL", <<>>, InsertedTypes(e.types, EmailTypes)
                                                 \o <<Opt("USERID", e.userid)>>), x.emails)
           \o TagsOf(LAMBDA a : E("ADR", <<>>, InsertedTypes(a.types, AddressTypes)
                                               \o Inserted(a, AddressParts)), x.addresses)
           \o TagsOf(LAMBDA p : E("TEL", <<>>, <<Opt("NUMBER", p.number)>>
                                               \o InsertedTypes(p.types, TelTypes)),
                     x.telephones)
           \o <<IF x.lat = "" \/ x.lon = "" THEN NoTag
                ELSE E("GEO", <<>>, <<Leaf("LAT", x.lat), Leaf("LON", x.lon)>>),
                IF x.orgname = "" THEN NoTag
                ELSE E("ORG", <<>>, <<Leaf("ORGNAME", x.orgname)>>
                                    \o TagsOf(LAMBDA u : Leaf("ORGUNIT", u), x.orgunits)),
                IF x.class = "" THEN NoTag ELSE E("CLASS", <<>>, <<Leaf(x.class, "")>>)>>)

(* What the setters make of their arguments. *)
setName(x, name) == [x EXCEPT !.N = TRUE, !.name = name]
setPhotoUri(x, extval) ==
    IF extval = "" THEN x ELSE [x EXCEPT !.photo.extval = extval, !.photo.set = TRUE]
setPhoto(x, type, binval) ==
    IF type /= "" /\ binval /= <<>>
    THEN [x EXCEPT !.photo.type = type, !.photo.binval = binval, !.photo.set = TRUE]
    ELSE [x EXCEPT !.photo = NoPicture]
addEmail(x, userid, types) ==
    IF userid = "" THEN x ELSE [x EXCEPT !.emails = Append(@, [userid |-> userid, types |-> types])]
addAddress(x, parts, types) ==
    IF \A f \in DOMAIN parts : parts[f] = "" THEN x
    ELSE [x EXCEPT !.addresses = Append(@, parts @@ [types |-> Domestic(types)])]
addLabel(x, lines, types) ==
    IF lines = <<>> THEN x
    ELSE [x EXCEPT !.labels = Append(@, [lines |-> lines, types |-> Domestic(types)])]
addTelephone(x, number, types) ==
    IF number = "" THEN x
    ELSE [x EXCEPT !.telephones = Append(@, [number |-> number, types |-> types])]
setGeo(x, lat, lon) ==
    IF lat = "" \/ lon = "" THEN x ELSE [x EXCEPT !.lat = lat, !.lon = lon]
setOrganization(x, name, units) ==
    IF name = "" THEN x ELSE [x EXCEPT !.orgname = name, !.orgunits = units]
=============================================================================
