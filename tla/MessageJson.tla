----------------------------- MODULE MessageJson -----------------------------
(***************************************************************************)
(* A message as JSON: how email-message writes it and reads it back        *)
(* (serde, in address.rs, email.rs, message.rs and mime_types.rs).  The    *)
(* schemas it publishes for the same values are in JsonSchemas.            *)
(*                                                                         *)
(* A JSON value is <<"null">>, <<"bool", b>>, <<"num", n>>, <<"str",       *)
(* pieces>>, <<"arr", values>> or <<"obj", fields>>, a field <<key,        *)
(* value>>.  A reader returns an option: <<>> for every error.  A derived  *)
(* reader skips fields it does not know and refuses one that comes twice.  *)
(* MIME parts are trees, and have a module of their own.                   *)
(***************************************************************************)
EXTENDS OutboundMessages, MediaTypes, Shapes

CONSTANTS
    StringCompat,           \* the feature rfc5322-string-compat
    WriteMimePart(_),       \* serde of a MimePart: MimePartJson has it
    ReadMimePart(_),
    JsonValues              \* the JSON values other programs may write, with their parts

ASSUME MessageJsonAssumption == StringCompat \in BOOLEAN

Null == <<"null">>
Str(value) == <<"str", value>>
Word(word) == Str(<<Char(word)>>)
Text(text) == Str(Plain(text))
Arr(items) == <<"arr", items>>
Obj(fields) == <<"obj", fields>>
Is(kind, value) == value[1] = kind
WordOf(value) ==
    IF Is("str", value) /\ Len(value[2]) = 1 /\ value[2][1][1] = "char" THEN AsChar(value[2][1]) ELSE ""

Map(option, Then(_)) == [i \in DOMAIN option |-> Then(option[i])]

(* Writing.  A member is <<key, option>>: what is absent or empty is left  *)
(* out.                                                                    *)
Object(members) ==
    Obj(FlattenSeq([i \in DOMAIN members |-> Map(members[i][2], LAMBDA value : <<members[i][1], value>>)]))
Always(value) == <<value>>
Many(items, Write(_)) == Arr([i \in DOMAIN items |-> Write(items[i])])
IfMany(items, Write(_)) == IF items = <<>> THEN <<>> ELSE <<Many(items, Write)>>

(* Reading.  Found has the places of a key among an object's fields. *)
Found(object, key) == {i \in DOMAIN object[2] : object[2][i][1] = key}
Once(object, key) == \E i \in DOMAIN object[2] : Found(object, key) = {i}
Value(object, key) == object[2][CHOOSE i \in Found(object, key) : TRUE][2]
All(fields) ==
    IF \E f \in DOMAIN fields : fields[f] = <<>> THEN <<>> ELSE <<[f \in DOMAIN fields |-> fields[f][1]]>>
ReadMany(value, Read(_)) ==
    IF Is("arr", value) THEN All([i \in DOMAIN value[2] |-> Read(value[2][i])]) ELSE <<>>

Required(object, key, Read(_)) ==
    IF Once(object, key) THEN Read(Value(object, key)) ELSE <<>>
OrDefault(object, key, default, Read(_)) ==
    IF Found(object, key) = {} THEN <<default>> ELSE Required(object, key, Read)
Optional(object, key, Read(_)) ==
    OrDefault(object, key, <<>>, LAMBDA value : IF value = Null THEN <<(<<>>)>>
                                                ELSE Map(Read(value), LAMBDA item : <<item>>))
OptionalMany(object, key, Read(_)) ==
    OrDefault(object, key, <<>>, LAMBDA value : ReadMany(value, Read))
Tag(value) == IF Is("obj", value) /\ Once(value, "type") THEN WordOf(Value(value, "type")) ELSE ""

ReadText(value) == IF Is("str", value) THEN <<AsText(value[2])>> ELSE <<>>
ReadString(value) == IF Is("str", value) THEN <<value[2]>> ELSE <<>>
ReadWord(value) == IF WordOf(value) = "" THEN <<>> ELSE <<WordOf(value)>>
Parsed(value, FromStr(_)) == IF Is("str", value) THEN FromStr(AsText(value[2])) ELSE <<>>
AsOption(result) == IF result.error = "none" THEN <<result.item>> ELSE <<>>

(* Strings that their constructor accepts as they are. *)
IsParsed(text, FromStr(_)) == IsSeq(text) /\ FromStr(text) = <<text>>
IsName(word) == WordOf(Word(word)) = word /\ word # ""

(* What a JSON text can say: strings of pieces, arrays of values, objects  *)
(* of fields.                                                              *)
IsAddressPiece(piece) == DOMAIN piece[2] = {"user", "host", "literal", "caps", "valid"}
IsPiece(piece) ==
    /\ IsAddr(piece) => IsAddressPiece(piece)
    /\ IsWord(piece) => IsSeq(piece[2])
    /\ piece[1] = "char" => piece = Char(piece[2][1])
IsJson(value) ==
    /\ Is("str", value) => IsList(value[2], IsPiece)
    /\ Is("bool", value) => value[2] \in BOOLEAN
    /\ Is("arr", value) => IsList(value[2], LAMBDA item : item \in JsonValues)
    /\ Is("obj", value) => IsList(value[2], LAMBDA field : field[2] \in JsonValues)

ASSUME JsonAssumption == \A value \in JsonValues : IsJson(value)
ASSUME PartsAssumption ==
    \A value \in JsonValues : IsOption(ReadMimePart(value), LAMBDA part : ReadMimePart(WriteMimePart(part)) = <<part>>)

-----------------------------------------------------------------------------
(* Addresses, as typed objects and, if the feature is on, as strings.      *)
WriteEmail(email) == Str(<<Addr(email)>>)
ReadEmail(value) == IF Is("str", value) THEN AsOption(EmailFromStr(value[2])) ELSE <<>>

StringOr(value, FromStr(_), Read(_)) ==
    IF StringCompat /\ Is("str", value) THEN AsOption(FromStr(value[2])) ELSE Read(value)

IsEmail(email) == EmailFromStr(<<Addr(email)>>) = Ok(email)
IsMailbox(mailbox) ==
    /\ mailbox = Mailbox(mailbox.name, mailbox.email)
    /\ IsOption(mailbox.name, IsSeq) /\ IsEmail(mailbox.email)
IsGroup(group) ==
    /\ group = Group(group.name, group.members)
    /\ IsSeq(group.name) /\ IsList(group.members, IsMailbox)
IsAddress(address) ==
    \/ address.kind = "mailbox" /\ IsMailbox(address)
    \/ address.kind = "group" /\ IsGroup(address)
IsEnvelope(envelope) ==
    /\ envelope = [mailFrom |-> envelope.mailFrom, rcptTo |-> envelope.rcptTo]
    /\ IsOption(envelope.mailFrom, IsEmail) /\ IsList(envelope.rcptTo, IsEmail)

WriteMailboxJson(mailbox) ==
    Object(<<(<<"type", Always(Word("mailbox"))>>), <<"name", Map(mailbox.name, Text)>>,
             <<"email", Always(WriteEmail(mailbox.email))>>>>)
ReadTypedMailbox(value) ==
    IF Tag(value) # "mailbox" THEN <<>>
    ELSE Map(All([name |-> Optional(value, "name", ReadText), email |-> Required(value, "email", ReadEmail)]),
             LAMBDA raw : Mailbox(raw.name, raw.email))
ReadMailbox(value) == StringOr(value, MailboxFromStr, ReadTypedMailbox)

WriteGroupJson(group) ==
    Object(<<(<<"type", Always(Word("group"))>>), <<"name", Always(Text(group.name))>>,
             <<"members", IfMany(group.members, WriteMailboxJson)>>>>)
ReadTypedGroup(value) ==
    IF Tag(value) # "group" THEN <<>>
    ELSE Map(All([name |-> Required(value, "name", ReadText), members |-> OptionalMany(value, "members", ReadMailbox)]),
             LAMBDA raw : Group(raw.name, raw.members))

WriteAddressJson(address) ==
    IF address.kind = "mailbox" THEN WriteMailboxJson(address) ELSE WriteGroupJson(address)
ReadTypedAddress(value) ==
    IF Tag(value) = "group" THEN ReadTypedGroup(value) ELSE ReadTypedMailbox(value)
ReadAddress(value) == StringOr(value, AddressFromStr, ReadTypedAddress)

WriteEnvelope(envelope) ==
    Object(<<(<<"mail_from", Map(envelope.mailFrom, WriteEmail)>>), <<"rcpt_to", IfMany(envelope.rcptTo, WriteEmail)>>>>)
ReadEnvelope(value) ==
    IF ~Is("obj", value) THEN <<>>
    ELSE All([mailFrom |-> Optional(value, "mail_from", ReadEmail), rcptTo |-> OptionalMany(value, "rcpt_to", ReadEmail)])

-----------------------------------------------------------------------------
(* Headers, attachments and bodies.  Bytes are written in base64.          *)
WriteBytes(bytes) == Str(<<(<<"b64", bytes>>)>>)
ReadBytes(value) ==
    IF Is("str", value) /\ Len(value[2]) = 1 /\ value[2][1][1] = "b64" THEN <<value[2][1][2]>> ELSE <<>>

WriteHeader(header) == Object(<<(<<"name", Always(Word(header.name))>>), <<"value", Always(Str(header.value))>>>>)
ReadHeader(value) ==
    LET raw == All([name |-> Required(value, "name", ReadWord), value |-> Required(value, "value", ReadString)])
    IN  IF Is("obj", value) /\ raw # <<>> /\ ValidHeader(raw[1]) = "none" THEN raw ELSE <<>>

WriteAttachmentBody(a) ==
    IF a.reference THEN Object(<<(<<"type", Always(Word("reference"))>>), <<"reference", Always(Str(a.content))>>>>)
    ELSE Object(<<(<<"type", Always(Word("bytes"))>>), <<"bytes", Always(WriteBytes(a.content))>>>>)
ReadAttachmentBody(value) ==
    CASE Tag(value) = "bytes" -> Map(Required(value, "bytes", ReadBytes),
                                     LAMBDA b : [reference |-> FALSE, content |-> b])
      [] Tag(value) = "reference" -> Map(Required(value, "reference", ReadString),
                                         LAMBDA r : [reference |-> TRUE, content |-> r])
      [] OTHER -> <<>>

(* A disposition is a tag or, as it once was under another name, a flag. *)
ReadDisposition(value) ==
    CASE Is("bool", value) -> <<value[2]>>
      [] ~Is("bool", value) /\ WordOf(value) \in {"inline", "attachment"} -> <<WordOf(value) = "inline">>
      [] OTHER -> <<>>

(* "none" stands for a name or a content id that is not there. *)
Named(word) == IF word = "none" THEN <<>> ELSE <<word>>
WriteAttachment(a) ==
    Object(<<(<<"filename", Map(Named(a.filename), Word)>>), <<"content_type", Always(Text(a.type))>>,
             <<"content_id", Map(Named(a.cid), Word)>>,
             <<"disposition", Always(Word(IF a.inline THEN "inline" ELSE "attachment"))>>,
             <<"body", Always(WriteAttachmentBody(a))>>>>)
ReadAttachment(value) ==
    LET object == Obj([i \in DOMAIN value[2] |->
                    IF value[2][i][1] = "inline" THEN <<"disposition", value[2][i][2]>> ELSE value[2][i]])
        word(option) == IF option = <<>> THEN "none" ELSE option[1]
        contentType(v) == Parsed(v, ContentTypeFromStr)
    IN  IF ~Is("obj", value) THEN <<>>
        ELSE Map(All([filename |-> Optional(object, "filename", ReadWord), type |-> Required(object, "content_type", contentType),
                      cid |-> Optional(object, "content_id", ReadWord),
                      inline |-> OrDefault(object, "disposition", FALSE, ReadDisposition),
                      body |-> Required(object, "body", ReadAttachmentBody)]),
                 LAMBDA raw : [type |-> raw.type, filename |-> word(raw.filename), cid |-> word(raw.cid),
                               inline |-> raw.inline, reference |-> raw.body.reference, content |-> raw.body.content])

WriteBodyJson(body) ==
    LET tagged(tag, members) == Object(<<(<<"type", Always(Word(tag))>>)>> \o members)
        text == <<"text", Always(Str(body.text))>>
        html == <<"html", Always(Str(body.html))>>
    IN  CASE body.kind = "text" -> tagged("text", <<text>>)
          [] body.kind = "html" -> tagged("html", <<html>>)
          [] body.kind = "both" -> tagged("text_and_html", <<text, html>>)
          [] body.kind = "mime" -> tagged("mime", <<(<<"part", Always(WriteMimePart(body.part))>>)>>)
ReadBodyJson(value) ==
    LET text(key) == Required(value, key, ReadString)
    IN  CASE Tag(value) = "text" -> All([kind |-> <<"text">>, text |-> text("text")])
          [] Tag(value) = "html" -> All([kind |-> <<"html">>, html |-> text("html")])
          [] Tag(value) = "text_and_html" -> All([kind |-> <<"both">>, text |-> text("text"), html |-> text("html")])
          [] Tag(value) = "mime" -> All([kind |-> <<"mime">>, part |-> Required(value, "part", ReadMimePart)])
          [] OTHER -> <<>>

-----------------------------------------------------------------------------
(* A date is written as the numbers it consists of, whole or not. *)
WriteDate(date) == Arr(<<(<<"num", date>>)>>)
ReadDate(value) == IF Is("arr", value) /\ Len(value[2]) = 1 THEN <<value[2][1][2]>> ELSE <<>>

IsHeader(header) ==
    /\ header = [name |-> header.name, value |-> header.value]
    /\ IsName(header.name) /\ ValidHeader(header) = "none"
IsAttachment(a) ==
    /\ a = [type |-> a.type, filename |-> a.filename, cid |-> a.cid, inline |-> a.inline, reference |-> a.reference,
            content |-> a.content]
    /\ IsParsed(a.type, ContentTypeFromStr) /\ IsName(a.filename) /\ IsName(a.cid)
    /\ a.inline \in BOOLEAN /\ a.reference \in BOOLEAN
IsBody(body) ==
    \/ body.kind = "text" /\ body = [kind |-> "text", text |-> body.text]
    \/ body.kind = "html" /\ body = [kind |-> "html", html |-> body.html]
    \/ body.kind = "both" /\ body = [kind |-> "both", text |-> body.text, html |-> body.html]
    \/ body.kind = "mime" /\ body = [kind |-> "mime", part |-> body.part]
       /\ ReadMimePart(WriteMimePart(body.part)) = <<body.part>>
IsMessage(m) ==
    /\ m = [from |-> m.from, sender |-> m.sender, to |-> m.to, cc |-> m.cc, bcc |-> m.bcc, replyTo |-> m.replyTo,
            subject |-> m.subject, date |-> m.date, messageId |-> m.messageId, headers |-> m.headers,
            body |-> m.body, attachments |-> m.attachments]
    /\ IsOption(m.from, IsMailbox) /\ IsOption(m.sender, IsMailbox)
    /\ \A field \in {"to", "cc", "bcc", "replyTo"} : IsList(m[field], IsAddress)
    /\ IsOption(m.subject, IsSeq) /\ IsOption(m.date, LAMBDA date : TRUE)
    /\ IsOption(m.messageId, LAMBDA id : IsParsed(id, MessageIdFromStr))
    /\ IsList(m.headers, IsHeader) /\ IsBody(m.body) /\ IsList(m.attachments, IsAttachment)

WriteMessage(m) ==
    Object(<<(<<"from", Map(m.from, WriteMailboxJson)>>), <<"sender", Map(m.sender, WriteMailboxJson)>>,
             <<"to", IfMany(m.to, WriteAddressJson)>>, <<"cc", IfMany(m.cc, WriteAddressJson)>>,
             <<"bcc", IfMany(m.bcc, WriteAddressJson)>>, <<"reply_to", IfMany(m.replyTo, WriteAddressJson)>>,
             <<"subject", Map(m.subject, Text)>>, <<"date", Map(m.date, WriteDate)>>,
             <<"message_id", Map(m.messageId, Text)>>, <<"headers", IfMany(m.headers, WriteHeader)>>,
             <<"body", Always(WriteBodyJson(m.body))>>, <<"attachments", IfMany(m.attachments, WriteAttachment)>>>>)

ReadMessage(value) ==
    LET fields(lists) ==
      All([from |-> Optional(value, "from", ReadMailbox), sender |-> Optional(value, "sender", ReadMailbox),
           to |-> lists["to"], cc |-> lists["cc"], bcc |-> lists["bcc"], replyTo |-> lists["reply_to"],
           subject |-> Optional(value, "subject", ReadText),
           date |-> Optional(value, "date", ReadDate),
           messageId |-> Optional(value, "message_id", LAMBDA v : Parsed(v, MessageIdFromStr)),
           headers |-> OptionalMany(value, "headers", ReadHeader), body |-> Required(value, "body", ReadBodyJson),
           attachments |-> OptionalMany(value, "attachments", ReadAttachment)])
    IN  IF ~Is("obj", value) THEN <<>>
        ELSE fields([key \in {"to", "cc", "bcc", "reply_to"} |-> OptionalMany(value, key, ReadAddress)])

(* OutboundMessage is the same JSON, and no message that is not valid. *)
OutboundNew(message) == IF ValidateBasic(message) = "none" THEN <<message>> ELSE <<>>
ReadOutbound(value) == IF ReadMessage(value) = <<>> THEN <<>> ELSE OutboundNew(ReadMessage(value)[1])
=============================================================================
