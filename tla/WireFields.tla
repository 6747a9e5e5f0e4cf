----------------------------- MODULE WireFields -----------------------------
(***************************************************************************)
(* The header of a message goes over the wire and comes back               *)
(* (email-message-wire, rfc822.rs): a message is rendered, parsed, and may *)
(* be rendered and parsed again, as a relay or an archive does.  Wires     *)
(* that another program wrote come in at the same place.  How a body is    *)
(* written and read is a parameter.                                        *)
(***************************************************************************)
EXTENDS OutboundMessages, MimeHeaders

CONSTANTS
    Messages,           \* messages a caller may render
    Inbound,            \* wires [lines, body] another program may have written
    Options,            \* [bcc, soft] render options
    MaxHops,            \* how often a message crosses the wire
    MaxInput,           \* MAX_INPUT_BYTES: 16 MiB in the code
    RenderPayload(_, _, _), \* body, attachments, soft: [error, headers, body, mime]
    ReadBody(_, _, _),      \* octets, type, encoding: a body, or of kind "error"
    BodySize(_)             \* octets: the bytes they are

(* What Rust's types say of messages and lines: texts are strings, lists   *)
(* are vectors, and an encoded word has a text.                            *)
IsValue(value) == IsList(value, LAMBDA piece : IsWord(piece) => IsSeq(piece[2]))
IsNamed(mailbox) == IsOption(mailbox.name, IsSeq)
IsAddressee(address) ==
    IF address.kind = "mailbox" THEN IsNamed(address)
    ELSE IsSeq(address.name) /\ IsList(address.members, IsNamed)
IsWritten(m) ==
    /\ DOMAIN m = DOMAIN EmptyMessage(m.body)
    /\ IsOption(m.from, IsNamed) /\ IsOption(m.sender, IsNamed)
    /\ IsList(m.to, IsAddressee) /\ IsList(m.cc, IsAddressee)
    /\ IsList(m.bcc, IsAddressee) /\ IsList(m.replyTo, IsAddressee)
    /\ IsOption(m.subject, IsSeq)
    /\ IsList(m.headers, LAMBDA header : IsValue(header.value))
IsLines(lines) == IsList(lines, LAMBDA line : IsValue(line.value))

ASSUME WireFieldsAssumption ==
    /\ \A m \in Messages : IsWritten(m)
    /\ \A w \in Inbound : IsLines(w.lines)
    /\ \A o \in Options : o.soft \in Nat
    /\ MaxInput \in Nat

VARIABLES
    phase,              \* "message", "wire", "refused" (render), "rejected" (parse)
    message,            \* the message of this hop, as a caller sees it
    wire,               \* [error, lines, body]
    options,            \* RenderOptions of every hop
    hops

vars == <<phase, message, wire, options, hops>>

-----------------------------------------------------------------------------
StructuredHeaders == {"References"}
IsStructuredHeader(name) == name \in StructuredHeaders

HeaderValue(header) ==
    IF ~Raw(header.value, NonAscii) \/ IsStructuredHeader(header.name) THEN header.value
    ELSE EncodeUnstructured(AsText(header.value))

Field(name, value) == [name |-> name, value |-> value]
IfAny(list, fields) == IF list = <<>> THEN <<>> ELSE fields

TypedFields(m, o) ==
    IfAny(m.from, <<Field("From", RenderMailboxHeader(m.from[1]))>>)
    \o IfAny(m.sender, <<Field("Sender", RenderMailboxHeader(m.sender[1]))>>)
    \o IfAny(m.to, <<Field("To", RenderAddressListHeader(m.to))>>)
    \o IfAny(m.cc, <<Field("Cc", RenderAddressListHeader(m.cc))>>)
    \o (IF o.bcc THEN IfAny(m.bcc, <<Field("Bcc", RenderAddressListHeader(m.bcc))>>) ELSE <<>>)
    \o IfAny(m.replyTo, <<Field("Reply-To", RenderAddressListHeader(m.replyTo))>>)
    \o IfAny(m.subject, <<Field("Subject", EncodeUnstructured(m.subject[1]))>>)

DateFields(m) ==
    IfAny(m.date, <<Field("Date", Token("date", FormatDate(m.date[1])))>>)
    \o IfAny(m.messageId, <<Field("Message-ID", Token("msg-id", m.messageId[1]))>>)

MimeHeaderNames == {"Content-Type", "Content-Transfer-Encoding", "MIME-Version"}

(* Custom headers that would contradict the MIME headers are left out. *)
CustomFields(m, mime) ==
    LET left(header) == IF mime /\ header.name \in MimeHeaderNames THEN <<>>
                        ELSE <<Field(header.name, HeaderValue(header))>>
    IN  FlattenSeq([i \in DOMAIN m.headers |-> left(m.headers[i])])

MimeFields(payload) ==
    LET given(kind) == SelectSeq(payload.headers, LAMBDA h : h[1] = kind)
        field(kind) == IfAny(given(kind), <<Field(MimeFieldName[kind], HeaderText(kind, given(kind)[1][2]))>>)
    IN  IF ~payload.mime THEN <<>>
        ELSE <<Field("MIME-Version", Token("version", "1.0"))>>
             \o field("type") \o field("encoding") \o field("disposition")

Pushed(fields, soft) == [i \in DOMAIN fields |-> PushHeaderLine(fields[i].name, fields[i].value, soft)]
Refused(error) == [error |-> error, lines |-> <<>>, body |-> <<>>]

(* The first step that fails decides, in the order of the fields. *)
RenderRfc822(m, o) ==
    LET step(error) == <<[error |-> error, lines |-> <<>>]>>
        steps(payload) ==
          step(ValidateBasic(m)) \o Pushed(TypedFields(m, o), o.soft)
          \o step(IF m.date # <<>> /\ FormatDate(m.date[1]) = "none" THEN "DateFormat" ELSE "none")
          \o Pushed(DateFields(m), o.soft) \o step(payload.error)
          \o Pushed(CustomFields(m, payload.mime) \o MimeFields(payload), o.soft)
        wireOf(payload, all) ==
          IF FirstError(all) # <<>> THEN Refused(FirstError(all)[1].error)
          ELSE [error |-> "none", lines |-> FlattenSeq([i \in DOMAIN all |-> all[i].lines]), body |-> payload.body]
        written(payload) == wireOf(payload, steps(payload))
    IN  written(RenderPayload(m.body, m.attachments, o.soft))

-----------------------------------------------------------------------------
(* What one field of a wire says; the last of a singleton field decides,   *)
(* lists add up.                                                           *)
FieldOf ==          \* the field of a message that an address header sets
    [name \in {"From", "Sender", "To", "Cc", "Bcc", "Reply-To"} |->
        IF name = "Reply-To" THEN "replyTo"
        ELSE [From |-> "from", Sender |-> "sender", To |-> "to", Cc |-> "cc", Bcc |-> "bcc"][name]]

ParseField(s, name, value) ==
    LET one(field, mailbox) == IF mailbox.error = "none" THEN [s EXCEPT !.message[field] = <<mailbox.item>>]
                                                         ELSE [s EXCEPT !.error = "MailboxHeaderParse"]
        more(field, list) == IF list.error = "none" THEN [s EXCEPT !.message[field] = @ \o list.item]
                                                    ELSE [s EXCEPT !.error = "AddressHeaderParse"]
        token(field, kind, error) == IF TokenOf(value, kind) = <<>> THEN [s EXCEPT !.error = error]
                                     ELSE [s EXCEPT !.message[field] = TokenOf(value, kind)]
    IN  CASE s.error # "none" -> s
          [] s.error = "none" /\ name \in {"From", "Sender"} ->
               one(FieldOf[name], MailboxFromStr(EscapeQuotedWords(value)))
          [] s.error = "none" /\ name \in {"To", "Cc", "Bcc", "Reply-To"} ->
               more(FieldOf[name], AddressListFromStr(EscapeQuotedWords(value)))
          [] s.error = "none" /\ name = "Subject" -> [s EXCEPT !.message.subject = <<AsText(DecodeWords(value))>>]
          [] s.error = "none" /\ name = "Date" -> token("date", "date", "Date")
          [] s.error = "none" /\ name = "Message-ID" -> token("messageId", "msg-id", "MessageId")
          [] s.error = "none" /\ name = "Content-Type" -> [s EXCEPT !.type = TypeOf(value)]
          [] s.error = "none" /\ name = "Content-Transfer-Encoding" ->
               IF TokenOf(value, "encoding") = <<>> THEN [s EXCEPT !.error = "MimeBodyParse"]
               ELSE [s EXCEPT !.encoding = TokenOf(value, "encoding")]
          [] OTHER -> [s EXCEPT !.message.headers = Append(@, Field(name, value))]

NoBody == [kind |-> "none"]

ParseFields(start, fields) ==
    LET after[i \in 0..Len(fields)] ==
          IF i = 0 THEN start ELSE ParseField(after[i - 1], fields[i].name, fields[i].value)
    IN  after[Len(fields)]

(* The bytes of a wire: its lines and the empty one that ends them, each   *)
(* with its line end, and its body.                                        *)
WireSize(w) ==
    LET named(line) == line.name \in DOMAIN NameLength \cup {""}
        upTo[i \in 0..Len(w.lines)] ==
          IF i = 0 THEN 2
          ELSE upTo[i - 1] + 2 + (IF named(w.lines[i]) THEN LineLength(w.lines[i]) ELSE Length(w.lines[i].value))
    IN  upTo[Len(w.lines)] + BodySize(w.body)

(* Nothing of a wire that is too long is read.  A message without a        *)
(* Content-Type is plain text; one that is no media type is an error.      *)
ParseRfc822(w) ==
    LET start(lines) == [error |-> IF lines.ok THEN "none" ELSE "InvalidHeaderLine", message |-> EmptyMessage(NoBody),
                         type |-> <<Type("text/plain")>>, encoding |-> <<"none">>]
        failed(error) == [error |-> error, message |-> EmptyMessage(NoBody)]
        withBody(s, body) == IF body.kind = "error" THEN failed(body.error)
                             ELSE [error |-> "none", message |-> [s.message EXCEPT !.body = body]]
        read(s) == CASE s.error # "none" -> failed(s.error)
                     [] s.error = "none" /\ s.type = <<>> -> failed("MimeBodyParse")
                     [] OTHER -> withBody(s, ReadBody(w.body, s.type[1], s.encoding[1]))
        readLines(lines) == read(ParseFields(start(lines), lines.fields))
    IN  IF WireSize(w) > MaxInput THEN failed("MimeBodyParse") ELSE readLines(ParseHeaderLines(w.lines))

-----------------------------------------------------------------------------
NoWire == Refused("none")

Init ==
    /\ options \in Options
    /\ hops = 0
    /\ \/ phase = "message" /\ message \in Messages /\ wire = NoWire
       \/ phase = "wire" /\ message = EmptyMessage(NoBody)
          /\ wire \in {[error |-> "none", lines |-> w.lines, body |-> w.body] : w \in Inbound}

Render ==
    /\ phase = "message" /\ hops < MaxHops
    /\ wire' = RenderRfc822(message, options)
    /\ phase' = IF wire'.error = "none" THEN "wire" ELSE "refused"
    /\ UNCHANGED <<message, options, hops>>

Parse ==
    /\ phase = "wire"
    /\ \E parsed \in {ParseRfc822(wire)} :
          /\ phase' = IF parsed.error = "none" THEN "message" ELSE "rejected"
          /\ message' = IF parsed.error = "none" THEN parsed.message ELSE message
    /\ wire' = NoWire
    /\ hops' = hops + 1
    /\ UNCHANGED options

Next == Render \/ Parse

Spec == Init /\ [][Next]_vars

-----------------------------------------------------------------------------
Rendered822 == message.body # NoBody    \* the wire is one this crate wrote

(* RFC 5322's hard limit: no physical line of a message's own header is    *)
(* longer, whatever the soft target.  The one line that may be is a name   *)
(* with an empty value.  The headers of the parts inside a multipart are   *)
(* octets of the body here; the same PushHeaderLine folds them.            *)
LinesWithinLimit ==
    Rendered822 =>
        \A i \in DOMAIN wire.lines :
            \/ LineLength(wire.lines[i]) <= HardLineLen
            \/ wire.lines[i].value = <<>> /\ NameLength[wire.lines[i].name] > HardLineLen - 2

(* Folding turns a tab into a blank and may take a blank off either end of *)
(* a value; an ASCII look-alike of an encoded word is decoded.             *)
Spaces(value) ==
    TrimBlanks([i \in DOMAIN value |-> IF value[i] = Char("tab") THEN Char(" ") ELSE value[i]])
SameText(sent, read) ==
    IF IsAscii(sent) THEN Spaces(Plain(read)) = Spaces(DecodeWords(Spaces(Plain(sent)))) ELSE read = sent

SameHeaders(m, n) ==
    LET custom(message0) == SelectSeq(message0.headers, LAMBDA h : h.name \notin MimeHeaderNames \cup {"Content-Disposition"})
    IN  /\ Len(custom(m)) = Len(custom(n))
        /\ \A i \in DOMAIN custom(m) :
             /\ custom(m)[i].name = custom(n)[i].name
             /\ ~Raw(custom(m)[i].value, NonAscii) =>
                  Spaces(custom(m)[i].value) = Spaces(custom(n)[i].value)

(* What a recipient reads in the header is what the sender wrote: folded,  *)
(* encoded and quoted values come back, lists keep their order and their   *)
(* groups, nobody on Bcc is named unless the caller asked for it.          *)
FieldsSurvive ==
    [][phase = "wire" /\ phase' = "message" /\ Rendered822 =>
         /\ message'.from = message.from /\ message'.sender = message.sender
         /\ message'.to = message.to /\ message'.cc = message.cc /\ message'.replyTo = message.replyTo
         /\ message'.bcc = IF options.bcc THEN message.bcc ELSE <<>>
         /\ Len(message'.subject) = Len(message.subject)
         /\ \A i \in DOMAIN message.subject : SameText(message.subject[i], message'.subject[i])
         /\ message'.date = [i \in DOMAIN message.date |-> FormatDate(message.date[i])]
         /\ message'.messageId = message.messageId
         /\ SameHeaders(message, message')]_vars
=============================================================================
