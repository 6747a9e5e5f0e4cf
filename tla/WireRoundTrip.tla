---------------------------- MODULE WireRoundTrip ----------------------------
(***************************************************************************)
(* Bodies and attachments go over the wire with their message, and come    *)
(* back: RenderPayload is BuildRenderPayload, ReadBody is ParseBody.       *)
(***************************************************************************)
EXTENDS WireFields, MimeTree

(* A custom MIME header of a bare text message goes out as it is, and      *)
(* changes how the body is read: such messages are left to their authors.  *)
OwnMimeHeaders(m) ==
    \E i \in DOMAIN m.headers : m.headers[i].name \in {"Content-Type", "Content-Transfer-Encoding"}

RECURSIVE MisusedMultipart(_), TooManyParts(_)
MisusedMultipart(part) ==       \* a leaf that calls itself a multipart
    IF part.kind = "leaf" THEN IsMultipart(part.type)
    ELSE \E i \in DOMAIN part.parts : MisusedMultipart(part.parts[i])
TooManyParts(part) ==
    /\ part.kind = "multipart"
    /\ Len(part.parts) > MaxParts \/ \E i \in DOMAIN part.parts : TooManyParts(part.parts[i])

(* What an author says of a body against its shape.                        *)
CallsItselfMultipart(m) ==
    \/ m.body.kind = "mime" /\ MisusedMultipart(m.body.part)
    \/ \E i \in DOMAIN m.attachments : IsMultipart(m.attachments[i].type)

(* The parser has limits that the renderer has not: on the bytes of a wire *)
(* and of an address field, and on the parts of a multipart.               *)
TooLongToRead(w) ==
    LET fields == ParseHeaderLines(w.lines).fields
    IN  \/ WireSize(w) > MaxInput
        \/ \E i \in DOMAIN fields :
              fields[i].name \in DOMAIN FieldOf /\ Length(EscapeQuotedWords(fields[i].value)) > MaxAddressInput
TooManyToRead(m) ==
    \/ Len(Partition(m.attachments).inline) + 1 > MaxParts
    \/ Len(Partition(m.attachments).regular) + 1 > MaxParts
    \/ m.body.kind = "mime" /\ TooManyParts(m.body.part)

(* What render_rfc822 writes parse_rfc822 reads, but for its limits: an    *)
(* input over 16 MiB (MAX_INPUT_BYTES), an address field over 64 KiB       *)
(* (MAX_ADDRESS_INPUT_BYTES), a multipart of more than 1024 parts          *)
(* (MAX_MULTIPART_PARTS); and but for what an author says of the body      *)
(* against its shape: MIME headers of one's own, a leaf or an attachment   *)
(* that calls itself a multipart.  The two sides have the same limit on    *)
(* depth, and no folding, encoding, file name or boundary that the         *)
(* renderer chooses is one the parser stumbles over.                       *)
RenderedParses ==
    [][phase = "wire" /\ phase' = "rejected" /\ Rendered822 =>
         \/ TooLongToRead(wire)
         \/ TooManyToRead(message)
         \/ OwnMimeHeaders(message)
         \/ CallsItselfMultipart(message)]_vars

RECURSIVE Leaves(_)
Leaves(part) ==
    IF part.kind = "leaf" THEN <<(<<part.type.media, part.body, part.disposition>>)>>
    ELSE FlattenSeq([i \in DOMAIN part.parts |-> Leaves(part.parts[i])])
TextLeafOf(media, text) == <<media, Canonical(text), NoDisposition>>

(* A body that is one leaf and has no attachments beside it is the         *)
(* message: its disposition is read as a field of the message, and of a    *)
(* text the characters are read.                                           *)
LoneLeaf(part) ==
    IF part.type.media \in {"text/plain", "text/html"}
    THEN TextLeafOf(part.type.media, DecodeText(part.body, part.type.charset))
    ELSE <<part.type.media, part.body, NoDisposition>>
BodyLeaves(m) ==
    CASE m.body.kind = "text" -> <<TextLeafOf("text/plain", m.body.text)>>
      [] m.body.kind = "html" -> <<TextLeafOf("text/html", m.body.html)>>
      [] m.body.kind = "both" -> <<TextLeafOf("text/plain", m.body.text), TextLeafOf("text/html", m.body.html)>>
      [] m.body.kind = "mime" ->
           IF m.body.part.kind = "leaf" /\ m.attachments = <<>> THEN <<LoneLeaf(m.body.part)>> ELSE Leaves(m.body.part)
AttachmentLeaf(a) == <<a.type.media, a.content, AttachmentDisposition(a)>>
AllLeaves(m) ==
    LET parted == Partition(m.attachments)
        attached == parted.inline \o parted.regular
    IN  BodyLeaves(m) \o [i \in DOMAIN attached |-> AttachmentLeaf(attached[i])]

(* Every text and every attachment comes back octet for octet, the inline  *)
(* ones before the others, in their order, each with its disposition and   *)
(* its file name: no transfer encoding, line end or delimiter eats or adds *)
(* an octet, no folding or quoting a character of a name.                  *)
BodySurvives ==
    [][phase = "wire" /\ phase' = "message" /\ Rendered822 /\ ~OwnMimeHeaders(message) /\ ~CallsItselfMultipart(message) =>
         AllLeaves(message') = AllLeaves(message)]_vars

(* The documentation of parse_rfc822 says that encoded words of a known    *)
(* charset, in the B and in the Q encoding, are decoded: none of them is   *)
(* left in a subject.                                                      *)
EncodedWordsDecoded ==
    phase = "message" /\ hops > 0 =>
        \A i \in DOMAIN message.subject : \A j \in DOMAIN message.subject[i] :
            message.subject[i][j] \notin {"look", "qlook", "empty"}

(* A subject that goes out as plain ASCII and holds text in the shape of   *)
(* an encoded word is decoded by the next reader.                          *)
PeelsWord(subject) == IsAscii(subject) /\ \E i \in DOMAIN subject : subject[i] \in DOMAIN Lookalikes

(* A message that was parsed once is settled in everything but its Bcc and *)
(* its MIME headers, which the renderer writes as it is told, the blanks   *)
(* of its subject, and a subject that still has the shape of an encoded    *)
(* word, which loses one layer with each hop: whoever renders and parses   *)
(* it again reads the same addresses, date, id and body, down to the tree  *)
(* of its parts with their types, boundaries, encodings and dispositions.  *)
Settled ==
    [][phase = "wire" /\ phase' = "message" /\ hops >= 1 /\ ~OwnMimeHeaders(message) =>
         /\ message'.body.kind = message.body.kind
         /\ IF message.body.kind = "mime" THEN message'.body = message.body
                                         ELSE AllLeaves(message') = AllLeaves(message)
         /\ \A field \in {"from", "sender", "to", "cc", "replyTo", "date", "messageId"} :
              message'[field] = message[field]
         /\ options.bcc => message'.bcc = message.bcc
         /\ Len(message'.subject) = Len(message.subject)
         /\ \A i \in DOMAIN message.subject :
              PeelsWord(message.subject[i])
                \/ Spaces(Plain(message'.subject[i])) = Spaces(Plain(message.subject[i]))]_vars
=============================================================================
