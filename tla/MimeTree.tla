------------------------------ MODULE MimeTree ------------------------------
(***************************************************************************)
(* MIME trees: how email-message-wire renders a body and its attachments   *)
(* (rfc822/mime_render.rs, attachment.rs) and how it reads a body back     *)
(* (rfc822/mime_parse.rs, content_type.rs).                                *)
(***************************************************************************)
EXTENDS TransferEncoding, MimeHeaders

CONSTANTS
    MaxDepth,           \* MAX_MULTIPART_DEPTH: 100 in the code
    MaxParts,           \* MAX_MULTIPART_PARTS: 1024 in the code
    MaxAttempts         \* MAX_AUTO_BOUNDARY_ATTEMPTS: 128 in the code

ASSUME MimeTreeAssumption ==
    /\ {MaxDepth, MaxParts} \subseteq Nat
    /\ MaxAttempts \in Nat \ {0}

NextBoundary(counter) == [base |-> "auto", num |-> counter, dashes |-> 0]
Open(b) == <<"--", b>>
Close(b) == <<"--", [b EXCEPT !.dashes = @ + 1]>>

Leaf(type, encoding, disposition, body) ==
    [kind |-> "leaf", type |-> type, encoding |-> encoding, disposition |-> disposition, body |-> body]
Multipart(type, boundary, parts) ==
    [kind |-> "multipart", type |-> type, boundary |-> boundary, parts |-> parts]

-----------------------------------------------------------------------------
(* Texts: line ends become CRLF, non-ASCII text goes out as base64, ASCII  *)
(* text with a line over the hard limit as quoted-printable.               *)
Canonical(text) ==
    FlattenSeq([i \in DOMAIN text |->
        CASE text[i] = O("cr") -> CRLF
          [] text[i] = O("lf") -> IF i > 1 /\ text[i - 1] = O("cr") THEN <<>> ELSE CRLF
          [] OTHER -> <<text[i]>>])

OverlongLine(body) ==
    \E i \in DOMAIN RawLines(body) : BodyWidth(StripCr(RawLines(body)[i])) > HardLineLen

TextLeaf(media, text) ==
    LET leaf(body) ==
          CASE ~IsAsciiText(text) ->
                 [kind |-> "leaf", body |-> EncodeBase64(body),
                  headers |-> <<(<<"type", [Type(media) EXCEPT !.charset = "utf-8"]>>), <<"encoding", "base64">>>>]
            [] IsAsciiText(text) /\ OverlongLine(body) ->
                 [kind |-> "leaf", body |-> EncodeQuotedPrintable(body),
                  headers |-> <<(<<"type", Type(media)>>), <<"encoding", "quoted-printable">>>>]
            [] OTHER -> [kind |-> "leaf", body |-> body, headers |-> <<(<<"type", Type(media)>>)>>]
    IN  leaf(Canonical(text))

Failed(error) == [kind |-> "error", error |-> error]
AnyFailed(parts) == \E i \in DOMAIN parts : parts[i].kind = "error"
FirstFailed(parts) == parts[Min({i \in DOMAIN parts : parts[i].kind = "error"})]

LeafHeadersWithoutDisposition(part) ==
    <<(<<"type", part.type>>)>>
    \o (IF part.encoding = "none" THEN <<>> ELSE <<(<<"encoding", part.encoding>>)>>)

LeafHeaders(part) ==
    <<(<<"type", part.type>>)>>
    \o (IF part.encoding = "none" THEN <<>> ELSE <<(<<"encoding", part.encoding>>)>>)
    \o (IF part.disposition = NoDisposition THEN <<>> ELSE <<(<<"disposition", part.disposition>>)>>)

RECURSIVE MimeToRenderPart(_, _)
MimeToRenderPart(part, depth) ==
    IF depth > MaxDepth THEN Failed("MimeNestingTooDeep")
    ELSE IF part.kind = "leaf"
    THEN [kind |-> "leaf", body |-> EncodeBody(part.body, part.encoding),
          headers |-> LeafHeaders(part)]
    ELSE LET node(parts) == IF AnyFailed(parts) THEN FirstFailed(parts) ELSE [part EXCEPT !.parts = parts]
         IN  node([i \in DOMAIN part.parts |-> MimeToRenderPart(part.parts[i], depth + 1)])

BodyToRootPart(body) ==
    CASE body.kind = "text" -> TextLeaf("text/plain", body.text)
      [] body.kind = "html" -> TextLeaf("text/html", body.html)
      [] body.kind = "both" -> Multipart(Type("multipart/alternative"), NoBoundary,
                                   <<TextLeaf("text/plain", body.text), TextLeaf("text/html", body.html)>>)
      [] body.kind = "mime" -> MimeToRenderPart(body.part, 0)

-----------------------------------------------------------------------------
(* Attachments: [type, filename, cid, inline, reference, content].  A file *)
(* name is "none" or one of FileNames; a content id "none", "ok" or one    *)
(* the message-id grammar refuses.                                         *)
IsRelated(attachment) == attachment.inline \/ attachment.cid # "none"
Partition(attachments) ==
    [inline |-> SelectSeq(attachments, IsRelated),
     regular |-> SelectSeq(attachments, LAMBDA a : ~IsRelated(a))]

AttachmentDisposition(a) == Disposition(IF IsRelated(a) THEN "inline" ELSE "attachment", a.filename)

AttachmentToMimePart(a) ==
    CASE a.reference -> Failed("UnsupportedAttachmentBody")
      [] ~a.reference /\ a.cid \notin {"none", "ok"} -> Failed("InvalidContentId")
      [] OTHER -> [kind |-> "leaf", body |-> EncodeBase64(a.content),
                   headers |-> <<(<<"type", a.type>>), <<"encoding", "base64">>,
                                 <<"disposition", AttachmentDisposition(a)>>>>
                               \o (IF a.cid = "none" THEN <<>> ELSE <<(<<"contentId", a.cid>>)>>)]

Wrapped(root, media, attachments) ==
    LET node(parts) == IF AnyFailed(parts) THEN FirstFailed(parts) ELSE Multipart(Type(media), NoBoundary, parts)
    IN  IF attachments = <<>> \/ root.kind = "error" THEN root
        ELSE node(<<root>> \o [i \in DOMAIN attachments |-> AttachmentToMimePart(attachments[i])])

-----------------------------------------------------------------------------
(* Rendering.  A result is [error, headers, body, counter]; counter        *)
(* numbers the boundaries the renderer makes up.                           *)
BoundaryError(b) ==
    CASE b.base = "" -> "EmptyMimeBoundary"
      [] b.base = "invalid" -> "InvalidMimeBoundary"
      [] OTHER -> "none"

ContainsDelimiterLine(body, b) ==
    \E i \in DOMAIN RawLines(body) :
        TrimLwspEnd(StripCr(RawLines(body)[i])) \in {<<Open(b)>>, <<Close(b)>>}

RECURSIVE Conflicts(_, _)
Conflicts(parts, b) ==
    \E i \in DOMAIN parts :
        IF parts[i].kind = "leaf" THEN ContainsDelimiterLine(parts[i].body, b)
        ELSE b \in {parts[i].boundary, parts[i].type.boundary} \/ Conflicts(parts[i].parts, b)

(* The boundary of a multipart node: its content type's, its own, or the   *)
(* first made-up one none of its parts contains.                           *)
ChooseBoundary(node, counter) ==
    LET declared == IF BoundaryOf(node.type) # NoBoundary THEN BoundaryOf(node.type) ELSE node.boundary
        errors == SelectSeq(<<BoundaryError(declared), BoundaryError(node.boundary)>>, LAMBDA e : e # "none")
        free == {k \in counter..(counter + MaxAttempts - 1) : ~Conflicts(node.parts, NextBoundary(k))}
    IN  CASE declared # NoBoundary /\ errors # <<>> -> [error |-> errors[1], boundary |-> declared, counter |-> counter]
          [] declared # NoBoundary /\ errors = <<>> /\ node.boundary \notin {NoBoundary, declared} ->
               [error |-> "MismatchedMimeBoundary", boundary |-> declared, counter |-> counter]
          [] declared # NoBoundary /\ errors = <<>> /\ node.boundary \in {NoBoundary, declared} ->
               [error |-> IF Conflicts(node.parts, declared) THEN "InvalidMimeBoundary" ELSE "none",
                boundary |-> declared, counter |-> counter]
          [] declared = NoBoundary /\ free = {} ->
               [error |-> "InvalidMimeBoundary", boundary |-> NoBoundary, counter |-> counter + MaxAttempts]
          [] OTHER -> [error |-> "none", boundary |-> NextBoundary(Min(free)), counter |-> Min(free) + 1]

Line(octet) == <<octet>> \o CRLF

(* The header of a part, folded as any header is: [error, body].           *)
PushPartHeaders(headers, soft) ==
    LET pushed == [i \in DOMAIN headers |->
                     PushHeaderLine(MimeFieldName[headers[i][1]], HeaderText(headers[i][1], headers[i][2]), soft)]
        failed == SelectSeq(pushed, LAMBDA push : push.error # "none")
        lines == FlattenSeq([i \in DOMAIN pushed |-> pushed[i].lines])
    IN  IF failed # <<>> THEN [error |-> failed[1].error, body |-> <<>>]
        ELSE [error |-> "none", body |-> FlattenSeq([i \in DOMAIN lines |-> Line(<<"field", lines[i]>>)])]

Rendered(error, headers, body, counter) == [error |-> error, headers |-> headers, body |-> body, counter |-> counter]

NothingHidden(partBody, b) == FALSE

(* A part already rendered is scanned again: only now are the delimiters   *)
(* of the multiparts inside it known.                                      *)
HidesDelimiter(partBody, b) == ContainsDelimiterLine(partBody, b)

RECURSIVE RenderPart(_, _, _, _)
RenderPart(node, counter, depth, soft) ==
    LET added(s, r, b, header) ==
          IF header.error # "none" THEN [s EXCEPT !.error = header.error]
          ELSE [s EXCEPT !.counter = r.counter, !.body = @ \o Line(Open(b)) \o header.body \o CRLF \o r.body \o CRLF]
        join(s, r, b) ==
          CASE r.error # "none" -> r
            [] r.error = "none" /\ HidesDelimiter(r.body, b) -> [s EXCEPT !.error = "InvalidMimeBoundary"]
            [] OTHER -> added(s, r, b, PushPartHeaders(r.headers, soft))
        children(b, first) ==
          FoldLeft(LAMBDA s, part : IF s.error # "none" THEN s ELSE join(s, RenderPart(part, s.counter, depth + 1, soft), b),
                   Rendered("none", <<>>, <<>>, first), node.parts)
        closed(s, b) ==
          IF s.error # "none" THEN s
          ELSE [s EXCEPT !.body = @ \o Line(Close(b)), !.headers = <<(<<"type", [node.type EXCEPT !.boundary = b]>>)>>]
        multipart(chosen) ==
          IF chosen.error # "none" THEN Rendered(chosen.error, <<>>, <<>>, chosen.counter)
          ELSE closed(children(chosen.boundary, chosen.counter), chosen.boundary)
    IN  CASE depth > MaxDepth -> Rendered("MimeNestingTooDeep", <<>>, <<>>, counter)
          [] depth <= MaxDepth /\ node.kind = "leaf" -> Rendered("none", node.headers, node.body, counter)
          [] depth <= MaxDepth /\ node.kind # "leaf" /\ ~IsMultipart(node.type) ->
               Rendered("InvalidMultipartContentType", <<>>, <<>>, counter)
          [] depth <= MaxDepth /\ node.kind # "leaf" /\ IsMultipart(node.type) /\ node.parts = <<>> ->
               Rendered("EmptyMultipartParts", <<>>, <<>>, counter)
          [] OTHER -> multipart(ChooseBoundary(node, counter))

(* [error, headers, body, mime]: a short ASCII text without attachments    *)
(* goes out bare, everything else as MIME.                                 *)
BuildRenderPayload(body, attachments, soft) ==
    LET root == Wrapped(Wrapped(BodyToRootPart(body), "multipart/related", Partition(attachments).inline),
                        "multipart/mixed", Partition(attachments).regular)
        mime(r) == [error |-> r.error, headers |-> r.headers, body |-> r.body, mime |-> TRUE]
        rendered(part) == IF part.kind = "error" THEN mime(Rendered(part.error, <<>>, <<>>, 0))
                          ELSE mime(RenderPart(part, 0, 0, soft))
    IN  IF attachments = <<>> /\ body.kind = "text" /\ IsAsciiText(body.text) /\ ~OverlongLine(Canonical(body.text))
        THEN [error |-> "none", headers |-> <<>>, body |-> Canonical(body.text), mime |-> FALSE]
        ELSE rendered(root)

-----------------------------------------------------------------------------
(* Parsing.  A part is [kind |-> "error"] when anything of it is wrong.    *)
SplitHeadersAndBody(octets) ==
    LET lf == O("lf")
        crlfs == {i \in 1..(Len(octets) - 3) : SubSeq(octets, i, i + 3) = CRLF \o CRLF}
        lfs == {i \in 1..(Len(octets) - 1) : SubSeq(octets, i, i + 1) = <<lf, lf>>}
        cut(i, n) == [headers |-> SubSeq(octets, 1, i - 1), body |-> SubSeq(octets, i + n, Len(octets))]
    IN  CASE IsPrefix(CRLF, octets) -> cut(1, 2)
          [] IsPrefix(<<lf>>, octets) -> cut(1, 1)
          [] ~IsPrefix(CRLF, octets) /\ ~IsPrefix(<<lf>>, octets) /\ crlfs # {} -> cut(Min(crlfs), 4)
          [] ~IsPrefix(CRLF, octets) /\ ~IsPrefix(<<lf>>, octets) /\ crlfs = {} /\ lfs # {} -> cut(Min(lfs), 2)
          [] OTHER -> [headers |-> octets, body |-> <<>>]

(* The header of a part is read as a message's is.  Octets that no field   *)
(* was written as make a line without a colon.                             *)
PartFields(octets) ==
    LET stripped(lines) == SelectSeq([i \in DOMAIN lines |-> StripCr(lines[i])], LAMBDA line : line # <<>>)
        asLine(line) == IF Len(line) = 1 /\ line[1][1] = "field" THEN line[1][2] ELSE [name |-> NoColon, value |-> <<>>]
        read(lines) == ParseHeaderLines([i \in DOMAIN lines |-> asLine(lines[i])])
    IN  read(stripped(RawLines(octets)))

(* What the fields of one kind say, each an option; the last one decides.  *)
Readings(fields, kind) ==
    LET named == SelectSeq(fields, LAMBDA field : field.name = MimeFieldName[kind])
    IN  [i \in DOMAIN named |-> Reading(kind, named[i].value)]
LastReading(readings, absent) == IF readings = <<>> THEN absent ELSE Last(readings)[1]
Unreadable(readings) == <<>> \in {readings[i] : i \in DOMAIN readings}

StripSeparatorNewline(octets) ==
    CASE IsSuffix(CRLF, octets) -> SubSeq(octets, 1, Len(octets) - 2)
      [] ~IsSuffix(CRLF, octets) /\ IsSuffix(<<O("lf")>>, octets) -> Front(octets)
      [] OTHER -> octets

PartsFull(parts) == Len(parts) >= MaxParts

SplitMultipartParts(body, b) ==
    LET finish(s) == IF ~s.inPart THEN s
                     ELSE IF PartsFull(s.parts) THEN [s EXCEPT !.full = TRUE]
                     ELSE [s EXCEPT !.parts = Append(@, StripSeparatorNewline(s.current)), !.current = <<>>]
        step(s, raw) ==
          LET line == TrimLwspEnd(StripCr(raw))
          IN  CASE s.closed \/ s.full -> s
                [] ~s.closed /\ ~s.full /\ line = <<Open(b)>> -> [finish(s) EXCEPT !.inPart = TRUE, !.opened = TRUE]
                [] ~s.closed /\ ~s.full /\ line = <<Close(b)>> -> [finish(s) EXCEPT !.closed = TRUE]
                [] OTHER -> IF s.inPart THEN [s EXCEPT !.current = @ \o raw \o <<O("lf")>>] ELSE s
        split(s) == [ok |-> s.closed /\ s.opened /\ ~s.full, parts |-> s.parts]
    IN  split(FoldLeft(step, [parts |-> <<>>, current |-> <<>>, inPart |-> FALSE, opened |-> FALSE,
                              closed |-> FALSE, full |-> FALSE], RawLines(body)))

RECURSIVE ParseMimePart(_, _), ParseMultipartBody(_, _, _)
ParseMultipartBody(body, type, depth) ==
    LET node(parts) == IF AnyFailed(parts) THEN FirstFailed(parts)
                       ELSE Multipart(WithoutBoundary(type), BoundaryOf(type), parts)
        parsed(split) == IF ~split.ok THEN Failed("MimeBodyParse")
                         ELSE node([i \in DOMAIN split.parts |-> ParseMimePart(split.parts[i], depth + 1)])
    IN  IF depth > MaxDepth \/ BoundaryOf(type) = NoBoundary THEN Failed("MimeBodyParse")
        ELSE parsed(SplitMultipartParts(body, BoundaryOf(type)))

ParseMimePart(part, depth) ==
    LET leaf(type, encoding, disposition, decoded) ==
          IF decoded.ok THEN Leaf(WithoutBoundary(type), encoding, disposition, decoded.octets) ELSE Failed("MimeBodyParse")
        typed(body, type, encoding, disposition) ==
          IF ~IsMultipart(type) THEN leaf(type, encoding, disposition, DecodeBody(body, encoding))
          ELSE IF MultipartEncodingAllowed(encoding) THEN ParseMultipartBody(body, type, depth)
          ELSE Failed("MimeBodyParse")
        meant(body, types, encodings, dispositions) ==
          IF Unreadable(encodings) \/ Unreadable(dispositions) \/ (types # <<>> /\ Last(types) = <<>>)
          THEN Failed("MimeBodyParse")
          ELSE typed(body, LastReading(types, Type("text/plain")), LastReading(encodings, "none"),
                     LastReading(dispositions, NoDisposition))
        read(body, header) ==
          IF ~header.ok THEN Failed("InvalidHeaderLine")
          ELSE meant(body, Readings(header.fields, "type"), Readings(header.fields, "encoding"),
                     Readings(header.fields, "disposition"))
        divided(split) == read(split.body, PartFields(split.headers))
    IN  IF depth > MaxDepth THEN Failed("MimeBodyParse") ELSE divided(SplitHeadersAndBody(part))

(* A text in a charset the parser knows; "l1" is one octet of UTF-8 read   *)
(* as a Latin-1 character.                                                 *)
DecodeText(octets, charset) ==
    IF charset # "iso-8859-1" THEN octets
    ELSE FlattenSeq([i \in DOMAIN octets |-> IF octets[i] = O("hi") THEN <<O("l1"), O("l1")>> ELSE <<octets[i]>>])

(* Field values are absent as the boundary and encoding of no field. *)
ParseBody(body, type, encoding) ==
    LET multipart(part) == IF part.kind = "error" THEN part ELSE [kind |-> "mime", part |-> part]
        single(decoded) ==
          CASE ~decoded.ok -> Failed("MimeBodyParse")
            [] decoded.ok /\ type.media = "text/plain" ->
                 [kind |-> "text", text |-> DecodeText(decoded.octets, type.charset)]
            [] decoded.ok /\ type.media = "text/html" ->
                 [kind |-> "html", html |-> DecodeText(decoded.octets, type.charset)]
            [] OTHER -> [kind |-> "mime", part |-> Leaf(WithoutBoundary(type), encoding, NoDisposition, decoded.octets)]
    IN  IF ~IsMultipart(type) THEN single(DecodeBody(body, encoding))
        ELSE IF MultipartEncodingAllowed(encoding) THEN multipart(ParseMultipartBody(body, type, 0))
        ELSE Failed("MimeBodyParse")
=============================================================================
