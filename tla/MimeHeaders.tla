---------------------------- MODULE MimeHeaders ----------------------------
(***************************************************************************)
(* The values of the MIME header fields, as the renderer spells them and   *)
(* as the parser reads them (email-message-wire, rfc822/mime_render.rs,    *)
(* attachment.rs, content_type.rs, mime_parse.rs), for a message and for   *)
(* each of its parts.                                                      *)
(*                                                                         *)
(* A value is pieces as any header value is.  A media type, a charset, a   *)
(* boundary, a transfer encoding, a message id, a date are one piece each; *)
(* a file name is spelled out, because it is text of the sender's.         *)
(***************************************************************************)
EXTENDS HeaderLines, ContentTypes, Shapes

CONSTANT FileNames      \* the file names that occur, each with its text: a function

ASSUME MimeHeadersAssumption == \A n \in DOMAIN FileNames : IsSeq(FileNames[n])

MimeFieldName == [type |-> "Content-Type", encoding |-> "Content-Transfer-Encoding",
                  disposition |-> "Content-Disposition", contentId |-> "Content-ID"]

(* A disposition is [kind, name]: name is "none" where no file is named.   *)
Disposition(kind, name) == [kind |-> kind, name |-> name]
NoDisposition == Disposition("none", "none")
Dispositions == [kind : {"inline", "attachment"}, name : DOMAIN FileNames \cup {"none"}]

-----------------------------------------------------------------------------
(* Writing. *)
Token(kind, value) == <<(<<kind, value>>)>>
NextParameter == <<Char(";"), Char(" ")>>

TypeText(type) ==
    Token("type", type.media)
    \o (IF type.charset = "none" THEN <<>> ELSE NextParameter \o <<Char(type.charset)>>)
    \o (IF type.boundary = NoBoundary THEN <<>> ELSE NextParameter \o Token("boundary", type.boundary))

(* A name with anything but printable ASCII in it is written byte by byte, *)
(* "%XX" where the byte is no letter.                                      *)
Unescaped == {"a", "b"}
PercentEncoded(text) ==
    FlattenSeq([i \in DOMAIN text |->
        IF text[i] \in Unescaped THEN <<Char(text[i])>>
        ELSE [j \in 1..(3 * Bytes(<<text[i]>>)) |-> <<"%XX", text[i]>>]])

FilenameParameter(text) ==
    IF \E i \in DOMAIN text : text[i] \in NonAscii \cup {"tab", "ctl", "nl"}
    THEN Token("parameter", "filename*") \o PercentEncoded(text)
    ELSE Token("parameter", "filename") \o QuotePhrase(text)

DispositionText(disposition) ==
    Token("disposition", disposition.kind)
    \o (IF disposition.name \in DOMAIN FileNames
        THEN NextParameter \o FilenameParameter(FileNames[disposition.name]) ELSE <<>>)

HeaderText(kind, value) ==
    CASE kind = "type" -> TypeText(value)
      [] kind = "disposition" -> DispositionText(value)
      [] OTHER -> Token(kind, value)

-----------------------------------------------------------------------------
(* Reading: an option, <<>> for a value that is not what the field holds.  *)
TokenOf(value, kind) ==
    LET token(trimmed) == IF Len(trimmed) = 1 /\ trimmed[1][1] = kind THEN <<trimmed[1][2]>> ELSE <<>>
    IN  token(TrimBlanks(value))

(* The last boundary and the last charset decide.  A charset is a          *)
(* character that neither separates parameters nor is a blank.             *)
TypeOf(value) ==
    LET boundaries == SelectSeq(value, LAMBDA piece : piece[1] = "boundary")
        charsets == SelectSeq(value, LAMBDA piece : piece[1] = "char" /\ piece # Char(";") /\ ~IsBlank(piece))
        type(trimmed) ==
          IF trimmed = <<>> \/ trimmed[1][1] # "type" THEN <<>>
          ELSE <<[media |-> trimmed[1][2],
                  boundary |-> IF boundaries = <<>> THEN NoBoundary ELSE Last(boundaries)[2],
                  charset |-> IF charsets = <<>> THEN "none" ELSE Last(charsets)[2][1]]>>
    IN  type(TrimBlanks(value))

DispositionOf(value) ==
    LET meant == {d \in Dispositions : DispositionText(d) = TrimBlanks(value)}
    IN  IF meant = {} THEN <<>> ELSE <<CHOOSE d \in meant : TRUE>>

Reading(kind, value) ==
    CASE kind = "type" -> TypeOf(value)
      [] kind = "disposition" -> DispositionOf(value)
      [] OTHER -> TokenOf(value, kind)
=============================================================================
