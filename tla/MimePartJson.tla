---------------------------- MODULE MimePartJson ----------------------------
(***************************************************************************)
(* MIME parts as JSON, and their JSON schema (email-message,               *)
(* mime_types.rs).                                                         *)
(***************************************************************************)
EXTENDS JsonSchemas

(* A part is [kind "leaf", type, encoding, disposition, body] or [kind     *)
(* "multipart", type, boundary, parts]; all but type, body and parts are   *)
(* options.                                                                *)
RECURSIVE WritePart(_), ReadPart(_)
WritePart(part) ==
    LET type == <<"content_type", Always(Text(part.type))>>
    IN  IF part.kind = "leaf"
        THEN Object(<<(<<"type", Always(Word("leaf"))>>), type, <<"content_transfer_encoding", Map(part.encoding, Text)>>,
                      <<"content_disposition", Map(part.disposition, Text)>>, <<"body", Always(WriteBytes(part.body))>>>>)
        ELSE Object(<<(<<"type", Always(Word("multipart"))>>), type, <<"boundary", Map(part.boundary, Text)>>,
                      <<"parts", Always(Arr([i \in DOMAIN part.parts |-> WritePart(part.parts[i])]))>>>>)

ReadPart(value) ==
    LET parts(list) == IF Is("arr", list) THEN All([i \in DOMAIN list[2] |-> ReadPart(list[2][i])]) ELSE <<>>
        typed(type) ==
          CASE Tag(value) = "leaf" ->
               All([kind |-> <<"leaf">>, type |-> type, body |-> Required(value, "body", ReadBytes),
                    encoding |-> Optional(value, "content_transfer_encoding", LAMBDA v : Parsed(v, TransferEncodingFromStr)),
                    disposition |-> Optional(value, "content_disposition", LAMBDA v : Parsed(v, ContentDispositionFromStr))])
          [] Tag(value) = "multipart" ->
               All([kind |-> <<"multipart">>, type |-> type, boundary |-> Optional(value, "boundary", ReadText),
                    parts |-> OrDefault(value, "parts", <<>>, parts)])
          [] OTHER -> <<>>
    IN  typed(Required(value, "content_type", LAMBDA v : Parsed(v, ContentTypeFromStr)))

RECURSIVE PartSchema(_)
PartSchema(value) ==
    LET strings(keys) == \A key \in keys : Property(value, key, StringSchema)
    IN  OneOf(<</\ ObjectOf({"type", "content_type", "body"}, value) /\ Tagged("leaf", value)
                /\ strings({"content_type", "content_transfer_encoding", "content_disposition", "body"}),
                /\ ObjectOf({"type", "content_type", "parts"}, value) /\ Tagged("multipart", value)
                /\ strings({"content_type", "boundary"}) /\ Several(value, "parts", PartSchema)>>)
=============================================================================
