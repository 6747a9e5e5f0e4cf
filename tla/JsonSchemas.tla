----------------------------- MODULE JsonSchemas -----------------------------
(***************************************************************************)
(* The JSON schemas the crates publish for a send request (schemars): what *)
(* a client, or an ingress that checks its input, is told a request looks  *)
(* like.  They are written by hand for most types, apart from the readers  *)
(* and writers of the same values.  A schema is what a validator makes of  *)
(* a value with it: properties that it does not list are not looked at,    *)
(* and of oneOf exactly one may match.                                     *)
(***************************************************************************)
EXTENDS QueuedSend

CONSTANT MimePartSchema(_)  \* of a MimePart, which is a tree: MimePartJson has it

StringSchema(value) == Is("str", value)
NonEmptyString(value) == Is("str", value) /\ Len(value[2]) \in 1..MaxNewtype
IntegerSchema(value) == Is("num", value)
Const(word, value) == WordOf(value) = word
Nullable(Schema(_), value) == value = Null \/ Schema(value)
ArrayOf(Schema(_), value) == Is("arr", value) /\ \A i \in DOMAIN value[2] : Schema(value[2][i])
OneOf(matches) == Cardinality({i \in DOMAIN matches : matches[i]}) = 1

(* An object has the keys that are required; what it has under a key is of *)
(* the schema of the property.                                             *)
ObjectOf(required, value) == Is("obj", value) /\ \A key \in required : Found(value, key) # {}
Property(value, key, Schema(_)) == \A i \in Found(value, key) : Schema(value[2][i][2])
Optionally(value, key, Schema(_)) == Property(value, key, LAMBDA v : Nullable(Schema, v))
Several(value, key, Schema(_)) == Property(value, key, LAMBDA v : ArrayOf(Schema, v))
Tagged(word, value) == Property(value, "type", LAMBDA v : Const(word, v))
AnyObject(value) == ObjectOf({}, value)

MailboxTypedSchema(value) ==
    /\ ObjectOf({"type", "email"}, value) /\ Tagged("mailbox", value)
    /\ Optionally(value, "name", StringSchema) /\ Property(value, "email", StringSchema)
MailboxSchema(value) ==
    IF StringCompat THEN OneOf(<<MailboxTypedSchema(value), StringSchema(value)>>) ELSE MailboxTypedSchema(value)

(* Mutant: a group must list its members. *)
MembersRequired(value) ==
    /\ ObjectOf({"type", "name", "members"}, value) /\ Tagged("group", value)
    /\ Property(value, "name", StringSchema) /\ Several(value, "members", MailboxSchema)

GroupTypedSchema(value) ==
    /\ ObjectOf({"type", "name"}, value) /\ Tagged("group", value)
    /\ Property(value, "name", StringSchema) /\ Several(value, "members", MailboxSchema)
AddressSchema(value) ==
    OneOf(<<MailboxTypedSchema(value), GroupTypedSchema(value), StringCompat /\ StringSchema(value)>>)

EnvelopeSchema(value) ==
    ObjectOf({}, value) /\ Optionally(value, "mail_from", StringSchema) /\ Several(value, "rcpt_to", StringSchema)
HeaderSchema(value) ==
    /\ ObjectOf({"name", "value"}, value)
    /\ Property(value, "name", StringSchema) /\ Property(value, "value", StringSchema)

AttachmentBodySchema(value) ==
    OneOf(<<ObjectOf({"type", "bytes"}, value) /\ Tagged("bytes", value) /\ Property(value, "bytes", StringSchema),
            /\ ObjectOf({"type", "reference"}, value) /\ Tagged("reference", value)
            /\ Property(value, "reference", StringSchema)>>)
DispositionSchema(value) == OneOf(<<Const("attachment", value), Const("inline", value)>>)
AttachmentSchema(value) ==
    /\ ObjectOf({"content_type", "body"}, value)
    /\ Optionally(value, "filename", StringSchema) /\ Property(value, "content_type", StringSchema)
    /\ Optionally(value, "content_id", StringSchema) /\ Property(value, "disposition", DispositionSchema)
    /\ Property(value, "body", AttachmentBodySchema)

BodySchema(value) ==
    OneOf(<<ObjectOf({"type", "text"}, value) /\ Tagged("text", value) /\ Property(value, "text", StringSchema),
            ObjectOf({"type", "html"}, value) /\ Tagged("html", value) /\ Property(value, "html", StringSchema),
            /\ ObjectOf({"type", "text", "html"}, value) /\ Tagged("text_and_html", value)
            /\ Property(value, "text", StringSchema) /\ Property(value, "html", StringSchema),
            ObjectOf({"type", "part"}, value) /\ Tagged("mime", value) /\ Property(value, "part", MimePartSchema)>>)

MessageSchema(value) ==
    /\ ObjectOf({"body"}, value) /\ Property(value, "body", BodySchema)
    /\ \A key \in {"from", "sender"} : Optionally(value, key, MailboxSchema)
    /\ \A key \in {"to", "cc", "bcc", "reply_to"} : Several(value, key, AddressSchema)
    /\ \A key \in {"subject", "date", "message_id"} : Optionally(value, key, StringSchema)
    /\ Several(value, "headers", HeaderSchema) /\ Several(value, "attachments", AttachmentSchema)

DurationSchema(value) ==
    /\ ObjectOf({"secs", "nanos"}, value)
    /\ Property(value, "secs", IntegerSchema) /\ Property(value, "nanos", IntegerSchema)
SendOptionsSchema(value) ==
    /\ ObjectOf({}, value) /\ Property(value, "transport_options", AnyObject)
    /\ Optionally(value, "envelope", EnvelopeSchema) /\ Optionally(value, "timeout", DurationSchema)
    /\ Optionally(value, "idempotency_key", NonEmptyString) /\ Optionally(value, "correlation_id", NonEmptyString)
SendRequestSchema(value) ==
    /\ ObjectOf({"transport", "message"}, value) /\ Property(value, "transport", NonEmptyString)
    /\ Property(value, "message", MessageSchema) /\ Property(value, "options", SendOptionsSchema)

ASSUME MimePartSchemaAssumption ==
    \A s \in Scenarios : s.foreign = <<>> /\ s.message.body.kind = "mime" =>
        MimePartSchema(WriteMimePart(s.message.body.part))

(* A posted request is one the published JSON schema of SendRequest admits *)
(* (schemars implementations next to each serde one).  Dates are left out: *)
(* their schema says string, and they are written as an array.             *)
SchemaAdmitsRequests ==
    (body # <<>> /\ ~IsForeign /\ scenario.message.date = <<>>) => SendRequestSchema(body[1].json)
=============================================================================
