-------------------------- MODULE ProviderPayloads --------------------------
(***************************************************************************)
(* What the transports a worker can hold make of a message: the payloads   *)
(* of email-transport-resend and email-transport-cloudflare, the record of *)
(* email-transport-test, and the report each returns (email-transport,     *)
(* transport.rs).                                                          *)
(*                                                                         *)
(* A payload is [from, to, cc, bcc, replyTo, subject, text, html, headers, *)
(* attachments, tags, template, key, timeout]; headers are a function from *)
(* names to values.  What a provider has no field for is empty.            *)
(***************************************************************************)
EXTENDS TransportOptions

Wrong(error) == [error |-> error, payload |-> <<>>]
Right(payload) == [error |-> "none", payload |-> payload]
FirstOf(checks) ==
    LET failed == SelectSeq(checks, LAMBDA check : check[1]) IN IF failed = <<>> THEN "none" ELSE failed[1][2]

(* The Capabilities of a transport: the set of those it has. *)
Capabilities(provider) ==
    CASE provider = "resend" ->
           {"structured_send", "custom_headers", "attachments", "inline_attachments", "idempotency_key", "timeout"}
      [] provider = "cloudflare" -> {"structured_send", "custom_headers", "attachments", "inline_attachments"}
      [] provider = "memory" ->
           {"structured_send", "custom_envelope", "custom_headers", "attachments", "inline_attachments",
            "idempotency_key", "timeout"}

AcceptedRecipientEmails(m) == RecipientEmails(m.to) \o RecipientEmails(m.cc) \o RecipientEmails(m.bcc)
(* Mutant: any envelope is reported as if it had been used. *)
IgnoresCapability(m, o, capabilities) ==
    IF o.envelope # <<>> THEN o.envelope[1].rcptTo ELSE AcceptedRecipientEmails(m)

StructuredAcceptedFor(m, o, capabilities) ==
    IF "custom_envelope" \in capabilities /\ o.envelope # <<>> THEN o.envelope[1].rcptTo
    ELSE AcceptedRecipientEmails(m)

SendReport(provider, id, accepted) == [provider |-> provider, id |-> id, accepted |-> accepted]

(* Mutant: the members of a group get nothing. *)
GroupsForgotten(addresses) == SelectSeq(addresses, LAMBDA a : a.kind = "mailbox")

CollectMailboxes(addresses) == FlattenSeq([i \in DOMAIN addresses |-> Mailboxes(addresses[i])])
Recipients(m) == CollectMailboxes(m.to) \o CollectMailboxes(m.cc) \o CollectMailboxes(m.bcc)

NonEmpty(text) == IF text = <<>> THEN <<>> ELSE <<text>>
TextOf(body) == IF body.kind \in {"text", "both"} THEN NonEmpty(body.text) ELSE <<>>
HtmlOf(body) == IF body.kind \in {"html", "both"} THEN NonEmpty(body.html) ELSE <<>>

SubjectOf(m) == IF m.subject = <<>> THEN <<>> ELSE m.subject[1]

HasReference(m) == \E i \in DOMAIN m.attachments : m.attachments[i].reference

-----------------------------------------------------------------------------
(* Resend.  Sender, Date and Message-ID go in as headers, before the       *)
(* custom ones; of two headers with one spelling the last one counts.      *)
NoHeaders == [name \in {} |-> <<>>]

StandardMessageHeaders(m) ==
    [i \in DOMAIN m.sender |-> [name |-> "Sender", value |-> DisplayMailbox(m.sender[i])]]
    \o [i \in DOMAIN m.date |-> [name |-> "Date", value |-> <<(<<"date", FormatDate(m.date[i])>>)>>]]
    \o [i \in DOMAIN m.messageId |-> [name |-> "Message-ID", value |-> Plain(m.messageId[i])]]

CollectHeaders(m) ==
    LET headers == StandardMessageHeaders(m) \o m.headers
        after[i \in 0..Len(headers)] ==
          IF i = 0 THEN NoHeaders ELSE Insert(after[i - 1], headers[i].name, headers[i].value)
    IN  after[Len(headers)]

ResendAttachment(a) ==
    [filename |-> a.filename, type |-> a.type, cid |-> a.cid, inline |-> FALSE, content |-> a.content]

BuildEmailOptions(m, o) ==
    LET options == Get(o.slots, "ResendSendOptions")
        resend == IF options = <<>> THEN ResendSendOptionsNew ELSE options[1]
        error == FirstOf(<<
          <<m.from = <<>>, "Validation">>,
          <<Recipients(m) = <<>>, "Validation">>,
          <<m.body.kind = "mime", "UnsupportedFeature">>,
          <<m.date # <<>> /\ FormatDate(m.date[1]) = "none", "Validation">>,
          <<HasReference(m), "UnsupportedFeature">>,
          <<TextOf(m.body) = <<>> /\ HtmlOf(m.body) = <<>> /\ resend.template = <<>>, "Validation">>>>)
    IN  IF error # "none" THEN Wrong(error)
        ELSE Right([from |-> m.from[1], to |-> CollectMailboxes(m.to), cc |-> CollectMailboxes(m.cc),
                    bcc |-> CollectMailboxes(m.bcc), replyTo |-> CollectMailboxes(m.replyTo),
                    subject |-> SubjectOf(m), text |-> TextOf(m.body), html |-> HtmlOf(m.body),
                    headers |-> CollectHeaders(m),
                    attachments |-> [i \in DOMAIN m.attachments |-> ResendAttachment(m.attachments[i])],
                    tags |-> resend.tags, template |-> resend.template, key |-> o.key, timeout |-> o.timeout])

-----------------------------------------------------------------------------
(* Cloudflare.  Names that differ only in case are one name, spelled as it *)
(* came first.  "x" stands for the names in lower case.                    *)
FoldName(name) == IF name = "x" THEN "X" ELSE name

(* Mutant: two spellings of one name are two properties. *)
CaseMatters(map, name) == name

Spelled(map, name) ==
    LET same == {n \in DOMAIN map : FoldName(n) = FoldName(name)}
    IN  IF same = {} THEN name ELSE CHOOSE n \in same : TRUE
FoldHeaders(headers) ==
    LET after[i \in 0..Len(headers)] ==
          IF i = 0 THEN NoHeaders ELSE Insert(after[i - 1], Spelled(after[i - 1], headers[i].name), headers[i].value)
    IN  after[Len(headers)]

(* A file name is made up where there is none; only an inline attachment   *)
(* keeps its content id.                                                   *)
MapAttachment(a, position) ==
    [filename |-> CASE a.filename # "none" -> a.filename
                    [] a.filename = "none" /\ a.inline -> a.cid
                    [] OTHER -> <<"attachment", position>>,
     type |-> a.type, cid |-> IF a.inline THEN a.cid ELSE "none", inline |-> a.inline, content |-> a.content]

AttachmentError(a) ==
    CASE a.reference -> "UnsupportedFeature"
      [] ~a.reference /\ a.inline /\ a.cid = "none" -> "Validation"
      [] OTHER -> "none"

BuildPayload(m) ==
    LET replyTo == CollectMailboxes(m.replyTo)
        checks == <<
          <<m.from = <<>>, "Validation">>,
          <<Recipients(m) = <<>>, "Validation">>,
          <<Len(replyTo) > 1, "UnsupportedFeature">>,
          <<m.body.kind = "mime", "UnsupportedFeature">>,
          <<TextOf(m.body) = <<>> /\ HtmlOf(m.body) = <<>>, "Validation">>>>
        attachments == [i \in DOMAIN m.attachments |->
                          <<AttachmentError(m.attachments[i]) # "none", AttachmentError(m.attachments[i])>>]
        error == FirstOf(checks \o attachments)
    IN  IF error # "none" THEN Wrong(error)
        ELSE Right([from |-> m.from[1], to |-> CollectMailboxes(m.to), cc |-> CollectMailboxes(m.cc),
                    bcc |-> CollectMailboxes(m.bcc), replyTo |-> replyTo, subject |-> SubjectOf(m),
                    text |-> TextOf(m.body), html |-> HtmlOf(m.body), headers |-> FoldHeaders(m.headers),
                    attachments |-> [i \in DOMAIN m.attachments |-> MapAttachment(m.attachments[i], i)],
                    tags |-> <<>>, template |-> <<>>, key |-> <<>>, timeout |-> <<>>])

(* The object handed to the binding has no empty lists, which a Worker of  *)
(* Cloudflare refuses, and no binding is there on another target.          *)
BindingMessage(payload) ==
    [field \in {f \in {"from", "to", "cc", "bcc", "replyTo", "subject", "text", "html", "headers", "attachments"} :
                  f \in {"from", "subject"} \/ payload[f] # <<>>} |-> payload[field]]

-----------------------------------------------------------------------------
(* The memory transport keeps the message, its envelope and the controls.  *)
Capture(m, o) ==
    Right([envelope |-> o.envelope, message |-> m, timeout |-> o.timeout, key |-> o.key, correlation |-> o.correlation])

(* What a provider is handed for a message. *)
Build(provider, m, o) ==
    CASE provider = "resend" -> BuildEmailOptions(m, o)
      [] provider = "cloudflare" -> LET built == BuildPayload(m)
                                    IN IF built.error = "none" THEN Right(BindingMessage(built.payload)) ELSE built
      [] provider = "memory" -> Capture(m, o)
=============================================================================
