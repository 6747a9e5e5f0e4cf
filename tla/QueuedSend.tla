----------------------------- MODULE QueuedSend -----------------------------
(***************************************************************************)
(* One message on its way through a queue: a caller's RestateTransport     *)
(* (email-transport-restate) writes it as JSON with its options, the       *)
(* Email.send handler of a worker (restate-email) reads it and hands it to *)
(* the transport its key selects, wrapped as restate-email-endpoint wraps  *)
(* it; the caller gets the report of the queue or the one of the worker.   *)
(* Retries, crashes and keys are RestateDelivery's; here it is the content *)
(* that may not change on the way.                                         *)
(*                                                                         *)
(* A scenario is one caller with one worker: [foreign, transport, message, *)
(* options, mode, customEnvelope, defaults, types, catchAll, routes].      *)
(* foreign, if there is one, is a [json, trailing] of another program, and *)
(* the caller is not used.  The worker has the default option registry if  *)
(* defaults, then registered types; routes are <<key, transport>>, a       *)
(* transport [provider, resolves].                                         *)
(***************************************************************************)
EXTENDS ProviderPayloads

CONSTANT Scenarios

VARIABLES
    scenario,
    body,       \* what was posted: an option of [json, trailing]
    header,     \* the idempotency-key header posted with it, an option
    request,    \* what the handler decoded: an option of an option
    outcome,    \* what became of it in the worker: an option of [error, report, payload]
    answer      \* what send returned to the caller: an option of [error, report]

vars == <<scenario, body, header, request, outcome, answer>>

IsForeign == scenario.foreign # <<>>
RestateOptions == Get(scenario.options.slots, "RestateSendOptions")
Mode ==
    IF RestateOptions # <<>> /\ RestateOptions[1].mode # <<>> THEN RestateOptions[1].mode[1] ELSE scenario.mode
Delayed == RestateOptions # <<>> /\ RestateOptions[1].delay # <<>>

(* What a caller can hold. *)
IsSendRequest(r) ==
    /\ IsParsed(r.transport, NewtypeFromStr) /\ IsSendOptions(r.options)
    /\ IsMessage(r.message) /\ ValidateBasic(r.message) = "none"

ASSUME ScenariosAssumption ==
    \A s \in Scenarios :
        /\ s.foreign = <<>> => IsSendRequest(s)
        /\ s.foreign # <<>> => s.foreign[1].json \in JsonValues
        /\ IsSeq(s.types) /\ IsSeq(s.routes) /\ (s.catchAll => s.routes # <<>>)
        /\ \A i \in DOMAIN s.routes : s.routes[i][2].provider \in {"resend", "cloudflare", "memory"}

WriteSendRequest(r) ==
    Map(WriteSendOptions(r.options), LAMBDA options :
          Object(<<(<<"transport", Always(Text(r.transport))>>), <<"message", Always(WriteMessage(r.message))>>,
                   <<"options", Always(options)>>>>))

WriteReport(report) ==
    LET id == IF report.id = <<>> THEN Null ELSE Word(report.id[1])
        fields == Object(<<(<<"provider", Always(Word(report.provider))>>), <<"provider_message_id", Always(id)>>,
                           <<"accepted", Always(Many(report.accepted, WriteEmail))>>>>)
    IN  Object(<<(<<"report", Always(fields)>>)>>)
ReadReport(value) ==
    LET fields(report) == All([provider |-> Required(report, "provider", ReadWord),
                               id |-> Optional(report, "provider_message_id", ReadWord),
                               accepted |-> Required(report, "accepted", LAMBDA v : ReadMany(v, ReadEmail))])
    IN  Required(value, "report", LAMBDA v : IF Is("obj", v) THEN fields(v) ELSE <<>>)

-----------------------------------------------------------------------------
(* The worker. *)
OptionRegistry(defaults, types) ==
    LET start == IF defaults THEN RegisterTransportOptions(NewRegistry).registry ELSE NewRegistry
        after[i \in 0..Len(types)] == IF i = 0 THEN start ELSE Register(after[i - 1], types[i]).registry
    IN  after[Len(types)]

(* Unknown fields and unknown providers are skipped; a field that comes    *)
(* twice, or null for the options, is an error.                            *)
ReadSendRequest(registry, value) ==
    IF ~Is("obj", value) THEN <<>>
    ELSE All([transport |-> Required(value, "transport", LAMBDA v : Parsed(v, NewtypeFromStr)),
              message |-> Required(value, "message", ReadOutbound),
              options |-> OrDefault(value, "options", NoSendOptions, LAMBDA v : ReadSendOptions(registry, TRUE, v))])
Deserialize(registry, posted) ==
    LET read == ReadSendRequest(registry, posted.json) IN IF posted.trailing THEN <<>> ELSE read

(* The endpoint's configuration, key by key; a key inserted again replaces. *)
CreateRegistry(routes) ==
    [key \in {routes[i][1] : i \in DOMAIN routes} |-> routes[Max({i \in DOMAIN routes : routes[i][1] = key})][2]]
ResolveTransport(s, key) ==
    LET routes == CreateRegistry(s.routes)
    IN  CASE s.catchAll -> <<s.routes[1][2]>>
          [] ~s.catchAll /\ key \in DOMAIN routes -> <<routes[key]>>
          [] OTHER -> <<>>

(* What AttachmentPreparation does in detail: bytes for every reference.   *)
WithAttachments(m) ==
    [m EXCEPT !.attachments = [i \in DOMAIN @ |-> [@[i] EXCEPT !.reference = FALSE]]]

ProviderMessageId(provider) == IF provider = "memory" THEN <<>> ELSE <<"id">>

SendVia(transport, r) ==
    LET message == IF transport.resolves THEN WithAttachments(r.message) ELSE r.message
        built == Build(transport.provider, message, r.options)
        accepted == StructuredAcceptedFor(message, r.options, Capabilities(transport.provider))
    IN  IF built.error # "none" THEN [error |-> built.error, report |-> <<>>, payload |-> <<>>]
        ELSE [error |-> "none", payload |-> <<built.payload>>,
              report |-> <<SendReport(transport.provider, ProviderMessageId(transport.provider), accepted)>>]

-----------------------------------------------------------------------------
Init ==
    /\ scenario \in Scenarios
    /\ body = <<>> /\ header = <<>> /\ request = <<>> /\ outcome = <<>> /\ answer = <<>>

(* Refused before anything is posted. *)
InvokeRefused(error) ==
    /\ ~IsForeign /\ body = <<>> /\ answer = <<>>
    /\ \/ error = "Validation" /\ Mode = "sent" /\ Delayed
       \/ error = "Internal" /\ ~(Mode = "sent" /\ Delayed) /\ WriteSendRequest(scenario) = <<>>
    /\ answer' = <<[error |-> error, report |-> <<>>]>>
    /\ UNCHANGED <<scenario, body, header, request, outcome>>

Invoke ==
    /\ ~IsForeign /\ body = <<>> /\ answer = <<>>
    /\ ~(Mode = "sent" /\ Delayed)
    /\ WriteSendRequest(scenario) # <<>>
    /\ body' = <<[json |-> WriteSendRequest(scenario)[1], trailing |-> FALSE]>>
    /\ header' = scenario.options.key
    /\ UNCHANGED <<scenario, request, outcome, answer>>

(* Another program posts a request it wrote itself. *)
Arrive ==
    /\ IsForeign /\ body = <<>>
    /\ body' = scenario.foreign
    /\ UNCHANGED <<scenario, header, request, outcome, answer>>

Handle ==
    /\ body # <<>> /\ request = <<>>
    /\ request' = <<Deserialize(OptionRegistry(scenario.defaults, scenario.types), body[1])>>
    /\ outcome' = IF request'[1] = <<>> THEN <<[error |-> "InvalidRequest", report |-> <<>>, payload |-> <<>>]>>
                  ELSE outcome
    /\ UNCHANGED <<scenario, body, header, answer>>

SendRequest ==
    /\ request # <<>> /\ outcome = <<>>
    /\ LET found == ResolveTransport(scenario, request[1][1].transport)
       IN  outcome' = <<IF found = <<>> THEN [error |-> "UnknownKey", report |-> <<>>, payload |-> <<>>]
                        ELSE SendVia(found[1], request[1][1])>>
    /\ UNCHANGED <<scenario, body, header, request, answer>>

(* The queue answers as soon as it has the request, before or after the    *)
(* worker: the recipients are those of the capabilities the caller asserts.*)
AnswerQueued ==
    /\ ~IsForeign /\ body # <<>> /\ answer = <<>> /\ Mode = "queued"
    /\ LET asserted == IF scenario.customEnvelope THEN {"custom_envelope"} ELSE {}
           accepted == StructuredAcceptedFor(scenario.message, scenario.options, asserted)
       IN  answer' = <<[error |-> "none", report |-> <<SendReport("restate", <<"invocation">>, accepted)>>]>>
    /\ UNCHANGED <<scenario, body, header, request, outcome>>

AnswerSent ==
    /\ ~IsForeign /\ answer = <<>> /\ Mode = "sent" /\ outcome # <<>>
    /\ answer' = <<IF outcome[1].error # "none" THEN [error |-> outcome[1].error, report |-> <<>>]
                   ELSE [error |-> "none", report |-> ReadReport(WriteReport(outcome[1].report[1]))]>>
    /\ UNCHANGED <<scenario, body, header, request, outcome>>

Next ==
    \/ \E error \in {"Validation", "Internal"} : InvokeRefused(error)
    \/ Invoke \/ Arrive \/ Handle \/ SendRequest \/ AnswerQueued \/ AnswerSent

Spec == Init /\ [][Next]_vars

-----------------------------------------------------------------------------
Registry == OptionRegistry(scenario.defaults, scenario.types)
Decoded == request # <<>> /\ request[1] # <<>>
Sent == outcome # <<>> /\ outcome[1].error = "none"

(* A type of the caller's whose key belongs to another type in the worker. *)
Claimed(type) == ProviderKey(type) \in DOMAIN Registry /\ Registry[ProviderKey(type)] # type

(* The worker reads every request a caller posts (RestateTransport::invoke, *)
(* SendRequestSeed) as what the caller meant: the same key, message,       *)
(* envelope, timeout and ids, and of the options those of the types it     *)
(* registered.  The key in the header is the one in the payload.           *)
ReadAsMeant ==
    LET slots == scenario.options.slots
        known == {type \in DOMAIN slots : ProviderKey(type) \in DOMAIN Registry}
        meant == [transport |-> scenario.transport, message |-> scenario.message,
                  options |-> [scenario.options EXCEPT !.slots = [type \in known |-> slots[type]]]]
    IN  (request # <<>> /\ ~IsForeign /\ ~\E type \in DOMAIN slots : Claimed(type)) =>
          request[1] = <<meant>> /\ header = meant.options.key

(* What the worker read it could post again, from whomever it came, and    *)
(* lose nothing.                                                           *)
WorkerSeesRequest ==
    /\ ReadAsMeant
    /\ Decoded => Map(WriteSendRequest(request[1][1]),
                      LAMBDA json : ReadSendRequest(Registry, json)) = <<request[1]>>

(* Whom a payload reaches. *)
PayloadField(payload, field) == IF field \in DOMAIN payload THEN payload[field] ELSE <<>>
Reached(provider, payload) ==
    LET lists == IF provider = "memory" THEN payload.message ELSE payload
        all == PayloadField(lists, "to") \o PayloadField(lists, "cc") \o PayloadField(lists, "bcc")
    IN  IF provider = "memory" /\ payload.envelope # <<>> THEN payload.envelope[1].rcptTo ELSE RecipientEmails(all)

(* Whoever the message that was decoded names, in To, Cc, Bcc or in a      *)
(* group of them, is in the payload of the provider and in the report; an  *)
(* envelope takes their place only where the transport can use it          *)
(* (build_email_options, build_payload, structured_accepted_for).          *)
EveryoneAddressed ==
    Sent => LET report == outcome[1].report[1]
                r == request[1][1]
                meant == IF report.provider = "memory" /\ r.options.envelope # <<>> THEN r.options.envelope[1].rcptTo
                         ELSE DeriveEnvelope(r.message).rcptTo
            IN  Reached(report.provider, outcome[1].payload[1]) = meant /\ report.accepted = meant

(* The report a queued send returned before the worker ran names whom the  *)
(* worker's transport then reached, if the caller asserted its capability  *)
(* for envelopes rightly; the report of a sent one is the worker's.        *)
ReportsAgree ==
    (Sent /\ answer # <<>> /\ answer[1].error = "none") =>
        LET worker == outcome[1].report[1]
            caller == answer[1].report
        IN  IF Mode = "sent" THEN caller = outcome[1].report
            ELSE scenario.customEnvelope = (worker.provider = "memory") =>
                   caller[1].accepted = Reached(worker.provider, outcome[1].payload[1])

(* No request is posted with two options under one provider key            *)
(* (TransportOptions::serialize), and in the worker an option has the type *)
(* that registered its key first (TransportOptionRegistry::register).      *)
OneOptionPerKey ==
    LET options == Value(body[1].json, "options")
        types == (IF scenario.defaults THEN <<"ResendSendOptions">> ELSE <<>>) \o scenario.types
        first(key) == types[Min({i \in DOMAIN types : ProviderKey(types[i]) = key})]
    IN  /\ body # <<>> /\ ~IsForeign =>
             \A field \in Found(options, "transport_options") : \A j, k \in DOMAIN options[2][field][2][2] :
               options[2][field][2][2][j][1] = options[2][field][2][2][k][1] => j = k
        /\ Decoded => \A type \in DOMAIN request[1][1].options.slots : first(ProviderKey(type)) = type

(* A structured payload leaves nothing out that its provider has a field   *)
(* for: subject, texts, reply-to, the last value of every custom header    *)
(* under one spelling, the attachments in their order, and Resend's tags   *)
(* and template (build_email_options, build_payload, build_message).       *)
PayloadComplete ==
    (Sent /\ outcome[1].report[1].provider # "memory") =>
        LET m == request[1][1].message
            p == outcome[1].payload[1]
            provider == outcome[1].report[1].provider
            field(name) == PayloadField(p, name)
            name(n) == IF provider = "cloudflare" THEN FoldName(n) ELSE n
            last(i) == \A j \in (i + 1)..Len(m.headers) : name(m.headers[j].name) # name(m.headers[i].name)
            resend == Get(request[1][1].options.slots, "ResendSendOptions")
        IN  /\ p.subject = SubjectOf(m) /\ field("text") = TextOf(m.body) /\ field("html") = HtmlOf(m.body)
            /\ field("replyTo") = CollectMailboxes(m.replyTo)
            /\ \A i \in DOMAIN m.headers : last(i) =>
                 {field("headers")[n] : n \in {k \in DOMAIN field("headers") : name(k) = name(m.headers[i].name)}}
                   = {m.headers[i].value}
            /\ provider = "cloudflare" => \A k, n \in DOMAIN field("headers") : FoldName(k) = FoldName(n) => k = n
            /\ [i \in DOMAIN field("attachments") |-> <<field("attachments")[i].type, field("attachments")[i].content>>]
                 = [i \in DOMAIN m.attachments |-> <<m.attachments[i].type, m.attachments[i].content>>]
            /\ resend # <<>> /\ provider = "resend" => p.tags = resend[1].tags /\ p.template = resend[1].template
=============================================================================
