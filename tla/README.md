# A TLA+ verification project for email-rs

email-rs is a family of crates for composing and sending email: a message
model with its wire format and its JSON, a transport interface with its
adapters, attachment resolution, and a Restate service that sends from a durable
queue. This directory models the parts of it whose correctness depends on order,
failure and concurrency, and those in which one crate writes what another reads.
TLC checks them, and TLAPS proves the ones that matter most.

Run TLC on a module with `tlc -config X.cfg M` (the pairs are listed below) and
TLAPS with `tlapm M.tla`.

## 1. The system

| Component (crate) | State | Operations | Hard behaviour |
|---|---|---|---|
| `email-transport` | none; `TransportOptions` slots; the guard of a traced send | `Transport::send`, `send_raw`, error kinds, capabilities, options registry, traced sends | cancellation, what an error kind permits the caller to do, two option types under one key |
| `email-transport-lettre` | a semaphore shared by clones, detached SMTP tasks | `send`, `send_raw` | admission, timeouts, dropped futures, tasks that outlive their caller |
| `email-transport-restate` | none | `send` in queued or sent mode over HTTP | lost and interrupted answers, retries with a key, a report before the worker ran |
| `restate-email` | a transport registry; the journal is Restate's | `Email.send` handler | crashes between provider acceptance and journal, disposition of errors, requests of other programs |
| `email-attachment` | none | `prepare_attachments`, the resolving transport, resolvers built from others | a reference that fails half way, size limits |
| `email-attachment-opendal` | none (an external store) | `resolve` | a store that changes between stat and read |
| `email-transport-resend`, `email-transport-cloudflare` | none | `send` over HTTP or a binding | payloads that forget somebody, error maps |
| `email-transport-test` | a shared list; a directory and a file index | `send`, `send_raw` | shared directories, partial writes, restarts |
| `email-message` | none | validation, envelope, addresses as text, serde and schemas | four descriptions of one format that must agree |
| `email-message-wire` | none | `render_rfc822`, `parse_rfc822` | line limits, boundaries, encodings, round trips |
| `restate-email-endpoint` | configuration, registry | start-up | the registry it builds |
| `email-kit` | none | re-exports, the default option registry | none |

How they interact. An application calls `Transport::send`. The transport may be
a provider adapter, an `AttachmentResolvingTransport` around one, or a
`RestateTransport`, which posts the message and its options to Restate's
ingress. Restate calls the worker's `Email.send`, which looks up a transport by
key and sends with it inside a journaled step. A failure travels the other way:
adapter error, `ErrorKind`, terminal code of the invocation, HTTP status,
`ErrorKind` again. The chain may be longer: the worker's transport may be
another `RestateTransport`.

What makes each part correct:

- lettre: at most `MAX_IN_FLIGHT_SENDS` transactions run, no permit is lost
  whatever callers do, a timed call returns even if the server hangs.
- Restate delivery: with a key the provider honors, one email at most; a
  reported success is a real one; a journaled result is final.
- errors: a terminal failure is never handed back as one to retry.
- attachments: what is handed over is whole, in order, within its limits, and
  never truncated.
- queue content: the worker acts on what the caller meant; nobody addressed is
  left out of the payload or the report.
- wire: what was sent is what is read, within the line limits and the parser's;
  a second pass changes nothing but what still looks like an encoded word.
- files and traces: a reported file stays what it was, and every traced send
  tells its end once.

## 2. Modules

| Module | Models | Role |
|---|---|---|
| `ErrorKinds` | the error tables of every crate | pure operators, no state |
| `ErrorPropagation` | one failure on its way back | extends `ErrorKinds` |
| `Handoff` | what `Transport::send` promises | abstract specification |
| `LettreTransport` | concurrent sends of a `LettreTransport` | implements `Handoff` |
| `RestateDelivery` | caller, ingress, worker, provider | extends `ErrorKinds`, implements `Handoff` one hop earlier |
| `AttachmentPreparation` | `AttachmentResolvingTransport` over `OpendalResolver` | extends `ErrorKinds` |
| `FileTransport` | `FileTransport`'s naming, creation and writing | variables and steps of one send |
| `TracedSends` | traced sends over the resolving transport over `FileTransport`s | extends `FileTransport` |
| `EncodedWords`, `HeaderLines`, `TransferEncoding` | RFC 2047 words, folding, base64 and quoted-printable | operators |
| `Addresses` | mailboxes, groups and lists, as text | operators, extends `EncodedWords` |
| `ContentTypes` | content types and their boundaries | operators |
| `MimeHeaders` | the values of the MIME headers: types, encodings, dispositions with file names | operators, extends `HeaderLines`, `ContentTypes` |
| `MimeTree` | bodies, boundaries, attachments, the headers of parts | operators, extends `TransferEncoding`, `MimeHeaders` |
| `Shapes` | what a `Vec` and an `Option` are here | operators |
| `OutboundMessages` | messages, `validate_basic`, `derive_envelope` | operators, extends `Addresses` |
| `WireFields` | `render_rfc822` and `parse_rfc822` in turn, with the body as a parameter | extends `OutboundMessages`, `MimeHeaders` |
| `WireRoundTrip` | the same with the bodies of `MimeTree` | composes the wire modules |
| `MediaTypes` | the validated strings | operators |
| `MessageJson` | serde of a message | operators, extends `OutboundMessages`, `MediaTypes` |
| `MimePartJson` | serde and schemars of a MIME part, a tree | recursive operators, given to `MessageJson` and `JsonSchemas` as constants |
| `TransportOptions` | slots, registry, their JSON | operators, extends `MessageJson` |
| `ProviderPayloads` | what Resend, Cloudflare and the memory transport make of a message | operators, extends `TransportOptions` |
| `QueuedSend` | one request through the queue | composes the JSON modules |
| `JsonSchemas` | schemars of a request: a schema is the predicate a validator makes of it | operators and a property, extends `QueuedSend` |
| `Messages_proofs` | induction, sequences, the validated strings, messages as JSON | lemmas that `QueuedSend_proofs` and `WireFields_proofs` share |
| `MC*` | constants for TLC | |
| `*_proofs` | theorems and proofs | extend the module they are about |

`Handoff` is a contract: it has no lines of its own in the code. It says, for
every transport at once, that a report is returned only for a message the
provider took; that a call which fails or is dropped may leave a handoff
running, whose message may still be taken; that a call which ended before its
handoff began never begins one; and that no more than `MaxInFlight` handoffs
run, abandoned ones included. It is the documentation of `Transport::send`
(`crates/email-transport/src/transport.rs:19-87`) made precise.

### ErrorKinds and ErrorPropagation

A kind is a string, an error of a foreign library a record of the facts the
code's `match` looks at. `MapResendError`, `ClassifySmtpFacts`,
`MapBindingError`, `ClassifyOpendalError`, `FromResolveError`,
`TransportTerminalCode`, `MapErrorResponse` and the others carry the names of
the functions they translate. In `ErrorPropagation` a fault is classified
(`Init`), the worker keeps or fails it (`WorkerRetries`, `WorkerFails`), the
caller classifies the answer (`CallerClassifies`) or loses it
(`AnswerInterrupted`, `CallerAttachesAgain`), and the caller may be the
transport of another worker (`NextHop`). `tagged` says whether the Restate
server marks invocation errors.

### LettreTransport

A call is `idle`, `waiting` for a permit, `awaiting` its task, `returned` or
`dropped`. Rust suspends a future only at an `.await`, so one action is the
code between two of them: `Admit` is validation, the acquisition of a free
permit and the spawn together. The semaphore is tokio's and is external:
`available`, a FIFO `queue`, and `granted`, the waiters a released permit was
assigned to and which were not polled since. This middle state is where the
races are: a granted waiter may time out or be dropped before it runs, and its
permit must then go on. The task owns the permit and gives it back when it ends,
by success, error or panic. The semaphore is never closed, so the code's
"SMTP send admission failed" branch is unreachable and is not modelled.

### RestateDelivery

`Attempts` are the sends of each email by an application that retries what it
may. An attempt refuses locally (`RefuseLocally`) or posts (`Submit`); the ingress accepts it
(`Accept`), refuses it or loses it (`FailRequest`), and the attempt ends with an
answer or without (`StopWaiting`, which leaves the request where it is). An
invocation is `ready`, `calling`, `journaled` or `done`. `ctx.run` is
at-least-once, so a crash (`CrashBeforeJournal`) or a retryable error makes it
`ready` again. The worker's options reach the transport unchanged
(`ForwardedKey`). Provider calls are a set in flight: a call may be taken long
after the worker gave it up.

External, and modelled by how the code relies on it: Restate creates or attaches
by idempotency key, never re-runs a journaled step, and forgets a key some time
after the invocation ended (`ForgetKey`). A provider that honors keys (`KeyCapable`)
sends once per key, for ever. A real provider may forget a key too, so
`AtMostOneEmailPerKey` says what the code contributes: after Restate's retention
"the provider-side key then decides" (ADR 0004), and here it always can.

### AttachmentPreparation

The state of one send: the size check, attachment by attachment, then the loop
over the references, and for each of them stat, open and the bounded read. Every size is its number of
bytes; the largest `usize` is a constant, so that overflow and saturation
occur. The store is external and changes at will: stat's answer and what a read
yields are unrelated choices, and every call of it may fail.

### FileTransport and TracedSends

`FileTransport` has the directory (`dir`: who created each path and how much of
it is written), the `nextIndex` shared by the clones of a transport, and where
each send is. One action is what the operating system does at once: `NextPath`
looks for a free name from the index on, `CreateNew` creates it or finds that
somebody else did meanwhile (`AlreadyExists`, back to looking), `WriteAll` and
`WriteFails` end it. Files of other programs are `Foreign`.

`TracedSends` runs these sends inside `TracedTransport` around an
`AttachmentResolvingTransport`. A send is a future: it is polled (`FirstPoll`
arms the guard and emits the start), waits for a resolver (`Fetched`,
`FetchFails`), runs the body of `FileTransport`, which awaits nothing, and
records its result before it returns (`RecordSuccess`, `RecordFailure`,
`Return`). It may be dropped wherever it waits (`DropFuture`), panic (`Panic`),
or die with its process (`Restart`, which also resets the index); `send_raw`
does not fetch.

### The wire format

`WireFields` has a message and a wire, and two actions: `Render` writes one
from the other with some options, `Parse` reads it back, and the result may be
rendered again (`MaxHops`). How a body is written, read and measured are three
constants of it, since bodies are trees and their operators recursive;
`WireRoundTrip` is the same system with `MimeTree`'s `BuildRenderPayload` and
`ParseBody` and `TransferEncoding`'s `BodyWidth` in their place, which is what TLC
runs. `Parse` refuses a wire of more than `MaxInput` bytes before it reads any of
it, and an address field of more than `MaxAddressInput`. `IsWritten` and `IsLines` say what Rust's types
say of a message and of lines. Both are whole functions of the code, built from the
operators of the modules below them. What a property must tell apart is a symbol
of its own: a character, a blank, an encoded word, a delimiter of a boundary, an
escaped octet. Their widths are what the code counts, with `HardLineLen`,
`QpLineLen` and the others in the place of 998, 76 and so on; a media type, an
encoding, a message id and the like are one piece of width 1. The header of a part
inside a multipart is validated and folded by the same `PushHeaderLine` as that of
the message, with the same errors (`PushPartHeaders`), and each of its lines is one
octet of the body that has the line in it, with its width; `ParseMimePart` unfolds
them as `ParseRfc822` does. A file name is spelled out, quoted or in percents, so
that it meets the folding (`FilenameParameter`). A boundary is
[base, num, dashes], so that one boundary can be a prefix of another's closing
delimiter, which is what the renderer's choice of boundaries is about.
`mail_parser`, behind the address parser and the decoding of display names, is
modelled by what the crate relies on.

### The queue's content

In `QueuedSend` a scenario is a caller with its options and a worker with its
registries. `Invoke` writes the request as JSON or refuses it (`InvokeRefused`),
`Arrive` brings the request of another program instead, `Handle` reads it with
the worker's option registry, `SendRequest` routes it by its key, prepares
attachments as the endpoint's wrapper does, and builds the payload;
`AnswerQueued` may come before or after the worker ran, `AnswerSent` only after.
Retries and crashes are `RestateDelivery`'s: here nothing is lost and the content
is what matters. JSON values are tagged trees; a reader returns nothing for any
error. `JsonSchemas` is the third description of the same format, which clients
check requests with.

A message, an address, an option or a request has no set it is taken from: what
a caller can hold is said by predicates (`IsMessage`, `IsAddress`,
`IsSendOptions` and so on) after the types of the code and what their
constructors accept. What another program may write is any value of `JsonValues`,
strings of pieces, arrays and objects. MIME parts are trees; their codec and their
schema are `MimePartJson`, which `MessageJson` has as two constants and `JsonSchemas`
as one, so that nothing below depends on a recursive operator.

## 3. Runs

| Run | Module, configuration | Bounds | Shows |
|---|---|---|---|
| `error_propagation` | `MCErrorPropagation` | every HTTP status 400-599, every Resend body status 0-600, every fault class; 3 hops | `TerminalStaysTerminal`, `CallerMirrorsWorker`, `UnmarkedConfusesOnlyInternal` |
| `lettre_admission` | `MCLettreTransport`, `MCLettreTransport.cfg` | 3 calls, 2 permits | `PermitsConserved`, `NoIdlePermit`, `WaitersAgree`, `ImplementsHandoff` |
| `lettre_liveness` | `MCLettreTransport`, `MCLettreLiveness.cfg` | 3 calls, 1 permit | `TimedCallsReturn`, `WaitersAreServed` |
| `lettre_timeout_bound` | `MCLettreTransport`, `MCLettreTimeout.cfg` | 1 call, 1 permit | violation, see Findings |
| `restate_delivery` | `RestateDelivery`, `MCRestateDelivery.cfg` | 1 email, 2 sends, 2 runs each | `AtMostOneEmailPerKey`, `OneLiveInvocationPerKey`, `SuccessIsReal`, `TerminalMeansOver`, `JournalIsFinal`, `ImplementsHandoff` |
| `restate_liveness` | `RestateDelivery`, `MCRestateLiveness.cfg` | 1 email, 1 send, 3 runs | `AcceptedInvocationsEnd` |
| `restate_key_forwarding` | `RestateDelivery`, `MCRestateForwarding.cfg` | 1 email, 1 send, 1 run | violation, see Findings |
| `wire_round_trip` | `MCWireRoundTrip`, `MCWireRoundTrip.cfg` | lines of 12, quoted-printable lines of 6, depth 2, 3 parts, inputs of 250, address fields of 58, 6 file names, 2 hops | `RenderedParses`, `LinesWithinLimit`, `FieldsSurvive`, `BodySurvives`, `Settled` |
| `encoded_words` | `MCWireRoundTrip`, `MCEncodedWords.cfg` | foreign subjects with Q-encoded words | violation, see Findings |
| `traced_sends` | `MCTracedSends` | 3 sends, one of them raw, 2 transports, 8 names, 1 foreign file | `ReportedPathsHold`, `OneEnding`, `NothingOverwritten`, `NamingEnds` |
| `queued_send` | `MCQueuedSend` | 3 providers; messages, controls, option slots and registries, routes, foreign requests, one varied after the other; strings up to 4 | `WorkerSeesRequest`, `SchemaAdmitsRequests`, `EveryoneAddressed`, `ReportsAgree`, `OneOptionPerKey`, `PayloadComplete` |
| `attachment_preparation` | `MCAttachmentPreparation` | 3 attachments, `usize` of 0..5, objects up to 4 bytes, limits on both sides | `HandedOverWhole`, `LimitsHold`, `RefusedOnlyForSize`, `NeverTruncated`, `RetentionBounded` |

Why the bounds are enough. Three calls and two permits are the least at which a
waiter is behind another call while a second permit is free to be released, and
a granted waiter gives up with a third behind it (with one permit, the liveness
run). Two sends and two runs are the least for a repeated request racing the
first one and for a crash after the provider took the message; two emails share
nothing (their keys differ), so one is enough. Three attachments give bytes
before, between and after references. Two transports on one directory, one with
two sends, give a race between clones and one between processes, with a third
send after a restart; every send tries a name at most once per name taken, so
eight names are never all used. On the wire, lines of 12 hold a name, a word and
no more, so that every decision of the folding occurs within values of three
words; multiparts at, under and over both limits occur, and so do inputs of 250
bytes and of 251 and address fields of 58 and of 61, written by the renderer itself,
each refused for its size alone. The second hop shows what a third would: after the
first nothing changes any more (`Settled`) but the blanks around a subject, which MIME
headers the renderer adds or leaves out, and a subject that was an encoded word of something
that looks like an encoded word, which loses one such layer at each hop until none
is left. File names are one of each kind: plain, with blanks to fold at, with marks to
quote, too long for a line, with a tab, not in ASCII.
In the queue the codecs treat one field independently of another, which is why
one aspect is varied at a time against a plain request, and together only where
the code relates two of them (lists of recipients with each other and with the
provider, slots with the registry, references with the resolver). Three hops exceed the depth at which the
kinds reach a fixed point (one hop for a marked answer).

Deadlock checking is off in every run: calls, attempts and sends are finite in
number, and the system stops when they are over.

### Fairness

- `TracedSends.FairSpec`: weak fairness of the steps of a send that is being
  polled and does not fetch: `FileTransport` awaits nothing, so its thread runs
  on to the end. Nothing is assumed of resolvers, callers or processes. A dead
  process is an end, too, so `NamingEnds` asks for one of the ends.
- `LettreTransport.FairSpec`: weak fairness of each caller's step and of its
  timer. The runtime polls a woken future, and tokio fires a timer that is due.
  Nothing is assumed of the SMTP server there; `WaitersAreServed` assumes in
  addition that transactions end (`SmtpEnds`), because lettre bounds every SMTP
  command with its own timeout.
- `RestateDelivery.FairSpec`: Restate keeps running an invocation it accepted,
  and the provider takes the calls that reach it. Nothing is assumed of the
  caller. The last run `MaxRuns` allows does not end with a retryable error:
  this is the bound, in the place of "retries do not fail for ever".

## 4. Proofs

TLAPS proves these for every value of the constants, under the named
assumptions in the modules: `FaultsAssumption`, `HopsAssumption`;
`SendsAssumption`, `MaxInFlightAssumption`, `SmtpErrorsAssumption`;
`MsgsAssumption` (finitely many emails), `KeyCapableAssumption`,
`BoundsAssumption`; `TransportsAssumption`, `IndexAssumption`; and the size
assumptions of `AttachmentPreparation`, of which `ObjectAssumption` says that no
buffer has `usize::MAX` bytes.

- `ErrorPropagation_proofs`: `TypeCorrect`, `TerminalRemains`, `MirrorsWorker`,
  `UnmarkedIsClose`. One inductive invariant serves all four. A failure in
  transit has to be tied to the code it left with: a terminal kind has been
  turned into its code, and the caller's kind is what the tables say of that
  code. The tables' lemmas (`TablesMirror` and others) are by cases on the code.
- `LettreTransport_proofs`: `TypeCorrect`, `PermitsNeverLeak`, `NoPermitIdles`,
  `WaitersAlwaysAgree`, `TasksBounded`. `PermitsConserved` is not inductive: a
  permit counts as the task's only if the task was not already running when its
  call spawned it (`TaskOfAdmitted`), and as a waiter's only if waiters,
  queue and grants agree (`WaitersAgree`). The invariant is their conjunction
  with `NoIdlePermit` and `SuccessIsTaken`, proved action by action; what
  happens to the semaphore when a permit is released or a waiter leaves is a
  lemma of its own.
  `LettreImplementsHandoff`: `Init` maps to `Init`, and every action to one of
  `Handoff` or to a stutter. The invariant supplies the bound on active handoffs
  when a task is spawned and `SuccessIsTaken` when a call succeeds.
- `RestateDelivery_proofs`: `TypeCorrect`, `OneEmailPerKey`,
  `InvocationsDoNotOverlap`, `ReportsAreTrue`, `TerminalIsTheEnd`,
  `JournalStays`. None of the properties is inductive. Every step of the worker
  is shown to move one invocation `Forward`: it is never done before, keeps a
  journaled result, and calls a success only what the provider took. Hence what
  a caller was told stays true (`Answered`). `Remembered`, that Restate knows of
  every keyed invocation that is not over, keeps two from overlapping, and
  `KeysKept`, that each call carries the key of the plan, keeps the provider from
  sending twice.
  `RestateImplementsHandoff`: every step of the caller and the ingress is one of `Handoff`, every step of the worker, the journal and
  the provider a stutter. The bound on handoffs holds because the attempts are
  finite and the one that goes out is not active yet.
- `AttachmentPreparation_proofs`: `TypeCorrect`, `WholeOrNothing`,
  `RetentionStaysBounded`, `NoTruncation`, `EachAttachmentFits`,
  `SizePolicyHolds`, `NoFalseRefusal`. The invariant follows the two passes
  (`Checked`, `Prepared`) and says that the resolver retains all that was yielded
  up to its bound (`RetainedUpToLimit`), from which it follows that what is taken
  is what was yielded, even for a limit of `usize::MAX`. For the total it has to
  say which attachments have been counted (`Counted`): in the first pass those
  before the current one, in the second all that had bytes and the references
  before it. The running total is their sum, and a saturated one is over any
  limit.
- `TracedSends_proofs`: `TypeCorrect`, `ReportsHold`, `FilesAreSafe`,
  `EndsAreTold`, for any sends, transports, restarts and files of others. A send
  owns the file it created from `create_new` on (`Claim`), since nobody creates
  what exists; the guard is armed exactly while the future is polled or pending
  and has no result (`Told`).

The first part of `Messages_proofs` has what several of these need. The library's induction theorems take
an operator and cannot be instantiated here; an induction over a *set* of numbers
can (`SetInduction`, `BoundedInduction`, `StrongInduction`), by the existence of a
least number outside it. A function defined by recursion over 0..n exists and is
unique (`RecursionExists`, `RecursionUnique`), so that what is computed from a
sequence of any length, as `PartialSums`, can be reasoned about. The facts about
sequences, that concatenating, appending and flattening give sequences with those
elements and no others, are there too. `AttachmentPreparation_proofs` has the few
of these it needs itself, since messages do not concern it.

### The queue

`QueuedSend_proofs` is about the content of a request, for any message, lists and
groups of any length, option types, registry, routes and requests of other
programs. `ContentInvariant` is the inductive invariant `IInv`, a conjunction that
follows the request: what was posted is the scenario's request written as JSON,
or the foreign one (`PostedAsWritten`); what was decoded is what the reader makes of it
(`ReadAsPosted`), the outcome what the transport of its key makes of that (`HandledAsRead`),
and the answer what the caller's mode says (`AnsweredAsHandled`). Each of the
properties is then a fact about the functions in between:

- `ReadAsMeantHolds`: writing and reading are inverse, type by type
  (`EnvelopeBack`, `SlotsBack`, `ControlsBack`, `MessageBack`). An object's members
  have different names, those that are absent are left out, and a reader
  finds each under its name or its default; this is proved once for any list of
  members. The worker keeps the options of the types it registered, unless one
  of its own types claims the key, which the property leaves out.
- `WorkerSeesRequestHolds`: the other direction as well. Whatever JSON arrives, what the
  worker reads of it, its constructors would have made (`MessageRead` and the lemmas
  before it, one for each reader), so it can be written and read once more
  (`RequestBack`) and is the same. This rests on the canonical form of
  every validated string being canonical: `ContentTypeBack`,
  `ContentDispositionBack`, `TransferEncodingBack` and `MessageIdBack` show that their parsers accept
  what they returned and return it again. For a media type that is a round
  trip of its own: each parameter is trimmed, its name put in lower case, its
  value left alone, and the whole is cut at semicolons that a scanner finds outside of
  quotes and escapes. The proof follows the scanner over the joined
  segments and shows that it ends each in the state it began with
  (`NormalizedBack`).
- `SchemaAdmitsRequestsHolds`: every value a writer makes is admitted by its schema,
  from a mailbox (`MailboxesAdmitted`) to the message (`MessagesAdmitted`) and its
  options (`OptionsAdmitted`). Where a schema says oneOf, exactly one of its
  alternatives matches, as the tags of the objects are different
  (`TaggedOnce`). A text is within the limit of its schema, which counts characters,
  because its constructor counts bytes (`NewtypesAdmitted`).
- `OneOptionPerKeyHolds`: the writer stops at the second slot of a key, the
  registry keeps the first type of one (`FirstOwner`), and whatever JSON is read,
  a slot's type is the one the registry names.
- `EveryoneAddressedHolds`: the mailboxes of concatenated lists are the
  concatenated mailboxes (`CollectedEmails`, `ThreeLists`), so payload, envelope and
  report flatten groups to the same sequence.
- `ReportsAgreeHolds`: needs that the worker decoded the caller's message and its
  envelope (`CallerDecoded`, `CallerOptions`), and that a report comes back from
  JSON as it was (`ReportBack`), for which every address the worker reports must be
  one it can parse again, also when it came from another program.
- `PayloadCompleteHolds`: the two ways of collecting headers, by exact name
  (`CollectedLast`) and by folded name (`FoldedOnce`), both by induction on the
  number of headers.

Its assumptions are these. `ScenariosAssumption`: scenarios are made of what the
types of the code can hold. `JsonAssumption`: the values of `JsonValues` consist of
pieces and of such values, and a piece that is an address is one the grammar of
`Addresses` has. Three are about MIME parts, which are trees and whose
codec is a constant here: a message's part is read back from its JSON (in
`ScenariosAssumption`), so is one that was read (`PartsAssumption`), and the
schema of parts admits what is written of one (`MimePartSchemaAssumption`). TLC evaluates all of
them, with the recursive codec and schema of `MimePartJson`, for every scenario and
JSON value of the run.

### The wire's lines

`WireFields_proofs` shows that RFC 5322's hard limit holds for any messages,
options and foreign wires, any limit, any names and widths, any number of hops and
whatever a body's codec does (`LinesWithinLimitHolds`). It has three parts.

- `PushedLinesFit`: `push_header_line` writes no line that is too long. A value is
  split where a blank starts before the limit, and the part before it is shorter
  than the limit (`BoundaryIs`, `SplitIs`). `SplitForFolding` goes from the left to
  the right and its result is built from the right, so the proof goes down from the end
  of the value (`FoldRestIs`). The limit of the first line leaves
  room for the name, the colon and the blank, that of a continuation for its
  blank (`LimitsAre`); what is left is the empty value, whose line is as long as
  the name.
- `RenderedLinesFit`: every value that the renderer builds is a value, that is a
  sequence of pieces with a width. It is about the message's own header: those of
  parts are in the body, whose codec is a constant here, and `PushedLinesFit` is
  about each line of theirs as well. This follows the renderer through phrases,
  quoted strings, chunks of encoded words, mailboxes, groups, lists, custom
  headers and MIME headers with their file names (`HeaderTextIs`), for a message that is `IsWritten`.
- `ParsedIsWritten`: a message that was read is `IsWritten` again. The parsers go
  from piece to piece with a state; each has an invariant (`IsReader`,
  `IsDecoder`, `IsScanner`, `IsParserState`, `IsParse`) that each piece, line or
  field keeps, whatever it is. So a relay may render what it has parsed.

The invariant joins these: the message is `IsWritten`, the lines on the wire are
lines, and those that this crate wrote fit. The assumption about messages
and foreign wires, `WireFieldsAssumption`, is that they are made of what Rust's types
allow; `HeaderLinesAssumption` and `EncodedWordsAssumption` say that lengths and limits are natural numbers,
and `MimeHeadersAssumption` that file names are texts.

### Only model-checked

- Every liveness property: fairness and `ENABLED` are out of the prover's reach.
- The other properties of `WireRoundTrip`. For `RenderedParses`, `BodySurvives` and
  `Settled`: bodies are trees built by recursive operators. For `FieldsSurvive`:
  what a string of pieces decodes to is an induction over two recursive
  functions at once, and over whatever is around each encoded word.

## 5. Findings

- `lettre_timeout_bound`. `SendOptions::timeout` is documented as an "Upper
  bound on provider-call duration", which a transport that advertises it "must
  honor" (`crates/email-transport/src/options.rs:49-50`). `LettreTransport` advertises it, but its
  transaction goes on in the background after `Timeout`, deliberately, as its own
  crate documentation says. The general documentation promises more than this transport
  can give.
- `restate_key_forwarding`. The documentation of `Capabilities` says that the
  worker layer reads them to decide whether to forward the idempotency key
  (`crates/email-transport/src/transport.rs:229-230`). The worker forwards the
  options unchanged, as ADR 0004 decides.

- `encoded_words`. The documentation of `parse_rfc822` says that encoded words in
  the B and Q encodings are decoded. One in the Q encoding whose text begins with
  an escape, as most words of a language without Latin letters do, is left as it
  is: the decoder takes the escape's `=` after the `?` for the end of the word
  (`crates/email-message-wire/src/rfc822/encoded_word.rs:168`). The renderer
  writes the B encoding only, so its own messages are read right, and
  `wire_round_trip` holds.

Seen while modelling, with no run of their own, because the code's documentation
says nothing to the contrary. The properties name each one they leave out.

- A custom header with an empty value and a name of 997 bytes or more is written
  on a line longer than the hard limit (`header.rs:242`; `LinesWithinLimit`).
- A subject in ASCII that looks like an encoded word is read decoded
  (`FieldsSurvive`, `Settled`): a subject that was such a word inside an encoded one
  is read differently by every reader down the chain. An empty encoded word makes the next one stay as it is.
- A line of quoted-printable may have 77 octets.
- The renderer has no limit on what the parser limits: 16 MiB of input and 64 KiB of
  an address field (`TooLongToRead`), 1024 parts of a multipart (`TooManyToRead`). It
  does not check a custom MIME header of a bare text body (`OwnMimeHeaders`), nor a
  leaf or an attachment whose type says multipart (`CallsItselfMultipart`).
  `RenderedParses` says that there is nothing else.
- A content id is written and not read back.
- The schema of a message says that its date is a string; it is written as an
  array of numbers (`message.rs:795-804`; `SchemaAdmitsRequests`). The schema of
  a multipart requires `parts`, which the reader does not.
- A worker that registered another type under the key of a caller's option reads
  that option as its own type, or refuses it (`WorkerSeesRequest`).
- `FileTransport` leaves the part of a file it could not write whole.

## 6. Not modelled, and why

- Formatting, wording, logging and the fields of reports no property is about.
- On the wire: the line breaks of a base64 body after every 76 columns (its octets
  have their width and one line end), and the `type` parameter of a
  multipart/related, which no other step looks at.
- SMTP, HTTP, Restate's own protocol, `mail_parser` and `serde_json`: external,
  modelled by what the code asks of them. Derived readers also take positional
  arrays; no writer here makes them.
- The resolvers that look up others (`MapResolver`, `SchemeRouter`,
  `FallbackResolver`): a resolver is the store it leads to.
- The clients of Resend and of the Cloudflare binding, their builders and the HTTP
  call itself: `RestateDelivery` has the call, `ProviderPayloads` the payload.
- `MemoryTransport`'s shared list and its wait for a number of sends, and the
  conformance tests.
- `TransportKey::new_unchecked` and `ContentTransferEncoding::Other` can hold what
  their checked constructors refuse; callers are assumed to use those. Both sides
  of a queue are assumed to be built with the feature `mime`.
- The boxed forms of the traits, accessors, conversions between types and
  generators of test values, which decide nothing.
- Reading the configuration and serving HTTP in the endpoint.

## 7. Plan

What is left, in order of importance.

1. `Resolvers`: `MapResolver`, `SchemeRouter` and `FallbackResolver` composed; a
   fallback must not hide a transient failure behind a later answer.
2. `MemoryTransport`: clones that record while others wait for a number of sends.
3. A worker of another version: a `QueuedSend` whose reader knows fields the
   writer does not, and the other way round, rather than requests made by hand.

The abstract specification is `Handoff`, which two transports are proved to
implement; `FileTransport` lends itself to one of its own, a mailbox in which each
accepted message is kept once under a name of its own.
