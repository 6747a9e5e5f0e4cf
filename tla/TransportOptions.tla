-------------------------- MODULE TransportOptions --------------------------
(***************************************************************************)
(* Per-send options (email-transport, options.rs): typed values of the     *)
(* provider adapters in slots, one a type; how they are written under the  *)
(* key of their provider and hydrated by the types a worker registered.    *)
(* The adapters' own option types are those of email-transport-resend and  *)
(* restate-email.                                                          *)
(*                                                                         *)
(* Slots are a function from option types to values.  SendOptions are      *)
(* [envelope, slots, timeout, key, correlation], all but slots options.    *)
(***************************************************************************)
EXTENDS MessageJson

CONSTANT AppProviderKey     \* the provider key of every option type of the application

ProviderKey(type) ==
    CASE type = "ResendSendOptions" -> "resend"
      [] type = "RestateSendOptions" -> "restate"
      [] OTHER -> AppProviderKey[type]

NoSlots == [type \in {} |-> <<>>]
Insert(map, key, value) == [k \in DOMAIN map \cup {key} |-> IF k = key THEN value ELSE map[k]]
Get(slots, type) == IF type \in DOMAIN slots THEN <<slots[type]>> ELSE <<>>

NoSendOptions == [envelope |-> <<>>, slots |-> NoSlots, timeout |-> <<>>, key |-> <<>>, correlation |-> <<>>]

-----------------------------------------------------------------------------
(* The option types.  serde writes a duration as its seconds and nanos.    *)
WriteDuration(d) ==
    Object(<<(<<"secs", Always(<<"num", d.secs>>)>>), <<"nanos", Always(<<"num", d.nanos>>)>>>>)
ReadNumber(value) == IF Is("num", value) THEN <<value[2]>> ELSE <<>>
ReadDuration(value) ==
    IF ~Is("obj", value) THEN <<>>
    ELSE All([secs |-> Required(value, "secs", ReadNumber), nanos |-> Required(value, "nanos", ReadNumber)])

ReadMode(value) == IF WordOf(value) \in {"queued", "sent"} THEN <<WordOf(value)>> ELSE <<>>

(* [tags, template]: tags are [name, value], a template [id, variables]. *)
WithTag(options, tag) == [options EXCEPT !.tags = Append(@, tag)]
WithTemplate(options, template) == [options EXCEPT !.template = <<template>>]
ResendSendOptionsNew == [tags |-> <<>>, template |-> <<>>]

WriteTag(tag) == Object(<<(<<"name", Always(Word(tag.name))>>), <<"value", Always(Word(tag.value))>>>>)
ReadTag(value) ==
    IF ~Is("obj", value) THEN <<>>
    ELSE All([name |-> Required(value, "name", ReadWord), value |-> Required(value, "value", ReadWord)])
WriteTemplate(t) == Object(<<(<<"id", Always(Word(t.id))>>), <<"variables", t.variables>>>>)
ReadTemplate(value) ==
    IF ~Is("obj", value) THEN <<>>
    ELSE All([id |-> Required(value, "id", ReadWord),
              variables |-> Optional(value, "variables", LAMBDA v : IF Is("obj", v) THEN <<v>> ELSE <<>>)])

(* An option type of the application is one word, under the name "value".  *)
WriteOption(type, o) ==
    CASE type = "ResendSendOptions" ->
           Object(<<(<<"tags", IfMany(o.tags, WriteTag)>>), <<"template", Map(o.template, WriteTemplate)>>>>)
      [] type = "RestateSendOptions" ->
           Object(<<(<<"invocation_mode", Map(o.mode, Word)>>), <<"delay", Map(o.delay, WriteDuration)>>>>)
      [] OTHER -> Object(<<(<<"value", Always(Word(o))>>)>>)

ReadOption(type, value) ==
    CASE ~Is("obj", value) -> <<>>
      [] Is("obj", value) /\ type = "ResendSendOptions" ->
           All([tags |-> OptionalMany(value, "tags", ReadTag), template |-> Optional(value, "template", ReadTemplate)])
      [] Is("obj", value) /\ type = "RestateSendOptions" ->
           All([mode |-> Optional(value, "invocation_mode", ReadMode), delay |-> Optional(value, "delay", ReadDuration)])
      [] OTHER -> Required(value, "value", ReadWord)

IsDuration(d) == d = [secs |-> d.secs, nanos |-> d.nanos]
IsTag(tag) == tag = [name |-> tag.name, value |-> tag.value] /\ IsName(tag.name) /\ IsName(tag.value)
IsTemplate(t) ==
    t = [id |-> t.id, variables |-> t.variables] /\ IsName(t.id) /\ IsOption(t.variables, LAMBDA v : Is("obj", v))
IsOptionOf(type, o) ==
    CASE type = "ResendSendOptions" ->
           /\ o = [tags |-> o.tags, template |-> o.template]
           /\ IsList(o.tags, IsTag) /\ IsOption(o.template, IsTemplate)
      [] type = "RestateSendOptions" ->
           /\ o = [mode |-> o.mode, delay |-> o.delay]
           /\ IsOption(o.mode, LAMBDA mode : mode \in {"queued", "sent"}) /\ IsOption(o.delay, IsDuration)
      [] OTHER -> IsName(o)
IsSendOptions(o) ==
    /\ o = [envelope |-> o.envelope, slots |-> o.slots, timeout |-> o.timeout, key |-> o.key,
            correlation |-> o.correlation]
    /\ IsOption(o.envelope, IsEnvelope) /\ IsOption(o.timeout, IsDuration)
    /\ IsOption(o.key, LAMBDA key : IsParsed(key, NewtypeFromStr))
    /\ IsOption(o.correlation, LAMBDA id : IsParsed(id, NewtypeFromStr))
    /\ o.slots = [type \in DOMAIN o.slots |-> o.slots[type]] /\ IsFiniteSet(DOMAIN o.slots)
    /\ \A type \in DOMAIN o.slots : IsOptionOf(type, o.slots[type])

-----------------------------------------------------------------------------
(* Writing.  The slots are written one by one, in the order of their keys, *)
(* which no reader looks at; the second one of a key is an error.          *)

(* Mutant: the keys written so far are not looked at. *)
WritesEverySlot(slots) ==
    LET order == SetToSeq(DOMAIN slots)
    IN  <<Obj([i \in DOMAIN order |-> <<ProviderKey(order[i]), WriteOption(order[i], slots[order[i]])>>])>>

WriteSlot(fields, slots, type) ==
    IF fields = <<>> \/ \E i \in DOMAIN fields[1] : fields[1][i][1] = ProviderKey(type) THEN <<>>
    ELSE <<Append(fields[1], <<ProviderKey(type), WriteOption(type, slots[type])>>)>>
WriteTransportOptions(slots) ==
    LET order == SetToSeq(DOMAIN slots)
        after[i \in 0..Len(order)] == IF i = 0 THEN <<(<<>>)>> ELSE WriteSlot(after[i - 1], slots, order[i])
    IN  Map(after[Len(order)], Obj)

WriteSendOptions(o) ==
    LET slots == IF DOMAIN o.slots = {} THEN <<>> ELSE WriteTransportOptions(o.slots)
    IN  IF DOMAIN o.slots # {} /\ slots = <<>> THEN <<>>
        ELSE <<Object(<<(<<"envelope", Map(o.envelope, WriteEnvelope)>>), <<"transport_options", slots>>,
                        <<"timeout", Map(o.timeout, WriteDuration)>>, <<"idempotency_key", Map(o.key, Text)>>,
                        <<"correlation_id", Map(o.correlation, Text)>>>>)>>

-----------------------------------------------------------------------------
(* The registry of a worker: which type owns a provider key.  The first    *)
(* type to register a key keeps it.                                        *)
NewRegistry == [key \in {} |-> ""]
Register(registry, type) ==
    LET key == ProviderKey(type)
    IN  CASE key \notin DOMAIN registry -> [error |-> "none", registry |-> Insert(registry, key, type)]
          [] key \in DOMAIN registry /\ registry[key] = type -> [error |-> "none", registry |-> registry]
          [] OTHER -> [error |-> "DuplicateProviderKey", registry |-> registry]

(* email_kit::transport::register_transport_options: the built-in types;   *)
(* a rival for one of their keys is a panic.                               *)
RegisterTransportOptions(registry) == Register(registry, "ResendSendOptions")

HydrateInto(registry, key, value, slots) ==
    LET hydrated == ReadOption(registry[key], value)
    IN  IF key \notin DOMAIN registry THEN <<slots>>
        ELSE Map(hydrated, LAMBDA o : Insert(slots, registry[key], o))

(* Mutant: options of a provider the worker lacks are refused. *)
RefusesUnknown(registry, ignoreUnknown, slots, field) ==
    IF slots = <<>> \/ field[1] \notin DOMAIN registry THEN <<>>
    ELSE HydrateInto(registry, field[1], field[2], slots[1])

ReadSlot(registry, ignoreUnknown, slots, field) ==
    CASE slots = <<>> -> <<>>
      [] slots # <<>> /\ field[1] \in DOMAIN registry -> HydrateInto(registry, field[1], field[2], slots[1])
      [] OTHER -> IF ignoreUnknown THEN slots ELSE <<>>

(* A key that comes again replaces what came before it. *)
ReadTransportOptions(registry, ignoreUnknown, value) ==
    LET after[i \in 0..Len(value[2])] ==
          IF i = 0 THEN <<NoSlots>> ELSE ReadSlot(registry, ignoreUnknown, after[i - 1], value[2][i])
    IN  IF Is("obj", value) THEN after[Len(value[2])] ELSE <<>>

OrNull(value, Read(_)) == IF value = Null THEN <<(<<>>)>> ELSE Map(Read(value), LAMBDA item : <<item>>)
ReadNewtype(value) == OrNull(value, LAMBDA v : Parsed(v, NewtypeFromStr))
ReadControl(registry, ignoreUnknown, options, field) ==
    LET set(name, option) == Map(option, LAMBDA item : [options[1] EXCEPT ![name] = item])
    IN  CASE options = <<>> -> <<>>
          [] options # <<>> /\ field[1] = "envelope" -> set("envelope", OrNull(field[2], ReadEnvelope))
          [] options # <<>> /\ field[1] = "transport_options" ->
               set("slots", ReadTransportOptions(registry, ignoreUnknown, field[2]))
          [] options # <<>> /\ field[1] = "timeout" -> set("timeout", OrNull(field[2], ReadDuration))
          [] options # <<>> /\ field[1] = "idempotency_key" -> set("key", ReadNewtype(field[2]))
          [] options # <<>> /\ field[1] = "correlation_id" -> set("correlation", ReadNewtype(field[2]))
          [] OTHER -> options

(* Of a field that comes again the last one counts. *)
ReadSendOptions(registry, ignoreUnknown, value) ==
    LET after[i \in 0..Len(value[2])] ==
          IF i = 0 THEN <<NoSendOptions>> ELSE ReadControl(registry, ignoreUnknown, after[i - 1], value[2][i])
    IN  IF Is("obj", value) THEN after[Len(value[2])] ELSE <<>>
=============================================================================
