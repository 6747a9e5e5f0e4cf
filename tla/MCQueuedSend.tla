---------------------------- MODULE MCQueuedSend ----------------------------
EXTENDS MimePartJson

MCAppProviderKey == [AppTags |-> "resend", AppTrace |-> "app"]

Mail(user) == [user |-> user, host |-> "x", literal |-> FALSE, caps |-> FALSE, valid |-> TRUE]
Capital(user) == [Mail(user) EXCEPT !.caps = TRUE]
Bare(user) == Mailbox(<<>>, Mail(user))
Called(name, user) == Mailbox(<<name>>, Mail(user))
PlainText == <<"text", "/", "plain">>
TextBody == [kind |-> "text", text |-> Plain(<<"a">>)]
Base == MessageNew(Bare("f"), <<Bare("t")>>, TextBody)

-----------------------------------------------------------------------------
(* Messages, one aspect after the other. *)
Lists == {<<>>, <<Bare("a")>>, <<Called(<<"a", " ", "nonascii">>, "a"), Bare("b")>>,
          <<Group(<<"a">>, <<Called(<<"b">>, "c"), Bare("d")>>), Bare("e"), Bare("h")>>, <<Group(<<"a">>, <<>>)>>}
Addressed == {WithList(WithList(WithList(Base, "to", to), "cc", cc), "bcc", bcc) :
                to \in Lists, cc \in {<<>>, <<Bare("g")>>}, bcc \in Lists}
Answered == {WithList(Base, "replyTo", r) : r \in Lists}

File(name, cid, inline, reference) ==
    [type |-> PlainText, filename |-> name, cid |-> cid, inline |-> inline, reference |-> reference, content |-> Plain(<<name>>)]
Files == {File(n, c, i, r) : n \in {"none", "f"}, c \in {"none", "c"}, i \in BOOLEAN, r \in BOOLEAN}
Attached == {Added(Base, "attachments", a) : a \in Files}
            \cup {Added(Added(Base, "attachments", a), "attachments", File("g", "none", FALSE, FALSE)) : a \in Files}

Leaf(encoding, disposition) ==
    [kind |-> "leaf", type |-> PlainText, encoding |-> encoding, disposition |-> disposition, body |-> Plain(<<"a">>)]
Multi(boundary, parts) ==
    [kind |-> "multipart", type |-> <<"multipart", "/", "mixed">>, boundary |-> boundary, parts |-> parts]
Plainest == Leaf(<<>>, <<>>)
Parts == {Plainest, Leaf(<<(<<"base64">>)>>, <<(<<"attachment", "semicolon", " ", "f", "=", "quote", "A", "semicolon", "quote">>)>>),
          Multi(<<>>, <<>>), Multi(<<(<<"b">>)>>, <<Plainest, Multi(<<>>, <<Plainest>>)>>)}
Bodies == {[kind |-> "text", text |-> <<>>], [kind |-> "html", html |-> Plain(<<"b">>)], [kind |-> "html", html |-> <<>>],
           [kind |-> "both", text |-> Plain(<<"a">>), html |-> Plain(<<"b">>)],
           [kind |-> "both", text |-> <<>>, html |-> Plain(<<"b">>)]} \cup {[kind |-> "mime", part |-> p] : p \in Parts}
Written == {[Base EXCEPT !.body = b, !.subject = s] : b \in Bodies, s \in {<<>>, <<(<<"a">>)>>}}

Custom == {[name |-> "X", value |-> Plain(<<"a">>)], [name |-> "x", value |-> Plain(<<"b">>)],
           [name |-> "Y", value |-> Plain(<<"a", " ">>)]}
HeaderLists == UNION {[1..n -> Custom] : n \in 0..3}
Headed == {[Base EXCEPT !.headers = h, !.sender = s, !.date = d, !.messageId = i] :
             h \in HeaderLists, s \in {<<>>, <<Called(<<"s">>, "s")>>}, d \in {<<>>, <<"fraction">>, <<"year">>}, i \in {<<(<<"<", "m", "@", "x", ">">>)>>}}

Valid(messages) == {m \in messages : ValidateBasic(m) = "none"}

-----------------------------------------------------------------------------
Via(provider, resolves) == [provider |-> provider, resolves |-> resolves]
K == <<"k">>
Plainly == [foreign |-> <<>>, transport |-> K, message |-> Base, options |-> NoSendOptions, mode |-> "queued",
            customEnvelope |-> FALSE, defaults |-> TRUE, types |-> <<>>, catchAll |-> FALSE,
            routes |-> <<(<<K, Via("memory", FALSE)>>)>>]
Routed(provider, resolves) == <<(<<K, Via(provider, resolves)>>)>>
Providers == {"resend", "cloudflare", "memory"}

ByMessage == {[Plainly EXCEPT !.message = m, !.routes = Routed(p, FALSE)] :
                m \in Valid(Addressed \cup Answered \cup Attached \cup Written \cup Headed), p \in Providers}
             \cup {[Plainly EXCEPT !.message = m, !.routes = Routed(p, TRUE)] : m \in Valid(Attached), p \in Providers}

Envelopes == {<<>>, <<[mailFrom |-> <<Mail("f")>>, rcptTo |-> <<Mail("z"), Mail("t")>>]>>, <<[mailFrom |-> <<>>, rcptTo |-> <<>>]>>}
Controls2 == {[envelope |-> e, slots |-> NoSlots, timeout |-> t, key |-> k, correlation |-> c] :
                e \in Envelopes, t \in {<<>>, <<[secs |-> 1, nanos |-> 0]>>}, k \in {<<>>, <<(<<"a", " ", "nonascii">>)>>}, c \in {<<>>, <<K>>}}
ByControls == {[Plainly EXCEPT !.options = o, !.mode = mode, !.customEnvelope = c, !.routes = Routed(p, FALSE)] :
                 o \in Controls2, mode \in {"queued", "sent"}, c \in BOOLEAN, p \in Providers}

ResendValues == {WithTag(ResendSendOptionsNew, [name |-> "n", value |-> "v"]),
                 WithTemplate(ResendSendOptionsNew, [id |-> "t", variables |-> <<Obj(<<(<<"a", Null>>)>>)>>])}
RestateValues == {[mode |-> m, delay |-> d] : m \in {<<>>, <<"queued">>, <<"sent">>}, d \in {<<>>, <<[secs |-> 2, nanos |-> 0]>>}}
Maybe(slots, type, values) == {slots} \cup {Insert(slots, type, v) : v \in values}
AllSlots == UNION {UNION {UNION {Maybe(c, "AppTrace", {"w"}) : c \in Maybe(b, "AppTags", {"v"})} :
                     b \in Maybe(a, "RestateSendOptions", RestateValues)} : a \in Maybe(NoSlots, "ResendSendOptions", ResendValues)}
Registries == {[defaults |-> d, types |-> t] : d \in BOOLEAN,
                 t \in {<<>>, <<"AppTrace">>, <<"AppTags">>, <<"AppTags", "AppTrace", "RestateSendOptions">>}}
ByOptions == {[Plainly EXCEPT !.options.slots = s, !.mode = mode, !.defaults = r.defaults, !.types = r.types,
                              !.routes = Routed("resend", FALSE)] :
                s \in AllSlots, r \in Registries, mode \in {"queued", "sent"}}

J == <<"j">>
ByRoute == {[Plainly EXCEPT !.transport = t, !.catchAll = c, !.routes = r, !.mode = m] :
              t \in {K, J}, c \in BOOLEAN, m \in {"queued", "sent"},
              r \in {Routed("resend", FALSE), Routed("memory", FALSE) \o Routed("resend", FALSE),
                     <<(<<J, Via("memory", FALSE)>>)>> \o Routed("cloudflare", FALSE)}}

-----------------------------------------------------------------------------
(* Requests of other programs: fields in any order, unknown ones, nulls,   *)
(* addresses as strings, old and odd spellings.                            *)
F(key, value) == <<key, value>>
TextJson == Obj(<<F("type", Word("text")), F("text", Word("a"))>>)
Strings == {Str(<<Addr(Capital("t"))>>), Str(DisplayMailbox(Called(<<"a", "quote">>, "t"))), Str(Plain(<<"a">>)),
            Str(DisplayAddressList(<<Group(<<"a">>, <<Bare("c"), Called(<<"b">>, "d")>>)>>)), Null, Str(<<>>),
            WriteMailboxJson(Mailbox(<<>>, Capital("t"))), Obj(<<F("type", Word("group")), F("name", Word("a")), F("members", Arr(<<Str(<<Addr(Capital("t"))>>)>>))>>),
            Obj(<<F("name", Word("a")), F("email", Str(<<Addr(Mail("t"))>>))>>)}
Types == {Str(Plain(t)) : t \in {<<"TEXT", "/", "PLAIN">>, <<" ", "text", "/", "plain", "semicolon", "A", "=", " ", "A", " ">>, <<"text">>,
          <<"text", "/", "plain", "semicolon", "a", "=", "quote", "A", "semicolon", "backslash", "quote", "quote">>, <<"text", "/", "plain", "semicolon">>}}
FileJson(type, extra) == Obj(<<F("content_type", type)>> \o extra \o <<F("body", Obj(<<F("type", Word("bytes")), F("bytes", WriteBytes(Plain(<<"a">>)))>>))>>)
Ids == {Str(Plain(t)) : t \in {<<"<", "m", "@", "A", ">">>, <<" ", "<", "m", "@", "[", "A", "]", ">">>, <<"m", "@", "A">>, <<"<", "m", ">">>}}

FromTo(to) == <<F("from", WriteMailboxJson(Bare("f"))), F("to", Arr(<<to>>))>>
MessageJsons ==
    {Obj(FromTo(s) \o <<F("body", TextJson)>>) : s \in Strings}
    \cup {Obj(<<F("body", TextJson), F("from", s), F("cc", Arr(<<WriteMailboxJson(Bare("t"))>>))>>) : s \in Strings}
    \cup {Obj(FromTo(WriteMailboxJson(Bare("t"))) \o <<F("body", TextJson)>> \o e) :
            e \in {<<F("subject", Null), F("unknown", Null)>>, <<F("subject", Word("a")), F("subject", Word("b"))>>, <<F("attachments", Null)>>,
                   <<F("headers", Arr(<<Obj(<<F("name", Word("Bcc")), F("value", Word("a"))>>)>>))>>, <<F("headers", Arr(<<Obj(<<F("name", Word("X")), F("value", Word("nl"))>>)>>))>>}
                 \cup {<<F("message_id", i)>> : i \in Ids}
                 \cup {<<F("attachments", Arr(<<FileJson(t, x)>>))>> : t \in Types,
                         x \in {<<>>, <<F("inline", <<"bool", TRUE>>)>>, <<F("disposition", Word("inline")), F("inline", <<"bool", FALSE>>)>>}}
                 \cup {<<F("body", TextJson)>>}}
    \cup {Obj(FromTo(WriteMailboxJson(Bare("t"))) \o <<F("body", b)>>) :
            b \in {Obj(<<F("type", Word("mime")), F("part", Obj(<<F("type", Word("multipart")), F("content_type", Word("text"))>>))>>),
                   Obj(<<F("text", Word("a"))>>), Obj(<<F("html", Word("a")), F("type", Word("html")), F("text", Word("b"))>>)}
                  \cup {Obj(<<F("type", Word("mime")), F("part", Obj(<<F("content_type", t), F("type", Word("multipart")), F("boundary", Null)>>))>>) :
                           t \in Types}}

OptionJsons ==
    {<<>>, <<F("options", Null)>>, <<F("options", Obj(<<>>))>>, <<F("options", Obj(<<>>)), F("options", Obj(<<>>))>>, <<F("other", Null)>>}
    \cup {<<F("options", Obj(o))>> :
            o \in {<<F("transport_options", Obj(t))>> :
                     t \in {<<F("other", Word("a")), F("resend", Obj(<<>>))>>, <<F("resend", Null)>>,
                            <<F("resend", Obj(<<>>)), F("resend", Obj(<<F("tags", Arr(<<>>)), F("template", Obj(<<F("id", Word("a"))>>))>>))>>}}
                  \cup {<<F("timeout", d)>> : d \in {Null, Obj(<<F("nanos", <<"num", 0>>), F("secs", <<"num", 1>>)>>), <<"num", 1>>}}
                  \cup {<<F("idempotency_key", k)>> : k \in {Null, Str(<<>>), Word("a"), Word("ctl"), Str(Plain([i \in 1..5 |-> "a"]))}}
                  \cup {<<F("envelope", e), F("envelope", Null)>> : e \in {Null, Obj(<<>>), Word("a")}}
                  \cup {<<F("envelope", Obj(<<F("rcpt_to", Arr(<<Str(<<Addr(Capital("z"))>>)>>))>>))>>}}

Whole(message, options) == Obj(<<F("message", message)>> \o options \o <<F("transport", Text(K))>>)
Requests == {Whole(m, <<>>) : m \in MessageJsons} \cup {Whole(WriteMessage(Base), o) : o \in OptionJsons}
            \cup {Obj(<<F("message", WriteMessage(Base))>>), Obj(<<F("transport", Text(K))>>), Null,
                  Obj(<<F("transport", Str(<<>>)), F("message", WriteMessage(Base))>>)}
ByStrangers ==
    {[Plainly EXCEPT !.foreign = <<[json |-> j, trailing |-> FALSE]>>, !.routes = Routed(p, TRUE)] : j \in Requests, p \in Providers}
    \cup {[Plainly EXCEPT !.foreign = <<[json |-> Whole(WriteMessage(Base), <<>>), trailing |-> TRUE]>>]}

RECURSIVE PartsOf(_)
PartsOf(value) ==
    {value} \cup CASE Is("arr", value) -> UNION {PartsOf(value[2][i]) : i \in DOMAIN value[2]}
                   [] Is("obj", value) -> UNION {PartsOf(value[2][i][2]) : i \in DOMAIN value[2]}
                   [] OTHER -> {}
MCJsonValues == UNION {PartsOf(value) : value \in Requests}

MCScenarios == ByMessage \cup ByControls \cup ByOptions \cup ByRoute \cup ByStrangers
=============================================================================
