--------------------------- MODULE MCWireRoundTrip ---------------------------
EXTENDS WireRoundTrip

Mail(user) == [user |-> user, host |-> "x", literal |-> FALSE, caps |-> FALSE, valid |-> TRUE]
Named(name, user) == Mailbox(<<name>>, Mail(user))
Bare(user) == Mailbox(<<>>, Mail(user))

MCNames == {"From", "Sender", "To", "Cc", "Bcc", "Reply-To", "Subject", "Date", "Message-ID", "X",
            "References", "MIME-Version", "Content-Type", "Content-Transfer-Encoding",
            "Content-Disposition", "Content-ID"}
MCNameLength == [n \in MCNames \cup {"Long"} |-> IF n = "Long" THEN 11 ELSE 1]

(* A file name of each kind: in printable ASCII, with blanks to fold at,   *)
(* with marks that are quoted, too long for a line; with a tab, and with a *)
(* character that is not ASCII, which are both written byte by byte.       *)
MCFileNames ==
    [ascii |-> <<"a">>, spaced |-> <<"a", " ", " ", "a", "b", "a", "b", "a", "b">>,
     quoted |-> <<"quote", "backslash", " ", "a">>, long |-> [i \in 1..9 |-> "a"],
     tabbed |-> <<"a", "tab">>, utf8 |-> <<"nonascii">>]

Text(kind, octets) == IF kind = "text" THEN [kind |-> "text", text |-> octets] ELSE [kind |-> "html", html |-> octets]
Lf == O("lf")
A == O("a")
Short == <<A, Lf, A>>
Base == MessageNew(Bare("f"), <<Bare("t")>>, Text("text", <<A>>))

SeqsUpTo(S, n) == UNION {[1..k -> S] : k \in 0..n}

Subjects == SeqsUpTo({"a", " ", "tab", "nonascii", "look"}, 3)
            \cup {[i \in 1..14 |-> "a"], [i \in 1..20 |-> IF i % 5 = 0 THEN " " ELSE "a"],
                  <<"nonascii", "a", "nonascii", " ", "nonascii", "a", "a", "nonascii">>, <<"qlook", " ", "raw">>, <<"a", "ctl">>, <<"nl">>}
Phrases == {t \in SeqsUpTo({"a", " ", "nonascii", "look", "quote", "backslash"}, 3) :
              t # <<>> /\ " " \notin {t[1], t[Len(t)]}}

HeaderMessages ==
    {[Base EXCEPT !.subject = <<s>>] : s \in Subjects}
    \cup {[Base EXCEPT !.from = <<Named(p, "f")>>, !.to = <<Group(p, <<Named(p, "m"), Bare("n")>>), Bare("t")>>,
                       !.bcc = <<Bare("b")>>] : p \in Phrases}
    \cup {[Base EXCEPT !.sender = <<Bare("s")>>, !.cc = <<Named(<<"a">>, "c"), Group(<<"b">>, <<>>), Bare("d")>>,
                       !.replyTo = <<Bare("r")>>, !.date = <<d>>, !.messageId = <<"id">>, !.headers = hs] :
            d \in {"whole", "fraction", "year"},
            hs \in {<<Field("X", Plain(<<"a", " ", "look">>)), Field("References", Plain(<<"a">>)), Field("X", Plain(<<"nonascii">>))>>,
                    <<Field("References", Plain(<<"nonascii">>))>>, <<Field("Long", <<>>)>>, <<Field("Long", Plain(<<"a">>))>>,
                    <<Field("Subject", <<>>)>>, <<Field("X", Plain([i \in 1..13 |-> "b"]))>>}}
    \cup {[Base EXCEPT !.from = <<>>], [Base EXCEPT !.to = <<>>], [Base EXCEPT !.to = <<>>, !.bcc = <<Bare("b")>>]}
    \cup {[Base EXCEPT ![field] = [i \in 1..n |-> Bare("t")]] : field \in {"to", "cc", "replyTo"}, n \in {20, 21}}
    \cup {[Base EXCEPT !.body = Text("text", [i \in 1..n |-> IF i % 10 = 0 THEN Lf ELSE A])] : n \in {215, 216}}

Opaque == Type("application/x")
Mixed(b) == [Type("multipart/mixed") EXCEPT !.boundary = b]
Nb == NoBoundary
Lf1(body, encoding) == Leaf(Opaque, encoding, NoDisposition, body)
Octets == {<<>>, <<A>>, <<A, O("sp")>>, <<A, O("cr"), Lf>>, <<Lf, O("hi"), O("=")>>, <<Open(Boundary("x", 0))>>,
           <<Lf, Open(NextBoundary(0)), Lf>>}
X(n) == Boundary("x", n)
Trees ==
    {Lf1(o, e) : o \in Octets, e \in {"none", "8bit", "base64", "quoted-printable"}}
    \cup {Multipart(Type("multipart/mixed"), b, <<Lf1(o, e), Lf1(<<A>>, "none")>>) :
            o \in Octets, e \in {"none", "quoted-printable"}, b \in {Nb, X(0)}}
    \cup {Multipart(Type("multipart/mixed"), b, <<Multipart(t, c, <<Lf1(o, "none")>>)>>) :
            o \in {<<A>>, <<Open(X(0))>>}, b \in {Nb, X(0)}, c \in {Nb, X(0), X(1)},
            t \in {Type("multipart/related"), Mixed(X(1)), Mixed(X(2))}}
    \cup {Multipart(Mixed(Nb), Nb, <<Multipart(Mixed(Nb), Nb, <<Multipart(Mixed(Nb), Nb, <<l>>)>>)>>) : l \in {Lf1(<<A>>, "none")}}
    \cup {Multipart(Mixed(Nb), Nb, <<Multipart(Mixed(Nb), Nb, <<Lf1(<<A>>, "base64")>>), Lf1(<<A>>, "none"), Lf1(<<Lf>>, "none")>>)}
    \cup {Multipart(Mixed(X(0)), X(1), <<Lf1(<<A>>, "none")>>), Multipart(Mixed(Nb), Boundary("", 0), <<Lf1(<<A>>, "none")>>),
          Multipart(Mixed(Nb), Nb, <<>>), Multipart(Opaque, Nb, <<Lf1(<<A>>, "none")>>),
          Multipart(Mixed(Nb), Nb, [i \in 1..4 |-> Lf1(<<A>>, "none")]), Leaf(Mixed(X(0)), "none", NoDisposition, <<A>>),
          Leaf(Mixed(X(0)), "none", NoDisposition, <<Open(X(0)), Lf, Lf, A, Lf, Close(X(0))>>),
          Leaf(Type("text/plain"), "base64", Disposition("inline", "none"), <<Lf, A>>),
          Leaf([Type("text/plain") EXCEPT !.charset = "iso-8859-1"], "8bit", Disposition("inline", "spaced"), <<O("hi")>>),
          Multipart(Mixed(Boundary("", 0)), Nb, <<Leaf(Opaque, "none", Disposition("attachment", "spaced"), <<A>>)>>),
          Multipart(Mixed(Nb), Nb, <<Leaf([Opaque EXCEPT !.charset = "nonascii"], "none", NoDisposition, <<A>>)>>),
          Multipart(Mixed(Nb), Nb, <<Leaf([Type("text/html") EXCEPT !.charset = "iso-8859-1"], "8bit", NoDisposition, <<O("hi")>>)>>),
          Multipart(Mixed(Nb), Nb, <<Lf1(<<Lf, Open(NextBoundary(0)), Lf, Close(NextBoundary(1))>>, "none")>>)}

TextOctets == {<<>>, Short, <<A, O("cr"), O("sp")>>, <<O("hi"), O("cr"), Lf>>, [i \in 1..13 |-> IF i = 5 THEN O("sp") ELSE A],
               [i \in 1..12 |-> A], [i \in 1..16 |-> IF i \in {2, 3} THEN Lf ELSE A]}
Bodies ==
    {Text(k, o) : k \in {"text", "html"}, o \in TextOctets}
    \cup {[kind |-> "both", text |-> o, html |-> Short] : o \in TextOctets}
    \cup {[kind |-> "mime", part |-> t] : t \in Trees}

File(name, cid, inline, content) ==
    [type |-> Opaque, filename |-> name, cid |-> cid, inline |-> inline, reference |-> FALSE, content |-> content]
Regular == File("ascii", "none", FALSE, <<A>>)
Related == File("utf8", "ok", FALSE, <<O("hi")>>)
Attached == {<<>>, <<Regular>>, <<Related>>, <<Regular, Related>>, <<Related, Regular, File("none", "none", TRUE, <<>>)>>,
             <<Regular, Regular>>, <<Regular, Regular, Regular>>, <<File("none", "bad", FALSE, <<>>)>>,
             <<[Regular EXCEPT !.reference = TRUE]>>, <<File("unsafe", "none", FALSE, <<>>)>>,
             <<File("spaced", "none", FALSE, <<A>>), File("quoted", "none", TRUE, <<>>)>>, <<File("tabbed", "none", FALSE, <<>>)>>,
             <<File("long", "none", FALSE, <<>>)>>, <<[Regular EXCEPT !.type = Type("multipart/mixed")]>>}

BodyMessages ==
    {[Base EXCEPT !.body = b, !.attachments = a] : b \in Bodies, a \in Attached}
    \cup {[Base EXCEPT !.body = b, !.headers = <<Field("Content-Type", TypeText(Type("text/html"))), Field("MIME-Version", Plain(<<"a">>))>>] :
            b \in {Text("text", Short), Text("html", Short), Text("text", <<O("hi")>>)}}

MCMessages == HeaderMessages \cup BodyMessages

Fld(name, value) == [name |-> name, value |-> value]
Cont(value) == [name |-> "", value |-> value]
From == Fld("From", <<Addr(Mail("f"))>>)
ToGroup == Fld("To", <<Addr(Mail("a")), Punct(","), Char(" "), Char("a"), Punct(":"), Addr(Mail("b")), Punct(";"), Punct(","), Addr(Mail("d"))>>)
Shouted == Fld("To", <<Addr([Mail("t") EXCEPT !.caps = TRUE])>>)
Subject(value) == Fld("Subject", value)
TypeField(t) == Fld("Content-Type", TypeText(t))
F(line) == <<"field", line>>
EncodingField(e) == Fld("Content-Transfer-Encoding", <<(<<"encoding", e>>)>>)
B(text) == <<"B", text>>
Q(text) == <<"Q", text>>
Section(b, octets) == <<Open(b), Lf>> \o octets \o <<Lf>>

(* A header of a part as other programs fold it: a file name on two lines. *)
Folded ==
    LET text == DispositionText(Disposition("attachment", "spaced"))
    IN  <<F(Fld("Content-Disposition", SubSeq(text, 1, 2))), Lf, F(Cont(SubSeq(text, 3, 6))), O("cr"), Lf,
          F(Cont(SubSeq(text, 7, Len(text)))), Lf>>

SubjectWires == {[lines |-> <<From, ToGroup, Shouted, Subject(v)>>, body |-> <<A>>] :
    v \in {<<Q(<<"a", "nonascii">>), Char(" "), B(<<"nonascii">>)>>, <<Char(" "), Char("a"), B(<<"a">>), Char("b")>>,
           <<(<<"raw", <<"a">>>>), Char(" "), B(<<"a">>)>>, <<B(<<"a">>), Char(" "), Char("a"), Char(" "), B(<<"b">>)>>,
           <<B(<<"look">>)>>, <<B(<<"nonascii">>), Char(" "), B(<<"look">>)>>}}
OtherWires == {
    [lines |-> <<Cont(<<Char(" "), Char("a")>>), From>>, body |-> <<>>],
    [lines |-> <<From, Subject(<<Char("a")>>), Cont(<<Char("tab"), B(<<"nonascii">>)>>), Cont(<<>>)>>, body |-> <<>>],
    [lines |-> <<From, Shouted, Fld("From", <<Char("a")>>)>>, body |-> <<>>],
    [lines |-> <<From, Fld("To", <<Char("nonascii")>>)>>, body |-> <<>>], [lines |-> <<From, Fld(NoColon, <<>>)>>, body |-> <<>>],
    [lines |-> <<From, Fld("Bcc", <<>>)>>, body |-> <<>>], [lines |-> <<From, Shouted, Fld("Bcc", <<Addr(Mail("b"))>>)>>, body |-> <<A>>],
    [lines |-> <<From, Shouted, Fld("Content-Type", <<Char("a")>>)>>, body |-> <<A>>],
    [lines |-> <<From, Shouted>>, body |-> [i \in 1..MaxInput |-> A]],
    [lines |-> <<From, Fld("To", Plain([i \in 1..(MaxAddressInput + 1) |-> "a"]))>>, body |-> <<>>],
    [lines |-> <<From, Shouted, Fld("Content-Type", <<Char("a")>>), TypeField(Mixed(X(0)))>>,
     body |-> Section(X(0), Folded \o <<Lf, A>>) \o <<Close(X(0))>>],
    [lines |-> <<Shouted, Fld("Date", <<Char("a")>>)>>, body |-> <<>>],
    [lines |-> <<Shouted, Fld("Message-ID", <<>>)>>, body |-> <<>>], [lines |-> <<Shouted>>, body |-> Short]}
BodyWires == {[lines |-> <<From, Shouted, TypeField(t), EncodingField(e)>>, body |-> b] :
    t \in {Mixed(X(0)), Mixed(Nb), Type("text/html"), [Type("text/plain") EXCEPT !.charset = "iso-8859-1"], Opaque},
    e \in {"none", "7bit", "base64", "quoted-printable", "other"},
    b \in {Short, <<O("hi"), Lf>>, <<(<<"b64", <<O("hi")>>>>), Lf>>,
           Section(X(0), <<Lf, A>>) \o <<Close(X(0))>>, Section(X(0), <<Lf, A>>),
           <<A, Lf>> \o Section(X(0), <<F(TypeField(Opaque)), Lf, Lf, A>>) \o <<Close(X(0)), O("sp"), Lf, A>>,
           Section(X(0), <<F(Fld("Content-Disposition", <<Char(";")>>)), Lf, Lf, A>>) \o <<Close(X(0))>>,
           Section(X(0), <<F(Cont(<<Char(" ")>>)), Lf, Lf, A>>) \o <<Close(X(0))>>, Section(X(0), <<A, Lf, Lf, A>>) \o <<Close(X(0))>>,
           Section(X(0), <<F(TypeField(Mixed(X(1)))), Lf, Lf>> \o Section(X(1), <<Lf, A>>) \o <<Close(X(1))>>) \o <<Close(X(0))>>,
           Section(X(0), <<Lf>>) \o Section(X(0), <<Lf>>) \o Section(X(0), <<Lf>>) \o Section(X(0), <<Lf>>) \o <<Close(X(0))>>}}
MCInbound == SubjectWires \cup OtherWires \cup BodyWires

(* Words in both encodings, as other programs write them. *)
QInbound == {[lines |-> <<From, Shouted, Subject(v)>>, body |-> <<A>>] :
    v \in {<<Q(<<"nonascii">>)>>, <<Q(<<"a", "nonascii">>)>>, <<B(<<"nonascii">>)>>}}

MCOptions == {[bcc |-> b, soft |-> s] : b \in BOOLEAN, s \in {NoFold, 6, 20}}
OneOption == {[bcc |-> FALSE, soft |-> NoFold]}
NoMessages == {}
=============================================================================
