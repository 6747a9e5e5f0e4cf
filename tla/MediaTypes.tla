----------------------------- MODULE MediaTypes -----------------------------
(***************************************************************************)
(* The validated strings of a message: media types, dispositions and       *)
(* transfer encodings (email-message, mime_types.rs), message ids          *)
(* (message_id.rs), and the keys and ids of a send (email-transport,       *)
(* string_newtype.rs).  Each is read from a text, a sequence of characters *)
(* and words, into the spelling that is compared and written from then on. *)
(* An option is <<>> or <<value>>.                                         *)
(***************************************************************************)
EXTENDS Integers, Sequences, SequencesExt, FiniteSetsExt

CONSTANT MaxNewtype     \* STRING_NEWTYPE_MAX_BYTES: 1024 in the code

ASSUME MediaTypesAssumption == MaxNewtype \in Nat

Capitals == [TEXT |-> "text", PLAIN |-> "plain", A |-> "a", BASE64 |-> "base64"]
LowerChar(c) == IF c \in DOMAIN Capitals THEN Capitals[c] ELSE c
Lower(text) == [i \in DOMAIN text |-> LowerChar(text[i])]

White == {" ", "tab", "nl"}
Controls == {"nl", "nul", "ctl"}
NoTokenChars == White \cup Controls
                \cup {"/", "semicolon", "=", "quote", "backslash", "@", "<", ">", "[", "]", "nonascii", "tag"}

In(text, chars) == \E i \in DOMAIN text : text[i] \in chars
IsMimeToken(text) == ~In(text, NoTokenChars)

Trimmed(text) ==
    LET solid == {i \in DOMAIN text : text[i] \notin White}
    IN  IF solid = {} THEN <<>> ELSE SubSeq(text, Min(solid), Max(solid))

(* split_once: what is before and after the first c. *)
SplitOnce(text, c) ==
    LET found == {i \in DOMAIN text : text[i] = c}
    IN  IF found = {} THEN <<>>
        ELSE <<[before |-> SubSeq(text, 1, Min(found) - 1), after |-> SubSeq(text, Min(found) + 1, Len(text))]>>

-----------------------------------------------------------------------------
(* A ";" in quotes separates nothing. *)
NoSegments == [done |-> <<>>, current |-> <<>>, quoted |-> FALSE, escaped |-> FALSE]
Taken(s, c) == [s EXCEPT !.current = Append(@, c), !.escaped = FALSE]
TakeChar(s, c) ==
    CASE ~s.escaped /\ s.quoted /\ c = "backslash" -> [Taken(s, c) EXCEPT !.escaped = TRUE]
      [] ~s.escaped /\ c = "quote" -> [Taken(s, c) EXCEPT !.quoted = ~@]
      [] ~s.escaped /\ ~s.quoted /\ c = "semicolon" -> [s EXCEPT !.done = Append(@, s.current), !.current = <<>>]
      [] OTHER -> Taken(s, c)
Scanned(start, text) ==
    LET after[i \in 0..Len(text)] == IF i = 0 THEN start ELSE TakeChar(after[i - 1], text[i])
    IN  after[Len(text)]
SplitSegments(text) == LET end == Scanned(NoSegments, text) IN Append(end.done, end.current)

(* Between quotes everything but a bare quote and a control character. *)
ReadQuoted(state, c) ==
    CASE state = "bad" \/ c \in Controls -> "bad"
      [] state = "escaped" /\ c \notin Controls -> "open"
      [] state = "open" /\ c = "backslash" -> "escaped"
      [] state = "open" /\ c = "quote" -> "bad"
      [] OTHER -> "open"
IsQuotedValue(text) ==
    LET after[i \in 0..(Len(text) - 2)] == IF i = 0 THEN "open" ELSE ReadQuoted(after[i - 1], text[i + 1])
    IN  Len(text) >= 2 /\ text[Len(text)] = "quote" /\ after[Len(text) - 2] = "open"

IsParameterValue(text) == IF text[1] = "quote" THEN IsQuotedValue(text) ELSE IsMimeToken(text)

CanonicalHead(text, withSubtype) ==
    LET split == SplitOnce(text, "/")
        named(token) == token # <<>> /\ IsMimeToken(token)
        typed == split # <<>> /\ named(split[1].before) /\ named(split[1].after)
    IN  IF (IF withSubtype THEN typed ELSE named(text)) THEN <<Lower(text)>> ELSE <<>>

CanonicalParameter(text) ==
    LET parameter(name, value) ==
          IF name # <<>> /\ value # <<>> /\ IsMimeToken(name) /\ IsParameterValue(value)
          THEN <<(<<"semicolon", " ">> \o Lower(name) \o <<"=">> \o value)>> ELSE <<>>
        divided(split) ==
          IF split = <<>> THEN <<>> ELSE parameter(Trimmed(split[1].before), Trimmed(split[1].after))
    IN  divided(SplitOnce(text, "="))

(* Names in lower case, one blank after each ";", values as they are. *)
Normalized(text, withSubtype) ==
    LET parts(segments) == [i \in DOMAIN segments |-> IF i = 1 THEN CanonicalHead(Trimmed(segments[1]), withSubtype)
                                                               ELSE CanonicalParameter(Trimmed(segments[i]))]
        joined(all) == IF \E i \in DOMAIN all : all[i] = <<>> THEN <<>>
                       ELSE <<FlattenSeq([i \in DOMAIN all |-> all[i][1]])>>
    IN  joined(parts(SplitSegments(Trimmed(text))))

ContentTypeFromStr(text) == Normalized(text, TRUE)
ContentDispositionFromStr(text) == Normalized(text, FALSE)
TransferEncodingFromStr(text) ==
    IF Trimmed(text) # <<>> /\ IsMimeToken(Trimmed(text)) THEN <<Lower(Trimmed(text))>> ELSE <<>>

-----------------------------------------------------------------------------
(* addr-spec: one "@", no blanks or quotes around it; a literal in [].     *)
AddrSpecDomain(inner) ==
    LET split == SplitOnce(inner, "@")
        literal == split[1].after[1] = "[" /\ Last(split[1].after) = "]"
    IN  IF In(split[1].before, NoTokenChars) \/ (~literal /\ In(split[1].after, NoTokenChars)) THEN "invalid"
        ELSE IF literal THEN "literal" ELSE "name"

(* <local@domain>, the domain in lower case unless it is a literal. *)
MessageIdFromStr(text) ==
    LET canonical(split, domain) ==
          IF domain = "invalid" THEN <<>>
          ELSE <<(<<"<">> \o split.before \o <<"@">>
                 \o (IF domain = "literal" THEN split.after ELSE Lower(split.after)) \o <<">">>)>>
        ofAddr(inner, split) ==
          IF split # <<>> /\ inner[1] # "quote" /\ split[1].before # <<>> /\ split[1].after # <<>>
          THEN canonical(split[1], AddrSpecDomain(inner)) ELSE <<>>
        within(inner) == ofAddr(inner, SplitOnce(inner, "@"))
        bracketed(value) ==
          IF Len(value) >= 2 /\ value[1] = "<" /\ Last(value) = ">" /\ ~In(value, White)
          THEN within(SubSeq(value, 2, Len(value) - 1)) ELSE <<>>
    IN  bracketed(Trimmed(text))

(* A wide character counts twice. *)
ByteLength(text) == Len(text) + Cardinality({i \in DOMAIN text : text[i] \in {"nonascii", "tag"}})

ValidateNewtype(text) ==
    CASE text = <<>> -> "Empty"
      [] ByteLength(text) > MaxNewtype -> "TooLong"
      [] In(text, {"tag"}) /\ ByteLength(text) <= MaxNewtype -> "UnicodeTag"
      [] In(text, Controls) /\ ~In(text, {"tag"}) /\ ByteLength(text) <= MaxNewtype -> "Control"
      [] OTHER -> "none"

NewtypeFromStr(text) == IF ValidateNewtype(text) = "none" THEN <<text>> ELSE <<>>
=============================================================================
