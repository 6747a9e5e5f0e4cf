---------------------------- MODULE EncodedWords ----------------------------
(***************************************************************************)
(* RFC 2047 encoded words as email-message-wire writes and reads them      *)
(* (rfc822/encoded_word.rs), and the width a header value has on a line.   *)
(*                                                                         *)
(* A text is a sequence of characters.  A header value is a sequence of    *)
(* pieces <<form, text>>: a plain character, or an encoded word in the "B" *)
(* or the "Q" encoding, or one ("raw") whose charset or encoding the       *)
(* decoder does not know.  An encoded word holds no blank, so folding      *)
(* never breaks a piece.                                                   *)
(***************************************************************************)
EXTENDS Integers, Sequences, SequencesExt, FiniteSetsExt

CONSTANTS
    MaxChunkBytes,      \* UTF-8 bytes in one encoded word: 45 in the code
    WordOverhead        \* bytes around its base64 text: 12 in the code

ASSUME EncodedWordsAssumption == MaxChunkBytes \in Nat \ {0} /\ WordOverhead \in Nat

(* ASCII text that has the shape of an encoded word: of "a" or nothing in  *)
(* base64, of a letter in Q, of "a" in a charset the decoder does not      *)
(* know.                                                                   *)
Lookalikes == [look |-> <<"B", <<"a">>>>, empty |-> <<"B", <<>>>>, qlook |-> <<"Q", <<"nonascii">>>>, raw |-> <<"raw", <<"a">>>>]

Blanks == {" ", "tab"}
NonAscii == {"nonascii"}
IsAscii(text) == \A i \in DOMAIN text : text[i] \notin NonAscii

Char(c) == IF c \in DOMAIN Lookalikes THEN Lookalikes[c] ELSE <<"char", <<c>>>>
Plain(text) == [i \in DOMAIN text |-> Char(text[i])]
AsChar(piece) == IF piece[1] = "char" THEN piece[2][1]
                 ELSE CHOOSE c \in DOMAIN Lookalikes : Lookalikes[c] = piece
AsText(value) == [i \in DOMAIN value |-> AsChar(value[i])]
IsWord(piece) == piece[1] \in {"B", "Q", "raw"}
IsBlank(piece) == piece[1] = "char" /\ piece[2][1] \in Blanks

TrimBlanks(value) ==
    LET ink == {i \in DOMAIN value : ~IsBlank(value[i])}
    IN  IF ink = {} THEN <<>> ELSE SubSeq(value, Min(ink), Max(ink))

Bytes(text) ==
    LET upTo[i \in 0..Len(text)] ==
          IF i = 0 THEN 0 ELSE upTo[i - 1] + (IF text[i] \in NonAscii THEN 2 ELSE 1)
    IN  upTo[Len(text)]
Width(piece) == IF IsWord(piece) THEN WordOverhead + 4 * ((Bytes(piece[2]) + 2) \div 3)
                                 ELSE 1
Length(value) ==
    LET upTo[i \in 0..Len(value)] == IF i = 0 THEN 0 ELSE upTo[i - 1] + Width(value[i])
    IN  upTo[Len(value)]

-----------------------------------------------------------------------------
(* Writing.  A chunk takes as many whole characters as fit; a character    *)
(* wider than a chunk takes the rest of the text with it.                  *)
Chunks(text) ==
    LET fitting(start) == {n \in start..Len(text) : Bytes(SubSeq(text, start, n)) <= MaxChunkBytes}
        end(start) == IF fitting(start) = {} THEN Len(text) ELSE Max(fitting(start))
        from[start \in 1..(Len(text) + 1)] ==
          IF start > Len(text) THEN <<>> ELSE <<SubSeq(text, start, end(start))>> \o from[end(start) + 1]
    IN  from[1]

(* Words joined by one blank. *)
Base64Words(text) ==
    Tail(FlattenSeq([i \in DOMAIN Chunks(text) |-> <<Char(" "), <<"B", Chunks(text)[i]>>>>]))

EncodeUnstructured(text) == IF IsAscii(text) THEN Plain(text) ELSE Base64Words(text)

QuotePhrase(text) ==
    LET escaped(c) == IF c \in {"quote", "backslash"} THEN <<Char("backslash"), Char(c)>>
                                                      ELSE <<Char(c)>>
    IN  <<Char("quote")>> \o FlattenSeq([i \in DOMAIN text |-> escaped(text[i])]) \o <<Char("quote")>>

EncodePhrase(text) == IF IsAscii(text) THEN QuotePhrase(text) ELSE Base64Words(text)

-----------------------------------------------------------------------------
(* Reading.  The decoder looks for the end of a word, "?=", from the start *)
(* of the word: in a Q word whose text begins with an escape ("=C3...")    *)
(* the "?" before the text and its first "=" are taken for that end, and   *)
(* what is left of the word is not one.                                    *)
EndsEarly(word) == word[1] = "Q" /\ word[2] # <<>> /\ word[2][1] \in NonAscii

Decodable(word) == word[1] \in {"B", "Q"} /\ ~EndsEarly(word)

(* The pieces before idx are in out; plain is what follows them.  A word   *)
(* that decodes to nothing leaves out empty, and the next word then copies *)
(* all that was read before it.                                            *)
DecodePiece(s, piece) ==
    LET base == IF s.out = <<>> THEN s.read ELSE s.out
        joined == s.afterWord /\ s.plain # <<>> /\ Decodable(piece)
                  /\ \A i \in DOMAIN s.plain : IsBlank(s.plain[i])
        gap == IF joined THEN <<>> ELSE s.plain
        start == IF joined /\ s.out = <<>> THEN s.read \o s.plain ELSE base
        text == IF Decodable(piece) THEN [i \in DOMAIN piece[2] |-> <<"char", <<piece[2][i]>>>>]
                                    ELSE <<piece>>
    IN  IF ~IsWord(piece) THEN [s EXCEPT !.plain = Append(@, piece)]
        ELSE [out |-> start \o gap \o text, plain |-> <<>>, afterWord |-> Decodable(piece),
              read |-> s.read \o s.plain \o <<piece>>]

DecodeWords(value) ==
    LET after[i \in 0..Len(value)] ==
          IF i = 0 THEN [out |-> <<>>, plain |-> <<>>, afterWord |-> FALSE, read |-> <<>>]
          ELSE DecodePiece(after[i - 1], value[i])
    IN  after[Len(value)].out \o after[Len(value)].plain

WordsLeftAlone(value) == value

(* Inside a quoted string the lead-in of a word is escaped before the      *)
(* address parser sees it, so that it stays text.                          *)
EscapePiece(s, piece) ==
    CASE s.pair -> [s EXCEPT !.pair = FALSE, !.out = Append(@, piece)]
      [] ~s.pair /\ s.quoted /\ IsWord(piece) -> [s EXCEPT !.out = Append(@, <<"escaped", piece>>)]
      [] ~s.pair /\ s.quoted /\ piece = Char("backslash") -> [s EXCEPT !.pair = TRUE, !.out = Append(@, piece)]
      [] ~s.pair /\ piece = Char("quote") -> [s EXCEPT !.quoted = ~@, !.out = Append(@, piece)]
      [] OTHER -> [s EXCEPT !.out = Append(@, piece)]

EscapeQuotedWords(value) ==
    LET after[i \in 0..Len(value)] ==
          IF i = 0 THEN [quoted |-> FALSE, pair |-> FALSE, out |-> <<>>] ELSE EscapePiece(after[i - 1], value[i])
    IN  after[Len(value)].out

(* The external address parser on a display name: quoted strings lose      *)
(* their quotes and their backslashes, words outside of them are decoded.  *)
UnquotePiece(s, piece) ==
    CASE s.pair -> [s EXCEPT !.pair = FALSE, !.out = Append(@, piece)]
      [] ~s.pair /\ s.quoted /\ piece = Char("backslash") -> [s EXCEPT !.pair = TRUE]
      [] ~s.pair /\ piece = Char("quote") -> [s EXCEPT !.quoted = ~@]
      [] OTHER -> [s EXCEPT !.out = Append(@, piece)]

Unquoted(value) ==
    LET after[i \in 0..Len(value)] ==
          IF i = 0 THEN [quoted |-> FALSE, pair |-> FALSE, out |-> <<>>] ELSE UnquotePiece(after[i - 1], value[i])
    IN  after[Len(value)].out

ParsePhrase(value) ==
    LET decodes(s, i) == i \in DOMAIN s /\ s[i][1] \in {"B", "Q"}
        text(s, i) == CASE decodes(s, i) -> s[i][2]
                        [] s[i][1] = "escaped" -> <<AsChar(s[i][2])>>
                        [] IsBlank(s[i]) /\ decodes(s, i - 1) /\ decodes(s, i + 1) -> <<>>
                        [] OTHER -> <<AsChar(s[i])>>
        texts(s) == FlattenSeq([i \in DOMAIN s |-> text(s, i)])
    IN  texts(Unquoted(value))
=============================================================================
