-------------------------- MODULE TransferEncoding --------------------------
(***************************************************************************)
(* Bodies as octets, their lines, and the transfer encodings of            *)
(* email-message-wire (rfc822/transfer_encoding.rs, rfc822/shared.rs).     *)
(*                                                                         *)
(* An octet is <<"o", c>>.  What the properties must tell apart is one     *)
(* octet of its own: <<"--", b>> is the text of a delimiter of boundary b, *)
(* <<"b64", s>> the base64 text of s, <<"=XX", c>> an escaped octet, and   *)
(* <<"field", l>> the text of l, a physical line of a part's header.       *)
(***************************************************************************)
EXTENDS HeaderLines

CONSTANTS
    QpLineLen,          \* soft breaks keep encoded text within it: 76 in the code
    DelimiterWidth      \* the width of a delimiter's text

ASSUME TransferEncodingAssumption ==
    QpLineLen \in Nat \ {0, 1, 2} /\ DelimiterWidth \in 3..QpLineLen

O(c) == <<"o", c>>
CRLF == <<O("cr"), O("lf")>>

LiteralOctets == {"a"}
BlankOctets == {O("sp")}
IsNewline(octet) == octet \in {O("cr"), O("lf")}
IsAsciiText(octets) == \A i \in DOMAIN octets : octets[i] \notin {O("hi"), O("l1")}

RECURSIVE BodyWidth(_)
OctetWidth(octet) ==
    CASE octet[1] = "--" -> DelimiterWidth
      [] octet[1] = "=XX" -> 3
      [] octet[1] = "b64" -> 4 * ((BodyWidth(octet[2]) + 2) \div 3)
      [] octet[1] = "field" -> LineLength(octet[2])
      [] OTHER -> 1
BodyWidth(octets) == FoldLeft(LAMBDA n, octet : n + OctetWidth(octet), 0, octets)

(* split on LF, as every reader of the crate does. *)
RECURSIVE RawLines(_)
RawLines(body) ==
    LET lf == SelectInSeq(body, LAMBDA octet : octet = O("lf"))
    IN  IF lf = 0 THEN <<body>>
        ELSE <<SubSeq(body, 1, lf - 1)>> \o RawLines(SubSeq(body, lf + 1, Len(body)))

StripCr(line) == IF line # <<>> /\ Last(line) = O("cr") THEN Front(line) ELSE line

RECURSIVE TrimLwspEnd(_)
TrimLwspEnd(line) == IF line # <<>> /\ Last(line) \in BlankOctets THEN TrimLwspEnd(Front(line)) ELSE line

-----------------------------------------------------------------------------
EncodeBase64(body) == IF body = <<>> THEN <<>> ELSE <<(<<"b64", body>>)>> \o CRLF

(* Octets outside the alphabet are dropped; whatever else is left beside   *)
(* the encoded text spoils it.                                             *)
DecodeBase64(body) ==
    LET kept == SelectSeq(body, LAMBDA octet : octet[1] # "o" \/ octet[2] \in LiteralOctets \cup {"="})
    IN  IF kept = <<>> THEN [ok |-> TRUE, octets |-> <<>>]
        ELSE IF Len(kept) = 1 /\ kept[1][1] = "b64" THEN [ok |-> TRUE, octets |-> kept[1][2]]
        ELSE [ok |-> FALSE, octets |-> <<>>]

QpTokenKeepsBlanks(octet, atLineEnd) ==
    IF octet[1] # "o" \/ octet[2] \in LiteralOctets \/ octet \in BlankOctets THEN octet ELSE <<"=XX", octet[2]>>

QpToken(octet, atLineEnd) ==
    IF octet[1] # "o" \/ octet[2] \in LiteralOctets \/ (octet \in BlankOctets /\ ~atLineEnd)
    THEN octet ELSE <<"=XX", octet[2]>>

EncodeQuotedPrintable(body) ==
    LET pairAt(i) == i \in DOMAIN body /\ i + 1 \in DOMAIN body /\ body[i] = O("cr") /\ body[i + 1] = O("lf")
        token(i) == QpToken(body[i], i = Len(body) \/ IsNewline(body[i + 1]))
        broken(s, t) == IF s.column + OctetWidth(t) > QpLineLen
                        THEN [out |-> s.out \o <<O("="), O("cr"), O("lf"), t>>, column |-> OctetWidth(t)]
                        ELSE [out |-> Append(s.out, t), column |-> s.column + OctetWidth(t)]
        step(s, i) == CASE pairAt(i) -> [out |-> s.out \o CRLF, column |-> 0]
                        [] ~pairAt(i) /\ pairAt(i - 1) -> s
                        [] OTHER -> broken(s, token(i))
    IN  FoldLeft(step, [out |-> <<>>, column |-> 0], [i \in DOMAIN body |-> i]).out

(* One line at a time: blanks at its end are dropped, a "=" at its end     *)
(* joins the next line to it.                                              *)
RECURSIVE DecodeQuotedPrintable(_)
DecodeQuotedPrintable(body) ==
    LET newline(end) == IF end = 0 THEN <<>>
                        ELSE IF end < Len(body) /\ SubSeq(body, end, end + 1) = CRLF THEN CRLF ELSE <<body[end]>>
        valid(encoded) == \A i \in DOMAIN encoded : encoded[i] \notin {O("="), O("hi"), O("l1")}
        decoded(encoded) == [i \in DOMAIN encoded |-> IF encoded[i][1] = "=XX" THEN O(encoded[i][2]) ELSE encoded[i]]
        joined(encoded, lineEnd, after) ==
          IF valid(encoded) THEN [after EXCEPT !.octets = decoded(encoded) \o lineEnd \o @]
          ELSE [ok |-> FALSE, octets |-> <<>>]
        read(line, lineEnd, rest) ==
          CASE line = <<>> \/ Last(line) # O("=") -> joined(line, lineEnd, DecodeQuotedPrintable(rest))
            [] line # <<>> /\ Last(line) = O("=") /\ lineEnd # <<>> -> joined(Front(line), <<>>, DecodeQuotedPrintable(rest))
            [] OTHER -> [ok |-> FALSE, octets |-> <<>>]
        cut(end, lineEnd) ==
          IF end = 0 THEN read(TrimLwspEnd(body), lineEnd, <<>>)
          ELSE read(TrimLwspEnd(SubSeq(body, 1, end - 1)), lineEnd, SubSeq(body, end + Len(lineEnd), Len(body)))
        from(end) == cut(end, newline(end))
    IN  IF body = <<>> THEN [ok |-> TRUE, octets |-> <<>>] ELSE from(SelectInSeq(body, IsNewline))

-----------------------------------------------------------------------------
(* Encodings: "none", "7bit", "8bit", "binary", "base64",                  *)
(* "quoted-printable" and "other".                                         *)
EncodeBody(body, encoding) ==
    CASE encoding = "base64" -> EncodeBase64(body)
      [] encoding = "quoted-printable" -> EncodeQuotedPrintable(body)
      [] OTHER -> body

DecodeBody(body, encoding) ==
    CASE encoding = "base64" -> DecodeBase64(body)
      [] encoding = "quoted-printable" -> DecodeQuotedPrintable(body)
      [] OTHER -> [ok |-> TRUE, octets |-> body]

MultipartEncodingAllowed(encoding) == encoding \in {"none", "7bit", "8bit", "binary"}
=============================================================================
