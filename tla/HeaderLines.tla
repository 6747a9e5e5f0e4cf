----------------------------- MODULE HeaderLines -----------------------------
(***************************************************************************)
(* Header fields on the wire: push_header_line folds a value into physical *)
(* lines under a soft target and a hard limit, parse_header_lines_bytes    *)
(* unfolds and splits them (email-message-wire, rfc822/header.rs).         *)
(*                                                                         *)
(* A physical line is [name, value]: name is "" in a continuation, whose   *)
(* value begins with its blank, and NoColon in a line that is no field.    *)
(***************************************************************************)
EXTENDS EncodedWords

CONSTANTS
    HardLineLen,        \* RFC5322_HARD_LINE_LEN: 998 in the code
    NameLength          \* the valid field names and their lengths, a function

ASSUME HeaderLinesAssumption ==
    HardLineLen \in Nat /\ \A n \in DOMAIN NameLength : NameLength[n] \in Nat \ {0}

NoFold == 0             \* RenderOptions::soft_fold_at is None
NoColon == "no colon"

Raw(value, characters) ==
    \E i \in DOMAIN value : value[i][1] = "char" /\ value[i][2][1] \in characters

HeaderError(name, value) ==
    CASE name \notin DOMAIN NameLength -> "InvalidHeaderName"
      [] name \in DOMAIN NameLength /\ Raw(value, {"nl"}) -> "HeaderContainsRawNewline"
      [] name \in DOMAIN NameLength /\ ~Raw(value, {"nl"}) /\ Raw(value, {"ctl"}) ->
           "HeaderContainsControlCharacter"
      [] name \in DOMAIN NameLength /\ ~Raw(value, {"nl", "ctl"}) /\ Raw(value, NonAscii) ->
           "HeaderContainsNonAscii"
      [] OTHER -> "none"

Monus(m, n) == IF m > n THEN m - n ELSE 0
LimitsWithoutColon(used, soft) ==
    LET hard == Monus(HardLineLen, Monus(used, 2))
    IN  [hard |-> hard, preferred |-> IF soft = NoFold THEN hard ELSE Min({Monus(soft, used), hard})]

Limits(used, soft) ==
    LET hard == Monus(HardLineLen, used)
    IN  [hard |-> hard,
         preferred |-> IF soft = NoFold THEN hard ELSE Min({Monus(soft, used), hard})]

(* The last blank that starts before column limit, 0 when there is none. *)
LastLwspBoundary(value, limit) ==
    Max({0} \cup {i \in DOMAIN value : IsBlank(value[i]) /\ Length(SubSeq(value, 1, i - 1)) < limit})

(* Where the rest of a value is split, 0 when it stays in one piece. *)
SplitAt(rest, limits) ==
    LET soft == LastLwspBoundary(rest, limits.preferred)
    IN  CASE Length(rest) > limits.preferred /\ soft # 0 -> soft
          [] Length(rest) > limits.hard /\ soft = 0 -> LastLwspBoundary(rest, limits.hard)
          [] OTHER -> 0

(* The lines of a value from column start on; the blank it is split at is  *)
(* lost.                                                                   *)
FoldRest(value, start, limits, from) ==
    LET rest == SubSeq(value, start, Len(value))
        at == SplitAt(rest, limits)
    IN  CASE rest = <<>> -> [ok |-> TRUE, lines |-> <<>>]
          [] rest # <<>> /\ limits.hard > 0 /\ at # 0 ->
               [from[start + at] EXCEPT !.lines = <<SubSeq(rest, 1, at - 1)>> \o @]
          [] rest # <<>> /\ limits.hard > 0 /\ at = 0 /\ Length(rest) <= limits.hard ->
               [ok |-> TRUE, lines |-> <<rest>>]
          [] OTHER -> [ok |-> FALSE, lines |-> <<>>]

(* An empty value takes its one line whatever the name leaves of it. *)
SplitForFolding(value, first, later) ==
    LET from[start \in 1..(Len(value) + 1)] ==
          FoldRest(value, start, IF start = 1 THEN first ELSE later, from)
    IN  IF value = <<>> THEN [ok |-> TRUE, lines |-> <<(<<>>)>>] ELSE from[1]

PushHeaderLine(name, value, soft) ==
    LET folded == SplitForFolding(value, Limits(NameLength[name] + 2, soft), Limits(1, soft))
    IN  CASE HeaderError(name, value) # "none" -> [error |-> HeaderError(name, value), lines |-> <<>>]
          [] HeaderError(name, value) = "none" /\ ~folded.ok -> [error |-> "HeaderLineTooLong", lines |-> <<>>]
          [] OTHER -> [error |-> "none",
                       lines |-> [i \in DOMAIN folded.lines |->
                                    IF i = 1 THEN [name |-> name, value |-> folded.lines[1]]
                                    ELSE [name |-> "", value |-> <<Char(" ")>> \o folded.lines[i]]]]

LineLength(line) == (IF line.name = "" THEN 0 ELSE NameLength[line.name] + 2) + Length(line.value)

-----------------------------------------------------------------------------
TrimStart(value) ==
    LET ink == {i \in DOMAIN value : ~IsBlank(value[i])}
    IN  IF ink = {} THEN <<>> ELSE SubSeq(value, Min(ink), Len(value))

ParseHeaderLine(s, line) ==
    CASE ~s.ok \/ (line.name = "" /\ line.value = <<>>) -> s
      [] s.ok /\ line.value # <<>> /\ line.name = "" /\ ~Raw(line.value, NonAscii \cup {"ctl"}) /\ s.fields # <<>> ->
           [s EXCEPT !.fields[Len(s.fields)].value = @ \o line.value]
      [] s.ok /\ line.name \in DOMAIN NameLength /\ ~Raw(line.value, NonAscii \cup {"ctl"}) ->
           [s EXCEPT !.fields = Append(@, [name |-> line.name, value |-> TrimStart(line.value)])]
      [] OTHER -> [s EXCEPT !.ok = FALSE]

ParseHeaderLines(lines) ==
    LET after[i \in 0..Len(lines)] ==
          IF i = 0 THEN [ok |-> TRUE, fields |-> <<>>] ELSE ParseHeaderLine(after[i - 1], lines[i])
    IN  after[Len(lines)]
=============================================================================
