------------------------------ MODULE Addresses ------------------------------
(***************************************************************************)
(* Mailboxes, groups and address lists (email-message, address.rs and      *)
(* email.rs): how they are written as text, for people and for a header    *)
(* (email-message-wire, rfc822/header.rs), and read from it.               *)
(*                                                                         *)
(* An e-mail address is [user, host, literal, caps, valid]: caps says that *)
(* its domain is spelled with capitals.  Its text is one piece, and so is  *)
(* each mark of punctuation.  An option is <<>> or <<value>>.              *)
(***************************************************************************)
EXTENDS EncodedWords

CONSTANT MaxAddressInput    \* MAX_ADDRESS_INPUT_BYTES: 64 KiB in the code

ASSUME AddressesAssumption == MaxAddressInput \in Nat

Addr(email) == <<"addr", email>>
Punct(mark) == <<"punct", mark>>
IsAddr(piece) == piece[1] = "addr"
IsPunct(piece, mark) == piece = Punct(mark)

Ok(item) == [error |-> "none", item |-> item]
Err(error) == [error |-> error, item |-> <<>>]

(* The domain is lower case unless it is an address literal. *)
EmailFromStr(value) ==
    IF Len(value) = 1 /\ IsAddr(value[1]) /\ value[1][2].valid
    THEN Ok(IF value[1][2].literal THEN value[1][2] ELSE [value[1][2] EXCEPT !.caps = FALSE])
    ELSE Err("InvalidAddrSpec")

Mailbox(name, email) == [kind |-> "mailbox", name |-> name, email |-> email]
Group(name, members) == [kind |-> "group", name |-> name, members |-> members]
Mailboxes(address) == IF address.kind = "mailbox" THEN <<address>> ELSE address.members

-----------------------------------------------------------------------------
(* Writing.  phrase is how a display name is written. *)
JoinedBy(separator, values) ==
    IF values = <<>> THEN <<>>
    ELSE values[1] \o FlattenSeq([i \in 1..(Len(values) - 1) |-> separator \o values[i + 1]])

WriteMailbox(phrase(_), mailbox) ==
    IF mailbox.name = <<>> THEN <<Addr(mailbox.email)>>
    ELSE phrase(mailbox.name[1]) \o <<Char(" "), Addr(mailbox.email)>>

CommaBlank == <<Punct(","), Char(" ")>>

WriteGroup(phrase(_), group) ==
    phrase(group.name) \o <<Punct(":")>>
    \o JoinedBy(CommaBlank, [i \in DOMAIN group.members |-> WriteMailbox(phrase, group.members[i])])
    \o <<Punct(";")>>

WriteAddress(phrase(_), address) ==
    IF address.kind = "mailbox" THEN WriteMailbox(phrase, address) ELSE WriteGroup(phrase, address)

RenderMailboxHeader(mailbox) == WriteMailbox(EncodePhrase, mailbox)
RenderAddressListHeader(addresses) ==
    JoinedBy(CommaBlank, [i \in DOMAIN addresses |-> WriteAddress(EncodePhrase, addresses[i])])

(* Display writes names as they are, in quotes: no encoded words. *)
DisplayMailbox(mailbox) == WriteMailbox(QuotePhrase, mailbox)
DisplayGroup(group) == WriteGroup(QuotePhrase, group)
DisplayAddressList(addresses) ==
    JoinedBy(CommaBlank, [i \in DOMAIN addresses |->
        IF addresses[i].kind = "mailbox" THEN DisplayMailbox(addresses[i]) ELSE DisplayGroup(addresses[i])])

-----------------------------------------------------------------------------
(* The external header parser: groups [name, entries], flat mailboxes in   *)
(* groups without a name; an entry is [name, addr], both options.          *)
ParsedEntry(value) ==
    LET addrs == {i \in DOMAIN value : IsAddr(value[i])}
        others == FlattenSeq([i \in DOMAIN value |-> IF i \in addrs THEN <<>> ELSE <<value[i]>>])
        named(phrase) == IF phrase = <<>> THEN <<>> ELSE <<ParsePhrase(phrase)>>
    IN  [name |-> named(TrimBlanks(others)),
         addr |-> IF addrs = {} THEN <<>> ELSE <<value[Min(addrs)]>>]

Flushed(s) ==
    IF TrimBlanks(s.word) = <<>> THEN [s EXCEPT !.word = <<>>]
    ELSE [s EXCEPT !.word = <<>>, !.entries = Append(@, ParsedEntry(s.word))]
Closed(s) ==
    IF s.name = <<>> /\ s.entries = <<>> THEN s
    ELSE [s EXCEPT !.groups = Append(@, [name |-> s.name, entries |-> s.entries]), !.name = <<>>, !.entries = <<>>]
TakePiece(s, piece) ==
    CASE IsPunct(piece, ",") -> Flushed(s)
      [] IsPunct(piece, ":") -> [Closed(s) EXCEPT !.name = <<ParsePhrase(TrimBlanks(s.word))>>, !.word = <<>>]
      [] IsPunct(piece, ";") -> Closed(Flushed(s))
      [] OTHER -> [s EXCEPT !.word = Append(@, piece)]

ParsedGroups(value) ==
    LET after[i \in 0..Len(value)] ==
          IF i = 0 THEN [word |-> <<>>, name |-> <<>>, entries |-> <<>>, groups |-> <<>>]
          ELSE TakePiece(after[i - 1], value[i])
    IN  Closed(Flushed(after[Len(value)])).groups

ConvertMailbox(entry) ==
    LET email == EmailFromStr(entry.addr)
    IN  CASE entry.addr = <<>> -> Err("MissingAddrSpec")
          [] entry.addr # <<>> /\ email.error # "none" -> email
          [] OTHER -> Ok(Mailbox(entry.name, email.item))

FirstError(results) ==      \* an option
    LET failed == {i \in DOMAIN results : results[i].error # "none"}
    IN  IF failed = {} THEN <<>> ELSE <<results[Min(failed)]>>
Items(results) == [i \in DOMAIN results |-> results[i].item]
Collected(results) ==
    IF FirstError(results) # <<>> THEN FirstError(results)[1] ELSE Ok(Items(results))

InGroup(result) ==
    CASE result.error = "MissingAddrSpec" -> Err("GroupMemberMissingAddrSpec")
      [] result.error = "InvalidAddrSpec" -> Err("InvalidGroupMemberAddrSpec")
      [] OTHER -> result

ConvertGroup(group) ==
    LET converted(members) == IF members.error # "none" THEN members ELSE Ok(Group(group.name[1], members.item))
    IN  converted(Collected([i \in DOMAIN group.entries |-> InGroup(ConvertMailbox(group.entries[i]))]))

ParseAddressItems(value) ==
    LET converted(group) ==
          IF group.name # <<>> THEN <<ConvertGroup(group)>>
          ELSE [i \in DOMAIN group.entries |-> ConvertMailbox(group.entries[i])]
        items(groups) == IF groups = <<>> THEN Err("MissingAddress")
                         ELSE Collected(FlattenSeq([i \in DOMAIN groups |-> converted(groups[i])]))
    IN  CASE Length(value) > MaxAddressInput -> Err("InputTooLong")
          [] Length(value) <= MaxAddressInput /\ <<"char", <<"nl">>>> \in {value[i] : i \in DOMAIN value} ->
               Err("InputContainsRawNewlines")
          [] OTHER -> items(ParsedGroups(value))

(* One item and no more; a bare addr-spec needs no parser. *)
Single(value, kind, missing) ==
    LET sole(items) ==
          CASE items.error # "none" -> items
            [] items.error = "none" /\ Len(items.item) # 1 -> Err(missing)
            [] OTHER -> IF kind \in {items.item[1].kind, "any"} THEN Ok(items.item[1])
                        ELSE Err("UnexpectedAddressKind")
    IN  sole(ParseAddressItems(value))

BareMailbox(value) == Mailbox(<<>>, EmailFromStr(value).item)

MailboxFromStr(value) ==
    IF EmailFromStr(value).error = "none" THEN Ok(BareMailbox(value))
    ELSE Single(value, "mailbox", "ExpectedSingleMailbox")
AddressFromStr(value) ==
    IF EmailFromStr(value).error = "none" THEN Ok(BareMailbox(value))
    ELSE Single(value, "any", "ExpectedSingleAddress")

AddressListFromStr(value) == ParseAddressItems(value)
=============================================================================
