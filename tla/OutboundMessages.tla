-------------------------- MODULE OutboundMessages --------------------------
(***************************************************************************)
(* The message every crate passes on (email-message, message.rs): its      *)
(* fields, what makes it fit to be sent, and the envelope derived from it. *)
(*                                                                         *)
(* A message is [from, sender, to, cc, bcc, replyTo, subject, date,        *)
(* messageId, headers, body, attachments]: from, sender, subject, date and *)
(* messageId are options, a subject is a text, a custom header             *)
(* [name, value], an attachment [type, filename, cid, inline, reference,   *)
(* content] whose file name or content id is "unsafe" when it holds a      *)
(* control character.                                                      *)
(***************************************************************************)
EXTENDS Addresses

(* The Date field holds no fraction of a second; a year it cannot write    *)
(* fails.                                                                  *)
FormatDate(date) == IF date = "year" THEN "none" ELSE "whole"

EmptyMessage(body) ==
    [from |-> <<>>, sender |-> <<>>, to |-> <<>>, cc |-> <<>>, bcc |-> <<>>, replyTo |-> <<>>,
     subject |-> <<>>, date |-> <<>>, messageId |-> <<>>, headers |-> <<>>,
     body |-> body, attachments |-> <<>>]

MessageNew(from, to, body) == [EmptyMessage(body) EXCEPT !.from = <<from>>, !.to = to]

(* A list setter replaces what the list had; an add appends to it. *)
WithList(message, field, items) == [message EXCEPT ![field] = items]
Added(message, field, item) == [message EXCEPT ![field] = Append(@, item)]

HeaderUnsafe(text) == \E i \in DOMAIN text : text[i] \in {"nl", "ctl"}

ValidHeader(header) ==
    CASE header.name = "" -> "EmptyName"
      [] header.name = "X Y" -> "InvalidName"
      [] header.name \notin {"", "X Y"} /\ Char("nl") \in {header.value[i] : i \in DOMAIN header.value} ->
           "ValueContainsRawNewline"
      [] header.name \notin {"", "X Y"} /\ Char("nl") \notin {header.value[i] : i \in DOMAIN header.value}
         /\ Char("ctl") \in {header.value[i] : i \in DOMAIN header.value} ->
           "ValueContainsControlCharacter"
      [] OTHER -> "none"

UnsafeName(mailbox) == mailbox.name # <<>> /\ HeaderUnsafe(mailbox.name[1])
UnsafeAddress(address) ==
    CASE address.kind = "mailbox" -> UnsafeName(address)
      [] address.kind = "group" -> HeaderUnsafe(address.name)
                                   \/ \E i \in DOMAIN address.members : UnsafeName(address.members[i])
AnyUnsafe(addresses) == \E i \in DOMAIN addresses : UnsafeAddress(addresses[i])

ReservedHeaderNames ==
    {"From", "Sender", "Reply-To", "To", "Cc", "Bcc", "Date", "Subject", "Message-ID"}

(* The first check that fails decides.  A list that holds only an empty    *)
(* group counts as recipients.                                             *)
ValidateBasic(m) ==
    LET some(sequence, Bad(_)) == \E i \in DOMAIN sequence : Bad(sequence[i])
        failed == SelectSeq(<<
          <<m.sender # <<>> /\ m.from = <<>>, "SenderWithoutFrom">>,
          <<m.from = <<>>, "MissingFrom">>,
          <<m.to = <<>> /\ m.cc = <<>> /\ m.bcc = <<>>, "MissingRecipients">>,
          <<some(m.subject, HeaderUnsafe), "SubjectContainsInvalidChars">>,
          <<some(m.headers, LAMBDA h : h.name \in ReservedHeaderNames), "ReservedHeaderName">>,
          <<some(m.from, UnsafeName) \/ some(m.sender, UnsafeName)
            \/ AnyUnsafe(m.to) \/ AnyUnsafe(m.cc) \/ AnyUnsafe(m.bcc) \/ AnyUnsafe(m.replyTo),
            "MailboxDisplayNameContainsInvalidChars">>,
          <<some(m.attachments, LAMBDA a : "unsafe" \in {a.filename, a.cid}),
            "AttachmentMetadataContainsInvalidChars">>>>, LAMBDA check : check[1])
    IN  IF failed = <<>> THEN "none" ELSE failed[1][2]

(* The emails of a list, group members included. *)
RecipientEmails(addresses) ==
    FlattenSeq([i \in DOMAIN addresses |->
        [j \in DOMAIN Mailboxes(addresses[i]) |-> Mailboxes(addresses[i])[j].email]])

(* Sender goes before From as the reverse path; Bcc is a recipient. *)
DeriveEnvelope(m) ==
    [error |-> ValidateBasic(m),
     mailFrom |-> IF m.sender # <<>> THEN <<m.sender[1].email>>
                  ELSE [i \in DOMAIN m.from |-> m.from[i].email],
     rcptTo |-> RecipientEmails(m.to) \o RecipientEmails(m.cc) \o RecipientEmails(m.bcc)]
=============================================================================
