------------------------------ MODULE ErrorKinds ------------------------------
(***************************************************************************)
(* The error vocabulary of the email-transport kernel and every table that *)
(* translates a failure into it: HTTP statuses, SMTP failures, provider    *)
(* SDK errors, attachment resolution errors, and the two directions of the *)
(* Restate hop (worker to terminal code, terminal code back to a kind).    *)
(* Pure operators only; the state machines of the project use them.        *)
(***************************************************************************)
EXTENDS Naturals

RetryableKinds ==
  {"RateLimited", "Timeout", "TransientNetwork", "TransientProvider"}

TerminalKinds ==
  {"Validation", "Authentication", "Authorization", "PermanentProvider",
   "UnsupportedFeature", "Internal"}

ErrorKind == RetryableKinds \cup TerminalKinds

IsRetryable(kind) == kind \in RetryableKinds

FromHttpStatus(status) ==
  CASE status \in {400, 422}           -> "Validation"
    [] status = 401                    -> "Authentication"
    [] status = 403                    -> "Authorization"
    [] status = 408                    -> "Timeout"
    [] status = 425                    -> "TransientNetwork"
    [] status = 429                    -> "RateLimited"
    [] status \in {501, 505, 510, 511} -> "PermanentProvider"
    [] status \in (500..599) \ {501, 505, 510, 511} -> "TransientProvider"
    [] OTHER                           -> "PermanentProvider"

-------------------------------------------------------------------------------
(* Faults a transport meets, each mapped to the kind the transport reports. *)

(* The reqwest failures that the Resend and Restate transports tell apart. *)
ReqwestFault == {"timeout", "builder", "other"}

MapReqwestError(fault) ==
  CASE fault = "timeout" -> "Timeout"
    [] fault = "builder" -> "Validation"
    [] fault = "other"   -> "TransientNetwork"

(* A response whose body could not be read as the expected JSON. *)
DecodeFault == {"timeout", "body", "invalid"}

MapResponseDecodeError(fault) ==
  CASE fault = "timeout" -> "Timeout"
    [] fault = "body"    -> "TransientNetwork"
    [] fault = "invalid" -> "TransientProvider"

(* resend_rs::Error; a "Resend" error carries the status its JSON body names. *)
ResendFault ==
  [source : {"Http"}, fault : ReqwestFault]
    \cup [source : {"Resend"}, status : Nat]
    \cup [source : {"Parse", "Other", "RateLimit"}]

MapResendError(error) ==
  CASE error.source = "Http"      -> MapReqwestError(error.fault)
    [] error.source = "Resend"    -> IF error.status >= 400
                                     THEN FromHttpStatus(error.status)
                                     ELSE "TransientProvider"
    [] error.source = "Parse"     -> "TransientProvider"
    [] error.source = "Other"     -> "Internal"
    [] error.source = "RateLimit" -> "RateLimited"

(* SmtpFailureFacts: the predicates lettre answers about an SMTP error, as  *)
(* the set of those that hold, and the reply code, 0 when there is none.    *)
SmtpFact ==
  {"timeout", "transient", "permanent", "response", "client", "shutdown", "tls"}

(* The if/else chain of the code: the first predicate that holds decides. *)
ClassifySmtpFacts(facts, status) ==
  IF "timeout" \in facts THEN "Timeout"
  ELSE IF status = 535 THEN "Authentication"
  ELSE IF status \in {534, 538} THEN "UnsupportedFeature"
  ELSE IF "transient" \in facts THEN "TransientProvider"
  ELSE IF facts \cap {"permanent", "tls"} # {} THEN "PermanentProvider"
  ELSE IF "response" \in facts THEN "TransientProvider"
  ELSE IF "client" \in facts THEN "UnsupportedFeature"
  ELSE IF "shutdown" \in facts THEN "Internal"
  ELSE "TransientNetwork"

(* The Cloudflare code, by the row of the classification table it falls in; *)
(* "none" is a binding failure without a code.                              *)
CloudflareCode ==
  {"none", "validation", "header", "not_allowed", "suppressed_or_bounced",
   "rate_limit", "internal_server_error", "unrecognised"}

MapBindingError(code) ==
  CASE code = "none"                        -> "Internal"
    [] code \in {"validation", "header"}    -> "Validation"
    [] code = "not_allowed"                 -> "Authorization"
    [] code \in {"suppressed_or_bounced", "unrecognised"} -> "PermanentProvider"
    [] code = "rate_limit"                  -> "RateLimited"
    [] code = "internal_server_error"       -> "TransientProvider"

(* Attachment resolution: OpenDAL's errors, then ResolveErrorKind. *)
OpendalKind ==
  {"NotFound", "PermissionDenied", "Unsupported", "IsADirectory",
   "NotADirectory", "RateLimited", "Unexpected"}

ResolveErrorKind ==
  {"UnsupportedReference", "NotFound", "TooLarge", "Denied", "Internal",
   "Transient"}

ClassifyOpendalError(kind, temporary) ==
  IF temporary \/ kind = "RateLimited" THEN "Transient"
  ELSE CASE kind = "NotFound"         -> "NotFound"
         [] kind = "PermissionDenied" -> "Denied"
         [] kind \in {"Unsupported", "IsADirectory", "NotADirectory"}
                                      -> "UnsupportedReference"
         [] OTHER                     -> "Internal"

FromResolveError(kind) ==
  CASE kind = "UnsupportedReference"     -> "UnsupportedFeature"
    [] kind \in {"NotFound", "TooLarge"} -> "Validation"
    [] kind \in {"Denied", "Internal"}   -> "Internal"
    [] kind = "Transient"                -> "TransientProvider"

-------------------------------------------------------------------------------
(* The Restate hop.  The worker turns a terminal kind into a code; the      *)
(* caller turns the ingress answer back into a kind.                        *)

TransportTerminalCode(kind) ==
  CASE kind \in {"Validation", "UnsupportedFeature"} -> 400
    [] kind = "Authentication"                       -> 401
    [] kind = "Authorization"                        -> 403
    [] kind = "PermanentProvider"                    -> 422
    [] OTHER                                         -> 500

(* Codes of the failures the worker raises before it reaches a transport. *)
DecodeFailureCode == 400
UnknownTransportCode == 404

TerminalCodes ==
  {TransportTerminalCode(k) : k \in TerminalKinds}
    \cup {DecodeFailureCode, UnknownTransportCode}

TerminalInvocationKind(code) ==
  CASE code \in {400, 404} -> "Validation"
    [] code = 401          -> "Authentication"
    [] code = 403          -> "Authorization"
    [] code = 422          -> "PermanentProvider"
    [] OTHER               -> "Internal"

IngressErrorKind(status) ==
  IF status \in 500..599 THEN "TransientProvider" ELSE FromHttpStatus(status)

NoCode == 0

(* A non-success answer of the ingress: its status, the code its JSON body  *)
(* names (NoCode when it names none), and whether the header or the body    *)
(* says that the invocation, not the ingress, failed.                       *)
MapErrorResponse(status, code, invocationError) ==
  IF invocationError
  THEN TerminalInvocationKind(IF code = NoCode THEN status ELSE code)
  ELSE IngressErrorKind(status)
===============================================================================
