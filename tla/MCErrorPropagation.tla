-------------------------- MODULE MCErrorPropagation --------------------------
(* Faults of every adapter, for TLC. *)
EXTENDS ErrorPropagation

(* lettre: an SMTP error has one cause, a reply code when the cause is a     *)
(* reply, and possibly a timeout somewhere in its chain of sources.          *)
SmtpReplies ==
  [by : {"smtp"}, facts : {{"transient"}, {"transient", "timeout"}},
   status : {421, 450, 451, 454}]
    \cup [by : {"smtp"}, facts : {{"permanent"}, {"permanent", "timeout"}},
          status : {530, 534, 535, 538, 550, 554}]

SmtpFailures ==
  [by : {"smtp"}, status : {0},
   facts : {{}} \cup {{f} : f \in {"response", "client", "shutdown", "tls"}}
            \cup {{"timeout", f} : f \in {"timeout", "client", "tls"}}]

(* The status of a Resend error is what its JSON body says, so it may be any. *)
ResendErrors ==
  [source : {"Http"}, fault : ReqwestFault]
    \cup [source : {"Resend"}, status : 0..600]
    \cup [source : {"Parse", "Other", "RateLimit"}]

MCFaults ==
  [by : {"http"}, status : 400..599]
    \cup [by : {"resend"}, error : ResendErrors]
    \cup SmtpReplies \cup SmtpFailures
    \cup [by : {"cloudflare"}, code : CloudflareCode]
    \cup [by : {"attachment"}, error : OpendalKind, temporary : BOOLEAN]
    \cup [by : {"lookup", "decode"}]
===============================================================================
