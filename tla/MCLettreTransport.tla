-------------------------- MODULE MCLettreTransport --------------------------
(* Small sets of calls for TLC. *)
EXTENDS LettreTransport

(* One kind to retry and one not to. *)
MCSmtpErrors == {"TransientNetwork"}
===============================================================================
