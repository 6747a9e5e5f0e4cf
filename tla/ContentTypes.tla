---------------------------- MODULE ContentTypes ----------------------------
(***************************************************************************)
(* Content types with their boundaries (email-message-wire,                *)
(* rfc822/content_type.rs).                                                *)
(*                                                                         *)
(* A boundary is [base, num, dashes]: dashes counts the "--" at its end,   *)
(* so the closing delimiter of one boundary is the text of the opening     *)
(* delimiter of the boundary with one more.  A content type is             *)
(* [media, boundary, charset].                                             *)
(***************************************************************************)
EXTENDS Naturals

NoBoundary == [base |-> "none", num |-> 0, dashes |-> 0]
Boundary(base, dashes) == [base |-> base, num |-> 0, dashes |-> dashes]

Type(media) == [media |-> media, boundary |-> NoBoundary, charset |-> "none"]
IsMultipart(type) ==
    type.media \in {"multipart/mixed", "multipart/related", "multipart/alternative"}

(* The boundary of a content type stands apart from its other parameters;  *)
(* an empty one is none.                                                   *)
WithoutBoundary(type) == [type EXCEPT !.boundary = NoBoundary]
BoundaryOf(type) == IF type.boundary.base = "" THEN NoBoundary ELSE type.boundary
=============================================================================
