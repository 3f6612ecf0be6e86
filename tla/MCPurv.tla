------------------------------- MODULE MCPurv ------------------------------
(* The purv run loop over every small image. *)
EXTENDS Purv, SmallImages
=============================================================================
