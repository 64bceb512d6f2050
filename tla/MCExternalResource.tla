------------------------- MODULE MCExternalResource -------------------------
(***************************************************************************)
(* One resource, with the three clients that the code has for it.          *)
(***************************************************************************)
EXTENDS ExternalResource
=============================================================================
