--------------------------- MODULE MCProviderLink ---------------------------
(* One workspace: each is stored on its own, and what is said of one is    *)
(* said of any; under two kinds it makes two documents.                    *)
EXTENDS ProviderLink

CONSTANT x1

=============================================================================
