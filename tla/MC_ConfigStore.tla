--------------------------- MODULE MC_ConfigStore ---------------------------
(* The config store with one external credential. *)
EXTENDS ConfigStore

CONSTANT ext

Externals == {ext}

=============================================================================
