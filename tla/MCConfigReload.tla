--------------------------- MODULE MCConfigReload ---------------------------
(* Model-checking companion of ConfigReload. *)
EXTENDS ConfigReload
=============================================================================
