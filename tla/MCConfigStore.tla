--------------------------- MODULE MCConfigStore ---------------------------
(* Instances of ConfigStore.                                               *)
EXTENDS ConfigStore

=============================================================================
