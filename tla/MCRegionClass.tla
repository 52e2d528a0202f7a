--------------------------- MODULE MCRegionClass ----------------------------
(* Model-checking instance of RegionClass; values are in the .cfg.         *)
EXTENDS RegionClass
=============================================================================
