------------------------- MODULE MCTemplateBuilds -------------------------
(* A small instance of TemplateBuilds.  The constants are in the .cfg.     *)
EXTENDS TemplateBuilds
===========================================================================
