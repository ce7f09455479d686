-------------------------- MODULE MCTemplateCache --------------------------
(* One bank, with or without a file and a row at first, two admin requests *)
(* for it, and one API process: processes and banks share nothing else.    *)
EXTENDS TemplateCache
=============================================================================
