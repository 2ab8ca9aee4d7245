----------------------------- MODULE MCWebPage ------------------------------
(* One name besides the directory Sub, one batch, of two files.           *)
EXTENDS WebPage

CONSTANT f

BatchesDef == {<<f, f>>}
=============================================================================
