----------------------------- MODULE MCProgress -----------------------------
(* Instances of Progress for TLC; the other values are in the cfg file.    *)
EXTENDS Progress

(* A rate limit may announce a time that is over.                          *)
MCResets == {-1, 0, 2}
=============================================================================
