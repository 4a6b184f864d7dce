---------------------------- MODULE MCRetention -----------------------------
(***************************************************************************)
(* TLC instances of Retention: readers and articles as model values.       *)
(***************************************************************************)
EXTENDS Retention

CONSTANTS ann, bob, a1

Household == {ann, bob}
OneReader == {ann}
OneArticle == {a1}

=============================================================================
