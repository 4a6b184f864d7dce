------------------------------- MODULE MCFeeds -------------------------------
(***************************************************************************)
(* TLC instance of Feeds: a feed that moves between two addresses, and a   *)
(* page that advertises the first.  The entries are a story and a link     *)
(* nothing can be done with.                                               *)
(***************************************************************************)
EXTENDS Feeds

CONSTANTS old, new, page

Addresses == {old, new, page}
Pages     == {page}
Discovered == [a \in Pages |-> old]
Declared  == [a \in Addresses |-> IF a = new THEN 1 ELSE 0]
AtFirst   == [a \in Addresses |-> CASE a = old -> 1 [] a = new -> 2 [] a = page -> 0]

Story == [scheme |-> "https", host |-> <<"H", ".", "h", ".", ".">>, port |-> "443",
          path |-> <<"/", "a", "/", "%2F", "/", "/">>, query |-> {"id", "utm_source"},
          fragment |-> "x"]
Links == <<Story, [Story EXCEPT !.host = <<".">>]>>

=============================================================================
