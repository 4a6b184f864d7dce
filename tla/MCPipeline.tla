----------------------------- MODULE MCPipeline -----------------------------
(***************************************************************************)
(* TLC instances of Pipeline: which pages extract and which hosts a rule   *)
(* covers, named for the configurations.                                   *)
(***************************************************************************)
EXTENDS Pipeline

\* Every version of the page has a body in it, or the first one alone.
EveryPage == 1 .. MaxPage
FirstPage == {1}

NoRule    == {}
EveryHost == Article

=============================================================================
