------------------------------ MODULE MCBodies ------------------------------
EXTENDS Bodies, TLC

CONSTANTS art, r1, r2, site, blog, k1, k2

\* A page the guessing rungs fail on and two selectors find something in: with a rule
\* that only says how to fetch it, there is nothing.
Piece(chars, images) == [chars |-> chars, words |-> chars \div 6, images |-> images]
MCPage == art :> [visible |-> 900, named |-> {},
                  selected |-> k1 :> Piece(400, {}) @@ k2 :> Piece(30, {"photo"}),
                  trafilatura |-> Piece(150, {}), readability |-> Piece(210, {}),
                  feed |-> Piece(0, {})]

MCUnder  == [d \in Domain |-> {art}]
MCLength == site :> 11 @@ blog :> 16

\* Another system's library and this archive's own export.
Entry(content, stated) == [article |-> art, readable |-> TRUE, content |-> content,
                            stated |-> stated]
MCFile == {[records |-> <<Entry("placeholder", FALSE), Entry("text", FALSE)>>, whole |-> TRUE],
           [records |-> <<Entry("text", TRUE)>>, whole |-> TRUE],
           [records |-> <<Entry("markup", FALSE)>>, whole |-> FALSE]}
MCStock == art :> {"failed", "outdated", "imported"}
=============================================================================
