----------------------------- MODULE ReaderView -----------------------------
(***************************************************************************)
(* What the archive promises about the bodies of an article, whatever      *)
(* produces them: every body is kept, each slot shows one of them, a       *)
(* kept copy that cannot be regenerated is replaced by nobody but the      *)
(* reader it is shown to, a reader's act moves no slot but their own, and  *)
(* the list of articles that need attention lists what has no body.        *)
(***************************************************************************)
CONSTANTS Article, Reader, Household, Body, NoBody

Slot == Reader \cup {Household}

VARIABLES
    shelf,      \* every body a slot has ever held, or was offered beside it
    up,         \* the one it holds now
    attention,  \* articles listed as failed
    late        \* slots where a decision was taken on a body that has changed since

vars == <<shelf, up, attention, late>>

Init ==
    /\ shelf \in [Article -> [Slot -> SUBSET Body]]
    /\ up \in [Article -> [Slot -> Body \cup {NoBody}]]
    /\ \A a \in Article :
          /\ \A r \in Reader : up[a][r] = NoBody /\ shelf[a][r] = {}
          /\ up[a][Household] # NoBody => up[a][Household] \in shelf[a][Household]
          /\ a \in attention => up[a][Household] = NoBody
    /\ attention \subseteq Article /\ late = {}

Add(a, s, b) == shelf' = [shelf EXCEPT ![a][s] = @ \cup {b}]
Show(a, s, b) == up' = [up EXCEPT ![a][s] = b]

\* Stored beside what is shown.
Shelve(a, s, b) == Add(a, s, b) /\ UNCHANGED <<up, attention, late>>

\* In place of a body that can be made again, and for a reader only what can.
Replace(a, s, b) ==
    /\ up[a][s] # NoBody => ~up[a][s].immutable
    /\ s \in Reader => ~b.immutable
    /\ Add(a, s, b) /\ Show(a, s, b)
    /\ UNCHANGED <<attention, late>>

\* The one way a kept copy goes unasked: it came between a check and its use.
Overtake(a, s, b) ==
    /\ up[a][s] # NoBody /\ up[a][s].immutable
    /\ Add(a, s, b) /\ Show(a, s, b) /\ late' = late \cup {<<a, s>>}
    /\ UNCHANGED attention

\* A reader picks among the household's bodies and their own; the copy carries no rules.
Choose(r, a) ==
    \E b \in shelf[a][Household] \cup shelf[a][r] :
        LET copy == [b EXCEPT !.key = NoBody.key]
        IN  Add(a, r, copy) /\ Show(a, r, copy) /\ UNCHANGED <<attention, late>>

Raise(a) ==
    /\ attention' = attention \cup {a}
    /\ late' = IF up[a][Household] = NoBody THEN late ELSE late \cup {<<a, Household>>}
    /\ UNCHANGED <<shelf, up>>

Lower(a) ==
    /\ up[a][Household] # NoBody
    /\ attention' = attention \ {a}
    /\ UNCHANGED <<shelf, up, late>>

Next ==
    \E a \in Article :
        \/ \E s \in Slot : \E b \in shelf'[a][s] :
              Shelve(a, s, b) \/ Replace(a, s, b) \/ Overtake(a, s, b)
        \/ \E r \in Reader : Choose(r, a)
        \/ Raise(a) \/ Lower(a)

Spec == Init /\ [][Next]_vars

=============================================================================
