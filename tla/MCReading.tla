----------------------------- MODULE MCReading -----------------------------
EXTENDS Reading, TLC

MCWalked == {[kind |-> "unread", of |-> NoName]} \cup {[kind |-> "category", of |-> n] : n \in Name}

MCDates == {-1, 1}

Interchangeable == Permutations(Feed) \cup Permutations(Folder) \cup Permutations(Name)
=============================================================================
