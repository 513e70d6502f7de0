--------------------------- MODULE MCEntryReview ---------------------------
EXTENDS EntryReview, TLC

CONSTANTS s1, s2, u1, u2

MCOneSession == {s1}
MCTwoSessions == {s1, s2}
MCUser == {u1, u2}

\* Sessions and users are interchangeable.
EntrySymmetry == Permutations(Session) \cup Permutations(User)

=============================================================================
