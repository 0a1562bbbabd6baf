---------------------------- MODULE MCLspServer ----------------------------
EXTENDS LspServer

CONSTANTS d1, d2, c1, c2, q1, q2

OneDoc       == {d1}
TwoDocs      == {d1, d2}
TwoCompilers == {c1, c2}
OneRequest   == {q1}
TwoRequests  == {q1, q2}

AnyKind    == [q \in Requests |-> Handlers]
Rename     == [q \in Requests |-> {"rename"}]
Completion == [q \in Requests |-> {"completion"}]

\* One document is edited, or closed and opened again, while the other stays.
OneChanges == [d \in Docs |-> IF d = d1 THEN 2 ELSE 1]

\* For one document: an old, a current and a newer state.
ThreeStates == [d \in Docs |-> 3]
=============================================================================
