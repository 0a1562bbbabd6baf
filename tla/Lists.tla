------------------------------- MODULE Lists -------------------------------
(* What docs/spec.md 2.4 and 4.4 promise about list[T]: a growable, mutable
   sequence that is shared by reference.  An operation on one list changes that
   list and no other, an index out of range panics and changes nothing, a slice
   is a new list, and a for loop runs over the indexes the list had at its start. *)
EXTENDS Integers, Sequences

CONSTANTS
    Refs,       \* the references list objects can have
    Values,     \* the values of elements
    Indexes,    \* the integers a program may pass as an index
    NoList,     \* what a reference to no object stands for
    NoLoop,     \* no for loop is running
    Done,       \* the result of a call that returns nothing
    Panic       \* the result of a call that panicked; the program is over

VARIABLES
    list,       \* list[r]: the elements, indexed from 1
    loop,       \* the for loop over a list: [ref, len, idx]
    result      \* what the last call returned

lvars == <<list, loop, result>>

Live == {r \in Refs : list[r] # NoList}

Running == result # Panic

Fails == result' = Panic /\ UNCHANGED <<list, loop>>

Becomes(r, s, v) ==
    /\ list' = [list EXCEPT ![r] = s]
    /\ result' = v
    /\ UNCHANGED loop

Init ==
    /\ list = [r \in Refs |-> NoList]
    /\ loop = NoLoop
    /\ result = Done

New(r)  == r \notin Live /\ Becomes(r, <<>>, r)

\* The program has let go of the last reference to the list.
Vanish(r) ==
    /\ r \in Live /\ (loop # NoLoop => loop.ref # r)
    /\ Becomes(r, NoList, Done)

Append1(r, v) == Becomes(r, Append(list[r], v), Done)

Pop(r) ==
    LET s == list[r] IN
    IF s = <<>> THEN Fails
    ELSE Becomes(r, SubSeq(s, 1, Len(s) - 1), s[Len(s)])

Insert(r, i, v) ==
    LET s == list[r] IN
    IF i \notin 0..Len(s) THEN Fails
    ELSE Becomes(r, SubSeq(s, 1, i) \o <<v>> \o SubSeq(s, i + 1, Len(s)), Done)

RemoveAt(r, i) ==
    LET s == list[r] IN
    IF i \notin 0..(Len(s) - 1) THEN Fails
    ELSE Becomes(r, SubSeq(s, 1, i) \o SubSeq(s, i + 2, Len(s)), s[i + 1])

Get(r, i) ==
    IF i \notin 0..(Len(list[r]) - 1) THEN Fails
    ELSE result' = list[r][i + 1] /\ UNCHANGED <<list, loop>>

Set(r, i, v) ==
    IF i \notin 0..(Len(list[r]) - 1) THEN Fails
    ELSE Becomes(r, [list[r] EXCEPT ![i + 1] = v], Done)

Clear(r) == Becomes(r, <<>>, Done)

Slice(r, lo, hi, q) ==
    IF lo < 0 \/ lo > hi \/ hi > Len(list[r]) THEN Fails
    ELSE q \notin Live /\ Becomes(q, SubSeq(list[r], lo + 1, hi), q)

ForStart(r) ==
    /\ loop = NoLoop
    /\ loop' = [ref |-> r, len |-> Len(list[r]), idx |-> 0]
    /\ UNCHANGED <<list, result>>

\* The next element, or the end; a list that has become too short panics.
ForNext ==
    /\ loop # NoLoop
    /\ IF loop.idx >= loop.len
         THEN loop' = NoLoop /\ UNCHANGED <<list, result>>
       ELSE IF loop.idx >= Len(list[loop.ref]) THEN Fails
       ELSE /\ result' = list[loop.ref][loop.idx + 1]
            /\ loop' = [loop EXCEPT !.idx = @ + 1]
            /\ UNCHANGED list

\* break, or a return from inside the loop.
ForLeave ==
    /\ loop # NoLoop
    /\ loop' = NoLoop /\ UNCHANGED <<list, result>>

Next ==
    /\ Running
    /\ \/ \E r \in Refs : New(r) \/ Vanish(r)
       \/ \E r \in Live, v \in Values : Append1(r, v)
       \/ \E r \in Live : Pop(r) \/ Clear(r) \/ ForStart(r)
       \/ \E r \in Live, i \in Indexes, v \in Values : Insert(r, i, v) \/ Set(r, i, v)
       \/ \E r \in Live, i \in Indexes : RemoveAt(r, i) \/ Get(r, i)
       \/ \E r \in Live, lo, hi \in Indexes, q \in Refs : Slice(r, lo, hi, q)
       \/ ForNext \/ ForLeave

Spec == Init /\ [][Next]_lvars
=============================================================================
