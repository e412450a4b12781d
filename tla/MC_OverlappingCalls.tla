------------------------ MODULE MC_OverlappingCalls ------------------------
(***************************************************************************)
(* Instances of OverlappingCalls: two processes with a thread each, and    *)
(* two threads that may also belong to one process.                        *)
(***************************************************************************)
EXTENDS OverlappingCalls

CONSTANTS p1, p2, t1, t2

Two == {t1, t2}
Both == {p1, p2}
OneEach == {[t \in Two |-> IF t = t1 THEN p1 ELSE p2]}
OneOrBoth == OneEach \union {[t \in Two |-> p1]}

TwoPages == {<<p1, 1>>, <<p2, 1>>}
ThreePages == {<<p1, 1>>, <<p1, 2>>, <<p2, 1>>}

\* Calls of each thread.
TwoEach == [t \in Two |-> 2]
FourAndOne == [t \in Two |-> IF t = t1 THEN 4 ELSE 1]
=============================================================================
