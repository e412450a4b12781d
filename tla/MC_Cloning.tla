----------------------------- MODULE MC_Cloning -----------------------------
(***************************************************************************)
(* Processes to clone: one or two segments in two page tables of three     *)
(* pages.  A segment is private or leads to the shared segment "a"; that   *)
(* may be gone, and an address that was connected to "b" before keeps that *)
(* name.                                                                   *)
(***************************************************************************)
EXTENDS Cloning

Intervals == {[start |-> q, pages |-> n] : q \in 0 .. 5, n \in 1 .. 2}
               \ {[start |-> 5, pages |-> 2]}

\* First segments start before second ones, or are them.
Pairs == {p \in Intervals \X Intervals :
            p[1] = p[2] \/ p[1].start + p[1].pages <= p[2].start}

Kinds == {<<"private", "a">>, <<"a", "a">>, <<"a", "b">>, <<"gone", "a">>}
Of(i, kind) == [start |-> i.start, pages |-> i.pages, master |-> kind[1],
                recorded |-> kind[2]]

Touched(p) == {TableOf(q) : q \in PagesOf(p[1]) \union PagesOf(p[2])}

Layout(p, kind, sizes, tabs) ==
  [segments |-> {Of(p[1], kind[1]), Of(p[2], kind[2])}, tables |-> tabs, size |-> sizes]

KindsOf(p) == IF p[1] = p[2] THEN {<<k, k>> : k \in Kinds} ELSE Kinds \X Kinds

\* What was connected to had the tables for it.
SizesFor(kind) ==
  [{"a"} -> IF "a" \in {kind[1][1], kind[2][1]} THEN 1 .. 3 ELSE {0}]

FewParents ==
  UNION {UNION {{Layout(p, kind, [name \in Names |-> IF name = "a" THEN f["a"] ELSE b], t) :
                   f \in SizesFor(kind),
                   b \in IF "b" \in {kind[1][2], kind[2][2]} THEN {0, 2} ELSE {0},
                   t \in {Touched(p), PageTables}} :
                kind \in KindsOf(p)} :
         p \in Pairs}
=============================================================================
