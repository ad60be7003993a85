------------------------ MODULE MCPrefixDelegation ------------------------
(* Few LANs that come, go and are renumbered; and one with many.           *)
EXTENDS PrefixDelegation, TLC

CONSTANTS a, b, c, d, e, f, g, h, i, j, k

Three == <<a, b, c>>
Eleven == <<a, b, c, d, e, f, g, h, i, j, k>>

P(base, bits) == [base |-> base, bits |-> bits]

\* b is a bridge; two LANs change at a time
Setup(start, delegated, changes, hooks) ==
  [start |-> start, delegated |-> delegated, bridges |-> {b},
   changes |-> changes, batch |-> 2, hooks |-> hooks]

\* one prefix is replaced by another, or lost
Moved == Setup(2, {<<P(0, 2)>>, <<P(64, 2)>>, <<>>}, 1, 2)
\* two prefixes at a time, the first without room for all
Two == Setup(1, {<<P(0, 1), P(64, 2)>>, <<P(64, 2)>>}, 2, 1)

MCDelegations == {Moved, Two}
\* ten LANs have got their sub-prefix of a /60, the eleventh is added
Many == {[Setup(10, {<<P(0, 4)>>}, 1, 0) EXCEPT !.batch = 1]}

\* what InsideUpToTen of InterfaceProofs assumes holds for the three LANs
ASSUME MCFits == Order = Three => Fits
===========================================================================
