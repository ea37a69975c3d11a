-------------------------- MODULE MCCutTimeImport --------------------------
EXTENDS CutTimeImport, TLC

CONSTANTS k1, k2, k3, gk, g1, a1, a2, lib1, lib2, row1, row2, row3

\* The school knows the student k1 by the id CutTime uses for the student k2.
Whole == [students |-> {[key |-> k1, school |-> k2, groups |-> {g1}],
                        [key |-> k2, school |-> k3, groups |-> {}]},
          guardians |-> {[key |-> gk, student |-> k1]},
          memberships |-> {[group |-> g1, student |-> k2]},
          assets |-> {[key |-> a1, status |-> "IN_REPAIR", holder |-> k1],
                      [key |-> a2, status |-> "MISSING", holder |-> k2]},
          balances |-> <<>>,
          library |-> <<[id |-> NoId, number |-> lib1], [id |-> NoId, number |-> NoId]>>]
Small == [students |-> {[key |-> k1, school |-> k1, groups |-> {}]},
          guardians |-> {}, memberships |-> {}, assets |-> {},
          balances |-> <<[student |-> k1, amount |-> -1]>>, library |-> <<>>]
Files == {Whole, Small}
Families == {{[key |-> gk, student |-> k1], [key |-> gk, student |-> k2]}}
\* The student k2 of Whole by both of its ids, and by one.
Sheets == {<<[student |-> k2, amount |-> 2], [student |-> k3, amount |-> -1]>>,
           <<[student |-> k2, amount |-> 1]>>}
Libraries == {<<[id |-> lib2, number |-> lib1], [id |-> NoId, number |-> NoId],
                [id |-> row3, number |-> lib1]>>,
              <<[id |-> NoId, number |-> lib1]>>}
Rows == <<row1, row2, row3>>
Symmetry == Permutations(People) \cup Permutations(EntryIds) \cup Permutations(Importers)
=============================================================================
