---------------------------- MODULE MCPortfolios ----------------------------
(* One plan of the file, its readers of the lowest level, and a seed that   *)
(* may be cut short and started again.                                      *)
EXTENDS Seed, TLC

Symmetry == Permutations(Procs)
MCReaders == { <<"titan", 0>> }

\* New rows in the first list, and the second as it is; or another date, the
\* first list emptied and new rows in the second.
MCAsked ==
    { [ plan |-> NoPlan, date |-> NoDate, parts |-> <<"rows", "keep">> ],
      [ plan |-> "titan", date |-> 1, parts |-> <<"empty", "rows">> ] }
=============================================================================
