------------------------------ MODULE MCSchedule ------------------------------
(***************************************************************************)
(* Small instances of Schedule for TLC: a week of two days, two times a    *)
(* day, templates that run on both days without an end.                    *)
(***************************************************************************)
EXTENDS Schedule, TLC

CONSTANTS dana, omer

MCNewTemplates == [weekdays : {{0, 1}}, slot : {0}, coach : {dana},
                   last : {NoDate}, active : {TRUE}]

MCMoves == {<<1, 1>>}

Symmetry == Permutations(Ids)

=============================================================================
