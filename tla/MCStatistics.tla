---------------------------- MODULE MCStatistics ----------------------------
(* Small instances of Statistics for TLC. *)
EXTENDS Statistics

\* Every tag alone, and all of them.
SingleTags == {{t} : t \in Tag} \cup {Tag}
AllTags == {Tag}

\* Those of the JSON form, and zero.
JsonProbabilities == {Zero, Ratio(1, 4), Ratio(1, 2), Ratio(3, 4), Ratio(9, 10)}
Minute == Rat(60)
MixedValues == {-3, 1, 2, 3}
Negative == {-1, 0}

\* Within one interval, at its end, and beyond it.
Within == {4, 5, 6, 8}

\* From the start, after a first value early or late, and with three bins
\* between the values to come.
SomeWarmups ==
    {<< >>, << <<1, 4>> >>, << <<1, 6>> >>, << <<-2, 4>>, <<0, 4>>, <<2, 4>> >>}
Start == {<< >>}
=============================================================================
