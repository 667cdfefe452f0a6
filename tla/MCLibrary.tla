----------------------------- MODULE MCLibrary ------------------------------
EXTENDS Library, TLC

CONSTANTS p1, p2

MCProducers == {p1, p2}
Symmetric == Permutations({p1, p2})

AB == <<"a", "b">>
C == <<"c">>

Pattern(text, settings) == [text |-> text, settings |-> settings]

Count == [tags |-> {"count"}]
NoTags == [tags |-> {}]
Wrong == [tags |-> {"misspelt"}]

Lists == <<Pattern(<<"{", "x", ",", "a", "{", "c", ",", "b", "}", "}">>, Count),
           Pattern(<<"*">>, NoTags)>>

\* A brace without an end, before a pattern that is therefore not read.
Broken == <<Pattern(<<"a", "*">>, [interval |-> "5 s"]),
            Pattern(<<"{", "c">>, NoTags),
            Pattern(<<"c">>, NoTags)>>

MCDocuments ==
    {[defaults |-> Count, gauge |-> [interval |-> "9 s"], counter |-> NoTags @@ [interval |-> "9 s"],
      patterns |-> Lists],
     [statistics |-> NoTags, patterns |-> Broken],
     [defaults |-> Count, timer |-> Wrong, patterns |-> Lists],
     [patterns |-> <<Pattern(<<"c">>, Wrong)>>],
     [core |-> [enable |-> FALSE], patterns |-> << >>]}

Of(kind, type, name, value) ==
    [kind |-> kind, type |-> type, name |-> name, value |-> value]

MCCalls == {Of("counter", "INIT", C, 3), Of("gauge", "SET", C, 5),
            Of("timer", "SET", C, 9), Of("attribute", "SET", C, 7)}

MCScopes == {[name |-> AB, delta |-> 2]}
=============================================================================
