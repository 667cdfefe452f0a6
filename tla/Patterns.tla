------------------------------ MODULE Patterns ------------------------------
(***************************************************************************)
(* Patterns of metric names in a configuration, src/src/config.cpp: lists  *)
(* in braces are expanded when the configuration is read, and the words    *)
(* are matched against a name when its first event comes. Names, words and *)
(* patterns are sequences of characters.                                   *)
(***************************************************************************)
EXTENDS Integers, Sequences

\* "end" is what there is behind the last character.
Characters == STRING \ {"end"}

Failed == [ok |-> FALSE]
Expansion(words, pos) == [ok |-> TRUE, words |-> words, pos |-> pos]

Char(pattern, i) == IF i <= Len(pattern) THEN pattern[i] ELSE "end"

\* The characters that end the preamble.
Ends(nested) == {"end", "{"} \cup (IF nested THEN {",", "}"} ELSE {})

preamble_end(pattern, pos, nested) ==
    CHOOSE i \in pos .. Len(pattern) + 1 :
        /\ Char(pattern, i) \in Ends(nested)
        /\ \A j \in pos .. i - 1 : Char(pattern, j) \notin Ends(nested)

\* What there is to read from pos: a pattern, an element of a list (a nested
\* pattern), or the elements of a list that are left.
Places(pattern) == {"pattern", "element", "list"} \X (1 .. Len(pattern) + 1)

\* The words of the pattern that begins at pos, and where it ends; result has
\* what the calls yield that are made on the way.
expand(pattern, part, pos, result) ==
    LET end == preamble_end(pattern, pos, part = "element")
        preamble == SubSeq(pattern, pos, end - 1)
        list == result[<<"list", end + 1>>]
        postscript == result[<<part, list.pos + 1>>]
    IN  IF Char(pattern, end) # "{" THEN Expansion({preamble}, end)
        ELSE IF ~list.ok \/ ~postscript.ok THEN Failed
        ELSE Expansion({preamble \o w \o v : w \in list.words, v \in postscript.words},
                       postscript.pos)

\* The words of the elements of the list, up to its closing brace.
expand_list(pattern, pos, result) ==
    LET first == result[<<"element", pos>>]
        rest == result[<<"list", first.pos + 1>>]
    IN  IF ~first.ok THEN Failed
        ELSE IF Char(pattern, first.pos) = "}" THEN first
        ELSE IF Char(pattern, first.pos) # "," \/ ~rest.ok THEN Failed
        ELSE Expansion(first.words \cup rest.words, rest.pos)

Results(pattern) ==
    LET result[p \in Places(pattern)] ==
            IF p[1] = "list" THEN expand_list(pattern, p[2], result)
            ELSE expand(pattern, p[1], p[2], result)
    IN  result

\* The code throws where the expansion fails.
expand_pattern(pattern) ==
    LET expansion == Results(pattern)[<<"pattern", 1>>]
    IN  IF expansion.ok /\ expansion.pos = Len(pattern) + 1 THEN expansion ELSE Failed

\* The wildcard of fnmatch() that is used most; no others are in the models.
\* What is left of the word from w and of the name from n matches.
fnmatch(word, name) ==
    LET match[p \in (1 .. Len(word) + 1) \X (1 .. Len(name) + 1)] ==
            LET w == p[1]
                n == p[2]
            IN  IF w > Len(word) THEN n > Len(name)
                ELSE IF word[w] = "*"
                THEN \E m \in n .. Len(name) + 1 : match[<<w + 1, m>>]
                ELSE /\ n <= Len(name) /\ word[w] = name[n]
                     /\ match[<<w + 1, n + 1>>]
    IN  match[<<1, 1>>]

-----------------------------------------------------------------------------
(* What patterns mean: the characters that are met on the ways through the *)
(* pattern, each of which takes one element of each list that it comes to. *)

\* The number of lists around a position. Outside of lists, commas and
\* closing braces are characters as others are.
Depth(pattern) ==
    LET depth[i \in 0 .. Len(pattern) + 1] ==
            IF i <= 1 THEN 0
            ELSE LET before == depth[i - 1]
                 IN  IF pattern[i - 1] = "{" THEN before + 1
                     ELSE IF pattern[i - 1] = "}" /\ before > 0 THEN before - 1
                     ELSE before
    IN  depth

IsPattern(pattern) == Depth(pattern)[Len(pattern) + 1] = 0

\* Where the list ends that is around a position.
Close(pattern, i) ==
    CHOOSE j \in i .. Len(pattern) :
        /\ Depth(pattern)[j + 1] < Depth(pattern)[i]
        /\ \A k \in i .. j - 1 : Depth(pattern)[k + 1] >= Depth(pattern)[i]

\* Where the elements of the list begin that is opened at i.
Elements(pattern, i) ==
    {i + 1} \cup {k + 1 : k \in {m \in i + 1 .. Close(pattern, i + 1) :
                                  pattern[m] = "," /\ Depth(pattern)[m] = Depth(pattern)[i + 1]}}

\* The words on the ways from each position to the end.
Words(pattern) ==
    LET words[i \in 1 .. Len(pattern) + 1] ==
            IF i > Len(pattern) THEN {<< >>}
            ELSE IF pattern[i] = "{" THEN UNION {words[j] : j \in Elements(pattern, i)}
            ELSE IF pattern[i] \in {",", "}"} /\ Depth(pattern)[i] > 0
            THEN words[Close(pattern, i) + 1]
            ELSE {<<pattern[i]>> \o w : w \in words[i + 1]}
    IN  words[1]
=============================================================================
