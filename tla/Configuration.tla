--------------------------- MODULE Configuration ----------------------------
(***************************************************************************)
(* Options, src/src/config.cpp and src/src/config/: what config_json() has *)
(* made of the documents it was given. A document is a record of sections; *)
(* a section holds the settings it gives a valid value, and the others are *)
(* as if they were not there. The first tag may be misspelt: then          *)
(* configure() throws when it has emptied the tags.                        *)
(***************************************************************************)
EXTENDS Patterns

VARIABLES options,          \* settings by target; gauge_opts is options["gauge"]
          pattern_opts      \* expanded patterns with their settings, in order

configVars == <<options, pattern_opts>>

Kinds == {"counter", "gauge", "timer", "attribute"}

\* The default options: config_init() and the constructors.
Defaults ==
    LET values == [interval |-> "1 s", tags |-> {"value", "count"}]
    IN  [statistics |-> values, counter |-> values, gauge |-> values,
         timer |-> values, dump |-> [interval |-> 1], core |-> [enable |-> TRUE]]

IsFunction(f) == f = [x \in DOMAIN f |-> f[x]]
IsSequence(s) == IsFunction(s) /\ Len(s) \in Nat /\ DOMAIN s = 1 .. Len(s)

\* Settings give values to some of the fields.
IsSettings(settings, fields) == IsFunction(settings) /\ DOMAIN settings \subseteq fields

Misspelt(settings) ==
    "tags" \in DOMAIN settings /\ "misspelt" \in settings.tags

\* Defective variant: options that are not set are lost.
configure_all(opts, settings) == settings

configure(opts, settings) ==
    [f \in DOMAIN opts \cup DOMAIN settings |->
        IF f \notin DOMAIN settings THEN opts[f]
        ELSE IF f = "tags" /\ Misspelt(settings) THEN {}
        ELSE settings[f]]

\* Sections and the options they configure, in order: those of the old
\* format (whose "metrics" has three sections), then those of the new one.
Steps ==
    << <<"statistics", "statistics">>, <<"statistics", "gauge">>,
       <<"statistics", "counter">>, <<"statistics", "timer">>,
       <<"metrics.gauge", "gauge">>, <<"metrics.counter", "counter">>,
       <<"metrics.timer", "timer">>, <<"metrics-dump", "dump">>, <<"core", "core">>,
       <<"defaults", "statistics">>, <<"defaults", "gauge">>,
       <<"defaults", "counter">>, <<"defaults", "timer">>,
       <<"gauge", "gauge">>, <<"counter", "counter">>, <<"timer", "timer">>,
       <<"dump-interval", "dump">>, <<"enable", "core">> >>

\* What a step makes of the options; ok is FALSE when one of them throws.
Step(done, document, section, target) ==
    IF ~done.ok \/ section \notin DOMAIN document THEN done
    ELSE [ok |-> ~Misspelt(document[section]),
          options |-> [done.options EXCEPT ![target] = configure(@, document[section])]]

Configured(opts, document) ==
    LET after[n \in 0 .. Len(Steps)] ==
            IF n = 0 THEN [ok |-> TRUE, options |-> opts]
            ELSE Step(after[n - 1], document, Steps[n][1], Steps[n][2])
    IN  after[Len(Steps)]

\* The groups of patterns up to the first that cannot be expanded.
Grouped(groups, patterns) ==
    LET expanded(i) == expand_pattern(patterns[i].text)
        accepted == {i \in DOMAIN patterns : \A j \in 1 .. i : expanded(j).ok}
    IN  groups \o [i \in accepted |-> [words |-> expanded(i).words,
                                      settings |-> patterns[i].settings]]

\* Defective variant: patterns that come later are tried first.
First_last(groups, name) ==
    CHOOSE i \in DOMAIN groups :
        /\ \E w \in groups[i].words : fnmatch(w, name)
        /\ \A j \in i + 1 .. Len(groups) : \A w \in groups[j].words : ~fnmatch(w, name)

First(groups, name) ==
    CHOOSE i \in DOMAIN groups :
        /\ \E w \in groups[i].words : fnmatch(w, name)
        /\ \A j \in 1 .. i - 1 : \A w \in groups[j].words : ~fnmatch(w, name)

Matched(groups, name) ==
    \E i \in DOMAIN groups : \E w \in groups[i].words : fnmatch(w, name)

\* The settings of the first group with a word that matches; none are empty.
select_pattern(groups, name) ==
    IF Matched(groups, name) THEN groups[First(groups, name)].settings ELSE << >>

reset ==
    /\ options = Defaults
    /\ pattern_opts = << >>

\* config_json(), with the mutex held and the library not enabled. What came
\* before a failure stays, and so do patterns of earlier calls.
config_json(document) ==
    LET configured == Configured(options, document)
    IN  /\ options' = configured.options
        /\ pattern_opts' = IF configured.ok
                           THEN Grouped(pattern_opts, document.patterns)
                           ELSE pattern_opts
=============================================================================
