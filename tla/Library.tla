------------------------------ MODULE Library -------------------------------
(***************************************************************************)
(* One session of the library, from its configuration to its dumps: the    *)
(* measuring points that make events, the processor thread that applies    *)
(* them to the registry and publishes dumps (src/src/core.cpp,             *)
(* src/src/metrics_dump.cpp), and a reader that waits for a dump with its  *)
(* events as the tests do. Core is about starting and stopping the parts,  *)
(* and MessageQueue about the queue, which here is a sequence.             *)
(***************************************************************************)
EXTENDS JsonDump, FiniteSetsExt, SequencesExt

CONSTANTS Producers,
          Documents,        \* that config_json() may be given
          Calls,            \* of measuring points: kind, type, name and value
          Scopes,           \* of counters: name and delta of HANDY_COUNTER_SCOPE
          MSEC,             \* ticks of the clock per millisecond
          MaxInputs, MaxTime  \* bounds: documents and events, and time

ASSUME LibraryAssumption ==
    /\ IsFiniteSet(Producers)
    /\ MSEC \in Nat \ {0}
    /\ MaxInputs \in Nat /\ MaxTime \in Nat /\ MSEC <= MaxTime

\* A document has sections with settings of what they configure, and patterns.
ASSUME DocumentsAssumption ==
    \A document \in Documents :
        /\ DOMAIN document \subseteq
              {Steps[i][1] : i \in DOMAIN Steps} \cup {"patterns"}
        /\ \A i \in DOMAIN Steps :
            LET section == Steps[i][1]
            IN  section \in DOMAIN document =>
                    IsSettings(document[section], DOMAIN Defaults[Steps[i][2]])
        /\ "patterns" \in DOMAIN document
        /\ IsSequence(document.patterns)
        /\ \A i \in DOMAIN document.patterns :
            LET pattern == document.patterns[i]
            IN  /\ pattern.text \in Seq(Characters)
                /\ IsSettings(pattern.settings, {"interval", "tags"})

\* Calls have a type that there is for their kind; counters count.
ASSUME CallsAssumption ==
    /\ \A call \in Calls :
        \/ call.kind = "counter" /\ call.type \in DOMAIN counter_type /\ call.value \in Int
        \/ call.kind = "gauge" /\ call.type \in DOMAIN gauge_type
        \/ call.kind = "timer" /\ call.type \in DOMAIN timer_type
        \/ call.kind = "attribute" /\ call.type \in DOMAIN attribute_type
    /\ \A s \in Scopes : s = [name |-> s.name, delta |-> s.delta] /\ s.delta \in Int

NoMessage == [destination_type |-> "none"]
NoScope == [name |-> << >>, delta |-> 0]

VARIABLES
    enabled,        \* initialize() was called
    now,            \* the clock
    q,              \* the message queue
    scope,          \* the open scope of a producer, if any
    rpc, popped,    \* the processor thread: where it is, the message it has
    new_dump,       \* the dump that it is going to publish
    dump_timestamp, dump,
    reader,         \* the reader: where it is, what it waits for
    documents,      \* auxiliary: the documents so far
    pushed,         \* auxiliary: the events so far, in the order of the queue
    processed,      \* auxiliary: the number of them that are processed
    unbalanced      \* auxiliary: names of scopes that lost their first event

producerVars == <<scope, pushed, unbalanced>>
processorVars == <<rpc, popped, processed, metrics_map>>
dumpVars == <<new_dump, dump_timestamp, dump>>
vars == <<configVars, enabled, now, q, producerVars, processorVars,
          dumpVars, reader, documents>>

NoDump == [stamp |-> 0, metrics |-> << >>, shown |-> 0]

Init ==
    /\ reset
    /\ metrics_map = << >>
    /\ enabled = FALSE
    /\ now = MSEC
    /\ q = << >>
    /\ scope = [p \in Producers |-> NoScope]
    /\ rpc = "loop" /\ popped = NoMessage
    /\ new_dump = NoDump /\ dump_timestamp = 0 /\ dump = NoDump
    /\ reader = [pc |-> "idle", awaited |-> 0, since |-> 0]
    /\ documents = << >> /\ pushed = << >> /\ processed = 0 /\ unbalanced = {}

Tick ==
    /\ enabled /\ now < MaxTime
    /\ now' = now + 1
    /\ UNCHANGED <<configVars, enabled, q, producerVars, processorVars,
                   dumpVars, reader, documents>>

-----------------------------------------------------------------------------
\* config_json() ignores the document when the library is enabled.
MayConfigure == ~(options.core.enable /\ enabled)

Configure(document) ==
    /\ Len(documents) < MaxInputs
    /\ MayConfigure
    /\ config_json(document)
    /\ documents' = Append(documents, document)
    /\ UNCHANGED <<enabled, now, q, producerVars, processorVars, dumpVars,
                   reader>>

Initialize ==
    /\ ~enabled /\ options.core.enable
    /\ enabled' = TRUE
    /\ UNCHANGED <<configVars, now, q, producerVars, processorVars,
                   dumpVars, reader, documents>>

-----------------------------------------------------------------------------
is_enabled == options.core.enable /\ enabled

\* Measuring points create an event and push it if the library is enabled.
Push(event) ==
    IF is_enabled
    THEN /\ Len(documents) + Len(pushed) < MaxInputs
         /\ q' = Append(q, event)
         /\ pushed' = Append(pushed, event)
    ELSE UNCHANGED <<q, pushed>>

Send(event) ==
    /\ is_enabled
    /\ Push(event)
    /\ UNCHANGED <<configVars, enabled, now, scope, unbalanced, processorVars,
                   dumpVars, reader, documents>>

CounterCall(call) ==
    call.kind = "counter" /\ Send(counter_event(call.type, call.name, call.value))

GaugeCall(call) ==
    call.kind = "gauge" /\ Send(gauge_event(call.type, call.name, call.value))

TimerCall(call) ==
    call.kind = "timer" /\ Send(timer_event(call.type, call.name, call.value))

AttributeCall(call) ==
    call.kind = "attribute" /\ Send(attribute_event(call.name, call.value))

counter_change_event(name, delta) ==
    IF delta >= 0 THEN counter_event("INCREMENT", name, delta)
    ELSE counter_event("DECREMENT", name, -delta)

\* The constructor of scoped_counter_helper.
OpenScope(p, s) ==
    /\ scope[p] = NoScope
    /\ Push(counter_change_event(s.name, s.delta))
    /\ scope' = [scope EXCEPT ![p] = s]
    /\ unbalanced' = IF is_enabled THEN unbalanced ELSE unbalanced \cup {s.name}
    /\ UNCHANGED <<configVars, enabled, now, processorVars, dumpVars, reader,
                   documents>>

\* Defective variant: the destructor repeats the constructor's change.
Closing_same(s) == s.delta

Closing(s) == -s.delta

\* Its destructor.
CloseScope(p) ==
    /\ scope[p] # NoScope
    /\ Push(counter_change_event(scope[p].name, Closing(scope[p])))
    /\ scope' = [scope EXCEPT ![p] = NoScope]
    /\ UNCHANGED <<configVars, enabled, now, unbalanced, processorVars,
                   dumpVars, reader, documents>>

-----------------------------------------------------------------------------
empty == q = << >>

\* The processor thread pops a message.
Pop ==
    /\ enabled /\ rpc = "loop" /\ ~empty
    /\ popped' = Head(q) /\ q' = Tail(q)
    /\ rpc' = "process"
    /\ UNCHANGED <<configVars, enabled, now, producerVars, processed, metrics_map,
                   dumpVars, reader, documents>>

\* What an attribute reads through a pointer that is none is some value, or
\* ends the process, as an exception in this thread does.
Process ==
    /\ rpc = "process"
    /\ LET name == popped.destination_name
       IN  \/ /\ ~Throws(popped)
              /\ process_event_message(popped)
              /\ rpc' = "loop" /\ popped' = NoMessage
              /\ processed' = processed + 1
           \/ /\ \/ Throws(popped)
                 \/ /\ name \in DOMAIN metrics_map
                    /\ FollowsGarbage(metrics_map[name], popped)
              /\ rpc' = "terminated"
              /\ UNCHANGED <<popped, processed, metrics_map>>
    /\ UNCHANGED <<configVars, enabled, now, q, producerVars, dumpVars,
                   reader, documents>>

\* A metric without tags is not shown.
Shown(metric) == metric.kind = "attribute" \/ metric.opts.tags # {}

\* Defective variant: the time of the dump is rounded up.
Milliseconds_up(t) == (t + MSEC - 1) \div MSEC

Milliseconds(t) == t \div MSEC

create_dump ==
    [stamp |-> 0,
     metrics |-> [n \in {m \in DOMAIN metrics_map : Shown(metrics_map[m])} |->
                     metrics_map[n]],
     shown |-> processed]

DumpIsDue ==
    /\ options.dump.interval # 0
    /\ now - dump_timestamp > options.dump.interval

\* metrics_dump::update(), after each message and whenever there is none, up
\* to the copies of the metrics in a new dump.
Update ==
    /\ enabled /\ rpc = "loop" /\ DumpIsDue
    /\ new_dump' = create_dump
    /\ dump_timestamp' = now
    /\ rpc' = "publish"
    /\ UNCHANGED <<configVars, enabled, now, q, producerVars, popped, processed,
                   metrics_map, dump, reader, documents>>

\* The dump is dated when it has its metrics, and then it is published.
Publish ==
    /\ rpc = "publish"
    /\ dump' = [new_dump EXCEPT !.stamp = Milliseconds(now)]
    /\ new_dump' = NoDump
    /\ rpc' = "loop"
    /\ UNCHANGED <<configVars, enabled, now, q, producerVars, popped, processed,
                   metrics_map, dump_timestamp, reader, documents>>

-----------------------------------------------------------------------------
\* A reader waits for its events, those pushed so far, until the queue is
\* empty, and then for a dump that is not older.
StartWait ==
    /\ reader.pc = "idle" /\ enabled
    /\ reader' = [reader EXCEPT !.pc = "queue", !.awaited = Len(pushed)]
    /\ UNCHANGED <<configVars, enabled, now, q, producerVars,
                   processorVars, dumpVars, documents>>

\* The clock is so fine that no other reading of it gives the same time.
SeeEmpty ==
    /\ reader.pc = "queue" /\ empty
    /\ now < MaxTime /\ now' = now + 1
    /\ reader' = [reader EXCEPT !.pc = "dump", !.since = now']
    /\ UNCHANGED <<configVars, enabled, q, producerVars,
                   processorVars, dumpVars, documents>>

\* What the reader takes: the first dump that is not older, or a later one.
Awaited ==
    /\ reader.pc = "dump"
    /\ dump.stamp # 0 /\ dump.stamp * MSEC >= reader.since

-----------------------------------------------------------------------------
Client ==
    \/ \E document \in Documents : Configure(document)
    \/ Initialize
    \/ \E call \in Calls :
        CounterCall(call) \/ GaugeCall(call) \/ TimerCall(call) \/ AttributeCall(call)
    \/ \E p \in Producers :
        \/ \E s \in Scopes : OpenScope(p, s)
        \/ CloseScope(p)
    \/ StartWait \/ SeeEmpty

Next ==
    \/ rpc # "terminated" /\ (Client \/ Tick)
    \/ Pop \/ Process \/ Update \/ Publish

Spec == Init /\ [][Next]_vars

-----------------------------------------------------------------------------
\* The events for a name, among the first n.
EventsOf(name, n) == {i \in 1 .. n : pushed[i].destination_name = name}

OnlyCounter(name, n) ==
    \A i \in EventsOf(name, n) : pushed[i].destination_type = "counter"

IsInit(event) == event.event_type = counter_type.INIT

DeltaOf(event) ==
    IF event.event_type = counter_type.INCREMENT
    THEN event.event_data ELSE -event.event_data

\* Types of all variables.
TypeOK ==
    /\ DOMAIN options = DOMAIN Defaults
    /\ \A k \in Kinds \ {"attribute"} : DOMAIN options[k] = DOMAIN Defaults[k]
    /\ enabled \in BOOLEAN
    /\ now \in 0 .. MaxTime /\ dump_timestamp \in 0 .. now
    /\ scope \in [Producers -> Scopes \cup {NoScope}]
    /\ rpc \in {"loop", "process", "publish", "terminated"}
    /\ (popped = NoMessage) = (rpc \notin {"process", "terminated"})
    /\ \A n \in DOMAIN metrics_map : metrics_map[n].kind \in Kinds
    /\ processed + Len(q) + (IF popped = NoMessage THEN 0 ELSE 1) = Len(pushed)

\* The patterns of a document that are accepted: those before the first that
\* is none, and only if no section is misspelt.
Accepted(document) ==
    {i \in DOMAIN document.patterns :
        /\ \A s \in DOMAIN document \ {"patterns"} : ~Misspelt(document[s])
        /\ \A j \in 1 .. i : IsPattern(document.patterns[j].text)}

WordsOf ==
    LET texts == UNION {{document.patterns[i].text : i \in DOMAIN document.patterns} :
                            document \in Documents}
    IN  [text \in {t \in texts : IsPattern(t)} |-> Words(text)]

\* Those of them that mean the name.
Meaning(document, name) ==
    {i \in Accepted(document) :
        \E w \in WordsOf[document.patterns[i].text] : fnmatch(w, name)}

Meant(name) == {i \in DOMAIN documents : Meaning(documents[i], name) # {}}

\* The documents count in their order, and in each of them the first pattern.
PatternOf(name) ==
    LET document == documents[Min(Meant(name))]
    IN  document.patterns[Min(Meaning(document, name))]

Entitled(kind, name) ==
    IF Meant(name) = {} THEN options[kind]
    ELSE configure(options[kind], PatternOf(name).settings)

\* Whatever sequence of documents came, and whichever of them failed, a
\* metric has the options of the first pattern that means its name, over
\* those of its kind, at all times: they do not change when it exists. Only
\* an INIT event takes the pattern's options away. And what a document says
\* of a kind overrides what it says of all metrics.
OptionsInEffect ==
    /\ documents # << >> =>
        LET last == Last(documents)
        IN  \A kind \in DOMAIN last \cap Kinds :
                (\A s \in DOMAIN last \ {"patterns"} : ~Misspelt(last[s])) =>
                    \A f \in DOMAIN last[kind] : options[kind][f] = last[kind][f]
    /\ \A n \in DOMAIN metrics_map :
        LET m == metrics_map[n]
        IN  m.kind # "attribute" =>
                \/ m.opts = Entitled(m.kind, n)
                \/ /\ m.opts = options[m.kind]
                   /\ \E i \in EventsOf(n, processed) : IsInit(pushed[i])

\* The values that a counter passes through in the first n events, as the
\* documentation has them: the initial one, or zero, and then one after each
\* change.
IsPath(values, name, n) ==
    LET inits == {i \in EventsOf(name, n) : IsInit(pushed[i])}
        since == IF inits = {} THEN 0 ELSE Max(inits)
        changes == {i \in EventsOf(name, n) : i > since}
        Rank(i) == Cardinality({j \in changes : j <= i})
    IN  /\ Len(values) = 1 + Cardinality(changes)
        /\ values[1] = IF since = 0 THEN 0 ELSE pushed[since].event_data
        /\ \A i \in changes : values[Rank(i) + 1] = values[Rank(i)] + DeltaOf(pushed[i])

\* What a dump shows of a counter are the values up to one moment, each of
\* them, in the order of the queue; so does the registry.
CounterPath ==
    LET Exact(metrics, n) ==
            \A name \in DOMAIN metrics :
                OnlyCounter(name, n) => IsPath(metrics[name].values, name, n)
    IN  Exact(metrics_map, processed) /\ Exact(dump.metrics, dump.shown)

Sum(f, S) == FoldSet(LAMBDA x, sum : sum + f[x], 0, S)

\* The producers that have a scope of the name open.
Open(name) == {p \in Producers : scope[p] # NoScope /\ scope[p].name = name}

\* A counter that only scopes change is below zero at no time if none of
\* them is negative, and when nothing is on its way it is the sum of the open
\* ones. A scope that was open when the library was initialized is closed in
\* it but was not opened there: its counter keeps the difference for good.
ScopesBalance ==
    \A name \in DOMAIN metrics_map \ unbalanced :
        (\A call \in Calls : call.name # name) =>
            /\ (\A s \in Scopes : s.delta >= 0) => metrics_map[name].m_value >= 0
            /\ processed = Len(pushed) =>
                metrics_map[name].m_value =
                    Sum([p \in Producers |-> scope[p].delta], Open(name))

\* The reader sees every event that was pushed before it began to wait,
\* although the queue is empty before its last event is processed, and dumps
\* are dated in milliseconds. Of each of these events it finds the metric,
\* with the kind of its first event and the tags in effect, unless the
\* configuration left it without tags.
DumpComplete ==
    Awaited =>
        /\ dump.shown >= reader.awaited
        /\ \A i \in 1 .. reader.awaited :
            LET name == pushed[i].destination_name
                kind == pushed[Min(EventsOf(name, i))].destination_type
                tags == {Entitled(kind, name).tags, options[kind].tags}
                json == to_string(dump.metrics)
            IN  \/ /\ name \in DOMAIN json /\ json[name].type = kind
                   /\ kind # "attribute" => json[name].fields \in tags \ {{}}
                \/ kind # "attribute" /\ {} \in tags

-----------------------------------------------------------------------------
(* The inductive invariant from which the properties above follow.         *)

Names == {call.name : call \in Calls} \cup {s.name : s \in Scopes}

Messages == [destination_type : Kinds, event_type : 0 .. 5, destination_name : Names,
             event_data : Int \cup {call.value : call \in Calls}]

\* What the thread has not taken out is in the queue.
QueueInv ==
    /\ pushed \in Seq(Messages) /\ q \in Seq(Messages) /\ processed \in Nat
    /\ \A i \in 1 .. Len(pushed) :
        pushed[i].destination_type = "counter" =>
            pushed[i].event_type \in 0 .. 2 /\ pushed[i].event_data \in Int
    /\ popped # NoMessage => popped = pushed[processed + 1]
    /\ \A i \in 1 .. Len(q) : q[i] = pushed[Len(pushed) - Len(q) + i]

Groups == [words : {WordsOf[text] : text \in DOMAIN WordsOf},
           settings : UNION {{document.patterns[i].settings :
                                  i \in DOMAIN document.patterns} : document \in Documents}]

\* The options have all their fields, and the pattern that select_pattern()
\* finds is the one that counts.
ConfigInv ==
    /\ documents \in Seq(Documents) /\ pattern_opts \in Seq(Groups)
    /\ IsFunction(options)
    /\ \A k \in DOMAIN Defaults :
        IsFunction(options[k]) /\ DOMAIN options[k] = DOMAIN Defaults[k]
    /\ \A name \in Names :
        /\ Matched(pattern_opts, name) <=> Meant(name) # {}
        /\ Meant(name) # {} => select_pattern(pattern_opts, name) = PatternOf(name).settings

\* The configuration is not changed when there are events.
EnabledInv ==
    /\ enabled => options.core.enable
    /\ ~enabled => pushed = << >>

\* The kind of a metric is that of its first event.
KindOf(name) == pushed[Min(EventsOf(name, Len(pushed)))].destination_type

IsMetric(m) ==
    m = [kind |-> m.kind, opts |-> m.opts, values |-> m.values,
         m_value |-> m.m_value, dated |-> m.dated]

MetricsInv ==
    /\ IsFunction(metrics_map)
    /\ DOMAIN metrics_map = {name \in Names : EventsOf(name, processed) # {}}
    /\ \A name \in DOMAIN metrics_map :
        LET m == metrics_map[name]
        IN  /\ IsMetric(m) /\ m.kind = KindOf(name)
            /\ OnlyCounter(name, processed) =>
                /\ m.dated /\ m.values \in Seq(Int) /\ m.values # << >>
                /\ m.m_value = Last(m.values)

\* What the open scopes of a name have changed is what its events change.
Balance(name, n) == Sum([i \in 1 .. n |-> DeltaOf(pushed[i])], EventsOf(name, n))

OnlyScopes(name) == \A call \in Calls : call.name # name

BalanceInv ==
    \A name \in Names : OnlyScopes(name) =>
        /\ \A i \in EventsOf(name, Len(pushed)) :
            pushed[i].destination_type = "counter" /\ ~IsInit(pushed[i])
        /\ name \in DOMAIN metrics_map =>
            metrics_map[name].m_value = Balance(name, processed)
        /\ name \notin unbalanced =>
            /\ ~enabled => Open(name) = {}
            /\ Balance(name, Len(pushed)) =
                Sum([p \in Producers |-> scope[p].delta], Open(name))
            /\ (\A s \in Scopes : s.delta >= 0) =>
                \A n \in 0 .. Len(pushed) : Balance(name, n) >= 0

Tags(name) == {Entitled(KindOf(name), name).tags, options[KindOf(name)].tags}

\* A dump shows the metrics of the events up to one, but those without tags.
IsDump(d) ==
    /\ d = [stamp |-> d.stamp, metrics |-> d.metrics, shown |-> d.shown]
    /\ d.stamp \in Nat /\ d.shown \in 0 .. processed
    /\ IsFunction(d.metrics) /\ DOMAIN d.metrics \subseteq Names
    /\ \A name \in Names : EventsOf(name, d.shown) # {} =>
        IF name \in DOMAIN d.metrics
        THEN /\ d.metrics[name].kind = KindOf(name)
             /\ KindOf(name) # "attribute" => d.metrics[name].opts.tags \in Tags(name) \ {{}}
        ELSE KindOf(name) # "attribute" /\ {} \in Tags(name)
    /\ \A name \in DOMAIN d.metrics : EventsOf(name, d.shown) # {}

\* The reader's events were taken out of the queue when it saw it empty. A
\* dump that is made later has them, and so has one that is being made.
ReaderInv ==
    /\ IsDump(dump) /\ IsDump(new_dump)
    /\ dump.stamp * MSEC <= now
    /\ rpc = "publish" => new_dump.shown = processed
    /\ reader = [pc |-> reader.pc, awaited |-> reader.awaited, since |-> reader.since]
    /\ reader.pc \in {"idle", "queue", "dump"} /\ reader.awaited \in 0 .. Len(pushed)
    /\ reader.pc = "dump" =>
        /\ reader.since \in Nat
        /\ reader.awaited <= Len(pushed) - Len(q)
        /\ dump.stamp * MSEC >= reader.since => dump.shown >= reader.awaited

\* With CounterPath for the dump that is being made.
IInv ==
    /\ TypeOK /\ QueueInv /\ ConfigInv /\ EnabledInv /\ MetricsInv
    /\ OptionsInEffect /\ CounterPath
    /\ \A name \in DOMAIN new_dump.metrics :
        OnlyCounter(name, new_dump.shown) =>
            IsPath(new_dump.metrics[name].values, name, new_dump.shown)
    /\ BalanceInv /\ ReaderInv
=============================================================================
