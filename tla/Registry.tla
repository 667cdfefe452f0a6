------------------------------ MODULE Registry ------------------------------
(***************************************************************************)
(* The registry of metrics, src/src/internal.cpp, and what events do to    *)
(* counters, gauges, timers and attributes, src/src/events/ and            *)
(* src/src/metrics/. The statistics of a metric are the data it has fed    *)
(* them since they were reset; Statistics is about what they show. The     *)
(* instances of timers are in Timer.                                       *)
(***************************************************************************)
EXTENDS Configuration, Events

VARIABLE metrics_map        \* from the names that exist to their metrics

\* Bits of one type that are read as another.
Misread == 77

\* Of a counter's m_timestamp the model keeps whether it was set.
New(kind, opts) ==
    [kind |-> kind, opts |-> opts, values |-> << >>, m_value |-> 0, dated |-> FALSE]

\* m_values.update()
Feed(metric, value) == [metric EXCEPT !.values = Append(@, value)]

-----------------------------------------------------------------------------
counter_init(m, value) ==
    [m EXCEPT !.m_value = value, !.dated = TRUE, !.values = <<value>>]

\* Defective variant: a counter that was not initialized does not show zero.
counter_change_silent(m, delta) ==
    Feed([m EXCEPT !.m_value = @ + delta, !.dated = TRUE], m.m_value + delta)

\* increment() and decrement() by the negative
counter_change(m, delta) ==
    LET c == IF m.dated THEN m ELSE counter_init(m, 0)
    IN  Feed([c EXCEPT !.m_value = @ + delta], c.m_value + delta)

counter_process_event(m, type, value) ==
    CASE type = counter_type.INIT ->
            counter_init(New("counter", options.counter), value)
      [] type = counter_type.INCREMENT -> counter_change(m, value)
      [] type = counter_type.DECREMENT -> counter_change(m, -value)
      [] OTHER -> m

\* The statistics of a gauge are fed what it is set to, as those of a timer.
gauge_set(m, value) == Feed(m, value)

gauge_process_event(m, type, value) ==
    CASE type = gauge_type.INIT -> gauge_set(New("gauge", options.gauge), value)
      [] type = gauge_type.SET -> gauge_set(m, value)
      [] OTHER -> m

timer_process_event(m, type, value) ==
    CASE type = timer_type.INIT -> New("timer", options.timer)
      [] type = timer_type.SET -> Feed(m, value)
      [] OTHER -> m

attribute_set(m, value) == [m EXCEPT !.m_value = value]

attribute_process_event(m, type, value) ==
    IF type = attribute_type.SET THEN attribute_set(m, value) ELSE m

\* An event is processed by the kind of the metric that has its name, which
\* need not be the kind that it is for.
process_event(m, event) ==
    LET type == event.event_type
        value == IF event.destination_type = m.kind THEN event.event_data ELSE Misread
    IN  CASE m.kind = "counter" -> counter_process_event(m, type, value)
          [] m.kind = "gauge" -> gauge_process_event(m, type, value)
          [] m.kind = "timer" -> timer_process_event(m, type, value)
          [] m.kind = "attribute" -> attribute_process_event(m, type, value)

\* An attribute follows the pointer that it takes the event's data for.
FollowsGarbage(m, event) ==
    /\ m.kind = "attribute" /\ event.destination_type # "attribute"
    /\ event.event_type = attribute_type.SET

-----------------------------------------------------------------------------
\* The metric that is made for the first event of a name.
new_metric(event) ==
    LET kind == event.destination_type
    IN  New(kind, IF kind = "attribute" THEN << >>
                  ELSE configure(options[kind],
                                 select_pattern(pattern_opts, event.destination_name)))

\* configure() throws, in a thread that must not.
Throws(event) ==
    /\ event.destination_name \notin DOMAIN metrics_map
    /\ event.destination_type # "attribute"
    /\ Misspelt(select_pattern(pattern_opts, event.destination_name))

process_event_message(event) ==
    LET name == event.destination_name
        metric == IF name \in DOMAIN metrics_map THEN metrics_map[name]
                  ELSE new_metric(event)
    IN  metrics_map' = [n \in DOMAIN metrics_map \cup {name} |->
                            IF n = name THEN process_event(metric, event)
                            ELSE metrics_map[n]]
=============================================================================
