------------------------------- MODULE Events -------------------------------
(***************************************************************************)
(* Events, src/src/events/: what measuring points send to the processor    *)
(* thread. Event types are numbers, and each kind of metric has its own.   *)
(* Timestamps are left out: the time of data is in Statistics and Timer.   *)
(***************************************************************************)

counter_type == [INIT |-> 0, INCREMENT |-> 1, DECREMENT |-> 2]
gauge_type == [INIT |-> 0, SET |-> 1]
timer_type == [INIT |-> 0, START |-> 1, STOP |-> 2, DISCARD |-> 3,
               HEARTBEAT |-> 4, SET |-> 5]
attribute_type == [SET |-> 0]

event_message(kind, type, name, data) ==
    [destination_type |-> kind, event_type |-> type,
     destination_name |-> name, event_data |-> data]

counter_event(type, name, value) ==
    event_message("counter", counter_type[type], name, value)

gauge_event(type, name, value) ==
    event_message("gauge", gauge_type[type], name, value)

\* Of INIT the data is the instance, of SET it is the measurement.
timer_event(type, name, data) ==
    event_message("timer", timer_type[type], name, data)

\* The data is a pointer to the value.
attribute_event(name, value) ==
    event_message("attribute", attribute_type.SET, name, value)
=============================================================================
