------------------------------ MODULE JsonDump ------------------------------
(***************************************************************************)
(* The JSON form of a dump, src/src/json_dump.cpp and src/src/json/: each  *)
(* metric with its type and the fields that its tags ask for. What the     *)
(* fields of the statistics show is in Statistics.                         *)
(***************************************************************************)
EXTENDS Registry

gauge_json(m) == [type |-> "gauge", fields |-> m.opts.tags]
counter_json(m) == [type |-> "counter", fields |-> m.opts.tags]
timer_json(m) == [type |-> "timer", fields |-> m.opts.tags]
attribute_json(m) == [type |-> "attribute", fields |-> {"value"}]

to_string(metrics) ==
    [n \in DOMAIN metrics |->
        LET m == metrics[n]
        IN  CASE m.kind = "gauge" -> gauge_json(m)
              [] m.kind = "counter" -> counter_json(m)
              [] m.kind = "timer" -> timer_json(m)
              [] m.kind = "attribute" -> attribute_json(m)]
=============================================================================
