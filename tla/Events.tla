------------------------------- MODULE Events -------------------------------
(***************************************************************************)
(* The event contract (generator/events.py): the payload of each type of   *)
(* event, the two schema changes, and the one function that reads a cycle  *)
(* duration whatever the version.  A payload is a function from the names  *)
(* of its fields; a wire value that no property tells apart is a string.   *)
(* A duration_s is a whole number of seconds here.                         *)
(***************************************************************************)
EXTENDS Integers

SCHEMA_V1 == 1
SCHEMA_V2 == 2
SCHEMA_V3 == 3

EventType == {"cycle", "defect", "state_change", "operator_scan"}

CONSTANT Null       \* what a reader gets for a field that is not there

CyclePayload(seconds, badge) ==
    [work_order |-> "wo", sku |-> "sku", unit_seq |-> 1, duration_s |-> seconds, operator |-> badge]
DefectPayload(badge) ==
    [work_order |-> "wo", sku |-> "sku", unit_seq |-> 1, defect_code |-> "code", inspector |-> badge]
StateChangePayload == [from_state |-> "IDLE", to_state |-> "EXECUTE", reason |-> Null]
OperatorScanPayload(badge) == [badge_id |-> badge, action |-> "login"]

\* The payload the simulator gives an event of each type.
NewPayload(type, seconds, badge) ==
    CASE type = "cycle" -> CyclePayload(seconds, badge)
      [] type = "defect" -> DefectPayload(badge)
      [] type = "state_change" -> StateChangePayload
      [] type = "operator_scan" -> OperatorScanPayload(badge)

Has(payload, field) == field \in DOMAIN payload
Without(payload, field) == [f \in DOMAIN payload \ {field} |-> payload[f]]
With(payload, field, value) ==
    [f \in DOMAIN payload \cup {field} |-> IF f = field THEN value ELSE payload[f]]

\* v2 adds line_id to every payload and renames a cycle's operator.
ToV2(payload, type) ==
    LET out == With(payload, "line_id", IF Has(payload, "line_id") THEN payload["line_id"] ELSE "")
    IN  IF type = "cycle" /\ Has(out, "operator")
        THEN With(Without(out, "operator"), "operator_badge", out["operator"])
        ELSE out

\* v3 is v2, with a cycle's duration renamed and counted in milliseconds.
ToV3(payload, type) ==
    LET out == ToV2(payload, type)
    IN  IF type = "cycle" /\ Has(out, "duration_s")
        THEN With(Without(out, "duration_s"), "duration_ms", 1000 * out["duration_s"])
        ELSE out

\* The duration in seconds, or zero when there is none to add.
CycleDurationSeconds(payload) ==
    IF Has(payload, "duration_s") THEN payload["duration_s"]
    ELSE IF Has(payload, "duration_ms") THEN payload["duration_ms"] \div 1000
    ELSE 0

=============================================================================
