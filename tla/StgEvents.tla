----------------------------- MODULE StgEvents -----------------------------
(***************************************************************************)
(* The staging view (staging/stg_events.sql): the payloads of all versions *)
(* conformed into one row, as operators.                                   *)
(***************************************************************************)
EXTENDS Events

\* json_string: the value of a key, or null.
JsonString(payload, key) == IF Has(payload, key) THEN payload[key] ELSE Null
Coalesce(a, b) == IF a # Null THEN a ELSE b

\* Mutant of StagedDuration: the coalesce without the division.
PlainCoalesce(payload) == Coalesce(JsonString(payload, "duration_s"), JsonString(payload, "duration_ms"))

\* The v3 field is another unit: conforming it is a division as well.
StagedDuration(payload) ==
    Coalesce(JsonString(payload, "duration_s"),
             IF Has(payload, "duration_ms") THEN payload["duration_ms"] \div 1000 ELSE Null)

\* Mutant of StagedOperator: a reader that only knows the first name.
OldNameOnly(payload) == JsonString(payload, "operator")

StagedOperator(payload) ==
    Coalesce(JsonString(payload, "operator"), JsonString(payload, "operator_badge"))

=============================================================================
