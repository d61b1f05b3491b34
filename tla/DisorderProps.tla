--------------------------- MODULE DisorderProps ---------------------------
(***************************************************************************)
(* What makes the injector and its ground truth correct.                   *)
(***************************************************************************)
EXTENDS Disorder

\* The readable copies of an event, and the events that have one.
Copies(id) == {i \in DOMAIN records : records[i].event.id = id}
Observable(id) == \E i \in Copies(id) : records[i].readable

\* What the warehouse can get to see of the canonical stream.
Visible(key) == {e \in InBucket(canonical, key) : Observable(e.id)}

\* Transport never touches what the machine reported: apart from publish_time,
\* which only moves forward, every record carries its canonical event, so the
\* window the pipeline computes is the window of the manifest
\* (disorder.py:147-153).
RecordsAreCanonical ==
    \A i \in DOMAIN records :
       \E e \in canonical :
          /\ records[i].event = [e EXCEPT !.publish = records[i].event.publish]
          /\ records[i].event.publish >= e.publish
          /\ records[i].machine = e.machine

\* A cutover is by event time, as the machines report it: no later event has an
\* older version (disorder.py:220-225, test_disorder.py:165-173).
CutoverByEventTime ==
    \A e, f \in canonical : e.time < f.time => e.version <= f.version

\* Some copies of the event are corrupt and some are not.
PartlyCorrupt(id) == id \in log.corrupt /\ Observable(id)

\* The payload of an event as its version says, whatever it was upgraded through.
PayloadOf(e) ==
    LET new == NewPayload(e.type, Seconds, "badge")
    IN  CASE e.version = SCHEMA_V1 -> new
          [] e.version = SCHEMA_V2 -> ToV2(new, e.type)
          [] e.version = SCHEMA_V3 -> ToV3(new, e.type)

\* What the injector leaves is what Warehouse begins with: every event is reported
\* once, with the payload of its version; it is published once and as often again as
\* the log says, the original before its copies, however it was delayed and shuffled;
\* and the events the log calls corrupt are those with an unreadable copy
\* (test_disorder.py:113-136; slv_events.sql:5-8 rests on it).
FeedsTheWarehouse ==
    stage = "done" =>
       /\ \A id \in Ids :
             /\ Cardinality({e \in canonical : e.id = id}) = 1
             /\ Cardinality(Copies(id)) = 1 + ExtraCopies(log, id)
             /\ \E original \in Copies(id) : \A i \in Copies(id) \ {original} :
                   records[original].event.publish < records[i].event.publish
       /\ \A e \in canonical : e.payload = PayloadOf(e)
       /\ log.corrupt = {records[i].event.id : i \in Corrupted}

\* The pipeline and the manifest agree on the window of every event: whatever is
\* published, in whatever order and however often, belongs to the window of the
\* manifest that counts it, and every counted event is published (the bug told
\* in disorder.py:140-145).
WindowsAgree ==
    stage = "done" =>
       /\ \A i \in DOMAIN records :
             LET key == Bucket(records[i].event)
             IN  key \in DOMAIN manifest /\ records[i].event.id \in manifest[key].event_id_checksum
       /\ \A key \in DOMAIN manifest :
             \A id \in manifest[key].event_id_checksum :
                \E i \in Copies(id) : Bucket(records[i].event) = key

\* What the ledger expects of a window is what can be observed of it, measure by
\* measure and durations in seconds whatever version a payload has, provided no event
\* of the window is only partly corrupt (completeness_ledger.sql:72-87).
ExpectationsAreObservable ==
    stage = "done" =>
       \A key \in DOMAIN manifest :
          LET m == manifest[key]
          IN  (\A e \in InBucket(canonical, key) : ~PartlyCorrupt(e.id)) =>
                /\ m.event_count - m.corrupt_count = Cardinality(Visible(key))
                /\ m.unit_count - m.corrupt_cycle_count = Count(Visible(key), "cycle")
                /\ m.defect_count - m.corrupt_defect_count = Count(Visible(key), "defect")
                /\ m.cycle_duration_sum - m.corrupt_duration_sum
                     = Seconds * Count(Visible(key), "cycle")

=============================================================================
