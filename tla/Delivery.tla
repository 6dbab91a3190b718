------------------------------ MODULE Delivery ------------------------------
(***************************************************************************)
(* What ingestion promises to the people behind the two ends of it: the    *)
(* app that writes a log and the reader of the log pages.  There is no     *)
(* phone, no upload, no cap and no failure here; Ingest implements this.   *)
(***************************************************************************)
CONSTANT Logs

VARIABLES
  written,  \* the app has written the log
  stored,   \* the log pages find it
  shown     \* the live tail has been given it

vars == <<written, stored, shown>>

Init == written = {} /\ stored = {} /\ shown = {}

Write ==
  /\ \E l \in Logs \ written : written' = written \cup {l}
  /\ UNCHANGED <<stored, shown>>

\* Any number of logs at once, none that was not written, and for good.
Deliver ==
  /\ \E batch \in SUBSET written : stored' = stored \cup batch
  /\ UNCHANGED <<written, shown>>

\* The tail follows the table.
Show ==
  /\ \E batch \in SUBSET stored : shown' = shown \cup batch
  /\ UNCHANGED <<written, stored>>

Next == Write \/ Deliver \/ Show

Spec == Init /\ [][Next]_vars

\* No log is late for ever.
Arrival == \A l \in Logs : l \in written ~> l \in stored
=============================================================================
