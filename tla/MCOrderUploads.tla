--------------------------- MODULE MCOrderUploads ---------------------------
EXTENDS OrderUploads, TLC

CONSTANTS d1, d2, h1, h2

SampleAllowed == {{}, {"stuck"}, {"impatient", "again"}, {"slow"}}

(* At most one document is in peril.  Handlers overlap over one document   *)
(* at a time, and the form of an impatient user is looked at alone: those  *)
(* of two documents share only the janitor.                                *)
Overlapping ==
    /\ perils[d1] = {}
    /\ "impatient" \in perils[d2] => form[d1] = "new"
    /\ call[h1].doc = call[h2].doc \/ NoDoc \in {call[h1].doc, call[h2].doc}
============================================================================
