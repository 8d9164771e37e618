--------------------------- MODULE SerialSession ---------------------------
(***************************************************************************)
(* The session its holders should see: whole batches redacted one after    *)
(* the other, and a deletion nothing comes back from.                      *)
(***************************************************************************)
EXTENDS SessionBatches

VARIABLES
  target,       \* the session
  published     \* the results callers may rely on

serialVars == <<target, published>>

Init == target = NewSession /\ published = {}

Redact(batch) ==
  /\ WithBatch(target, batch) # Failed
  /\ target' = WithBatch(target, batch)
  /\ published' = published \cup ResultsOf(target', batch)

Delete ==
  /\ target' = [NewSession EXCEPT !.deleted = TRUE]
  /\ UNCHANGED published

Next ==
  /\ serialVars' # serialVars
  /\ (\E batch \in Batches : Redact(batch)) \/ Delete

Spec == Init /\ [][Next]_serialVars
=============================================================================
