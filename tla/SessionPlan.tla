---------------------------- MODULE SessionPlan ----------------------------
(***************************************************************************)
(* Plans of the bindings (binding-core, with its Node, Python and wasm     *)
(* wrappers): a batch is redacted on a copy of the session, its results    *)
(* are shown, and a later commit makes the copy the session, provided the  *)
(* session is by then what it was.  Several plans and direct calls share   *)
(* one session; each call holds the session's lock from start to end.      *)
(***************************************************************************)
EXTENDS SessionBatches

CONSTANTS
  Plans,            \* handles of plans
  NoPlan,           \* a handle that holds no plan
  Taken,            \* the planned session of a committed plan
  MaxInputs,        \* SESSION_CALLER_MAX_INPUTS
  MaxDetections,    \* CALLER_DETECTION_MAX_COUNT
  MaxText,          \* CALLER_DETECTION_TEXT_MAX_BYTES
  MaxEncoded        \* SESSION_CALLER_INPUTS_JSON_MAX_BYTES

(* A document, with the lengths of what is detected in it and of its JSON. *)
Input == [mentions : Seq(Identities), detections : Nat, text : Nat, json : Nat]

ASSUME PlanAssumption ==
  /\ {MaxInputs, MaxDetections, MaxText, MaxEncoded} \subseteq Nat /\ 2 <= MaxEncoded
  /\ Batches \subseteq Seq(Input)

VARIABLES target, plans, published

vars == <<target, plans, published>>

Serial == INSTANCE SerialSession

-----------------------------------------------------------------------------
(* SessionCallerInputs: inputs are decoded and counted one by one, before  *)
(* the session is looked at.                                               *)

NoInputs == [inputs |-> <<>>, detections |-> 0, text |-> 0, encoded |-> 2]

Within(next) ==
  /\ Len(next.inputs) <= MaxInputs /\ next.encoded <= MaxEncoded
  /\ next.detections <= MaxDetections /\ next.text <= MaxText

(* Slip: the separators of the array are forgotten.                        *)
PushedBare(so, input) ==
  IF so = Failed THEN Failed
  ELSE LET next == [inputs |-> Append(so.inputs, input), text |-> so.text + input.text,
                    detections |-> so.detections + input.detections,
                    encoded |-> so.encoded + input.json] IN
       IF Within(next) THEN next ELSE Failed

(* push_utf16_binding_json                                                 *)
Pushed(so, input) ==
  IF so = Failed THEN Failed
  ELSE LET separator == IF so.inputs = <<>> THEN 0 ELSE 1
           next == [inputs |-> Append(so.inputs, input), text |-> so.text + input.text,
                    detections |-> so.detections + input.detections,
                    encoded |-> so.encoded + input.json + separator] IN
       IF Within(next) THEN next ELSE Failed

(* with_capacity, then every input of the request                          *)
Decoded(batch) ==
  IF Len(batch) > MaxInputs THEN Failed ELSE FoldLeft(Pushed, NoInputs, batch)

-----------------------------------------------------------------------------
(* Slip: the batch is planned on the session itself.                       *)
PlanBatchInPlace(p, batch) ==
  /\ plans[p] = NoPlan
  /\ Decoded(batch) # Failed
  /\ \E n \in 1..Len(batch) :
       /\ WithBatch(target, SubSeq(batch, 1, n)) # Failed
       /\ target' = WithBatch(target, SubSeq(batch, 1, n))
       /\ plans' = IF n < Len(batch) THEN plans
                   ELSE [plans EXCEPT ![p] = [base |-> target, planned |-> target',
                                              batch |-> batch]]
  /\ UNCHANGED published

(* plan_session_redactions: everything happens to a clone                  *)
PlanBatch(p, batch) ==
  /\ plans[p] = NoPlan
  /\ Decoded(batch) # Failed
  /\ WithBatch(target, batch) # Failed
  /\ plans' = [plans EXCEPT ![p] = [base |-> target, batch |-> batch,
                                    planned |-> WithBatch(target, batch)]]
  /\ UNCHANGED <<target, published>>

(* Slip: what happened to the session since is not looked at.              *)
CommitBlindly(p) ==
  /\ plans[p] # NoPlan /\ plans[p].planned # Taken
  /\ target' = plans[p].planned
  /\ plans' = [plans EXCEPT ![p].planned = Taken]
  /\ published' = published \cup ResultsOf(target', plans[p].batch)

(* PreparedSessionPlan::commit; from then on the results are relied on     *)
Commit(p) ==
  /\ plans[p] # NoPlan /\ plans[p].planned # Taken
  /\ target = plans[p].base
  /\ target' = plans[p].planned
  /\ plans' = [plans EXCEPT ![p].planned = Taken]
  /\ published' = published \cup ResultsOf(target', plans[p].batch)

(* commit with SessionPlanAlreadyCommitted or SessionPlanConflict: the     *)
(* plan is kept and may be tried again                                     *)
RefuseCommit(p) ==
  /\ plans[p] # NoPlan
  /\ plans[p].planned = Taken \/ target # plans[p].base
  /\ UNCHANGED vars

(* The handle goes away, committed or not.                                 *)
Drop(p) ==
  /\ plans[p] # NoPlan
  /\ plans' = [plans EXCEPT ![p] = NoPlan]
  /\ UNCHANGED <<target, published>>

(* redact_with_session_json                                                *)
Redact(input) ==
  /\ WithDocument(target, input) # Failed
  /\ target' = WithDocument(target, input)
  /\ published' = published \cup {ResultOf(target', input)}
  /\ UNCHANGED plans

(* delete_session                                                          *)
Delete ==
  /\ target' = [NewSession EXCEPT !.deleted = TRUE]
  /\ UNCHANGED <<plans, published>>

(* create_session                                                          *)
Init == target = NewSession /\ plans = [p \in Plans |-> NoPlan] /\ published = {}

Next ==
  \/ \E p \in Plans :
       \/ \E batch \in Batches : PlanBatch(p, batch)
       \/ Commit(p) \/ RefuseCommit(p) \/ Drop(p)
  \/ \E batch \in Batches : Len(batch) = 1 /\ Redact(batch[1])
  \/ Delete

Spec == Init /\ [][Next]_vars

-----------------------------------------------------------------------------
(* Properties                                                              *)

(* Whatever was planned, redacted or committed in between: a result that   *)
(* was committed, or returned by a direct call, restores from the session  *)
(* until the session is deleted, and no two entities share a pseudonym.    *)
PublishedRestore ==
  /\ ~target.deleted =>
       \A result \in published : \A x \in DOMAIN result :
         x \in Named(target) /\ target.names[x] = result[x]
  /\ \A x, y \in Named(target) : target.names[x] = target.names[y] => x = y

(* Comparing values is enough: a plan that still may be committed holds    *)
(* the very session a redaction of its batch would produce now.            *)
ImplementsSerial == Serial!Spec

Total(batch, field) == FoldLeft(LAMBDA sum, input : sum + input[field], 0, batch)

(* The request an accepted batch would be encoded as, an array of its      *)
(* inputs with a comma between any two, stays within the limit, and so do  *)
(* the sums the code keeps step by step.                                   *)
AcceptedBatchesFit ==
  \A p \in Plans : plans[p] # NoPlan =>
    LET batch == plans[p].batch IN
    /\ Len(batch) <= MaxInputs
    /\ 2 + Total(batch, "json") + Len(batch) - 1 <= MaxEncoded
    /\ Total(batch, "detections") <= MaxDetections
    /\ Total(batch, "text") <= MaxText

(* Accepted batches fit, and what came of them restores.                   *)
PlansAreSound == AcceptedBatchesFit /\ PublishedRestore
=============================================================================
