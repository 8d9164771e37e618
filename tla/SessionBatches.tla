-------------------------- MODULE SessionBatches --------------------------
(***************************************************************************)
(* What a session does to whole batches of documents, as the bindings use  *)
(* it: the mentions of every document get the pseudonyms they have or the  *)
(* next free ones, for the batch as a whole or not at all.  How one        *)
(* document is planned and committed is RedactionSession's business.       *)
(***************************************************************************)
EXTENDS Integers, Sequences, FiniteSets, SequencesExt

CONSTANTS
  Identities,   \* entities a document mentions
  MaxMappings,  \* MAX_SESSION_MAPPINGS
  Batches,      \* sequences of inputs a caller may hand over
  Failed

ASSUME BatchAssumption == IsFiniteSet(Identities) /\ MaxMappings \in Nat

(* Some entities have names.                                               *)
Sessions == [names : UNION {[S -> Nat] : S \in SUBSET Identities}, deleted : BOOLEAN]

NewSession == [names |-> [x \in {} |-> 0], deleted |-> FALSE]

Named(s) == DOMAIN s.names

(* One mention within a redaction that has come so far.                    *)
WithMention(s, x) ==
  CASE s = Failed -> Failed
    [] s # Failed /\ x \in Named(s) -> s
    [] s # Failed /\ x \notin Named(s) ->
         IF Cardinality(Named(s)) = MaxMappings THEN Failed
         ELSE [s EXCEPT !.names =
                 [y \in Named(s) \cup {x} |-> IF y = x THEN Cardinality(Named(s)) + 1
                                              ELSE s.names[y]]]

(* redact with a session: refused when deleted, whatever the text says     *)
WithDocument(s, input) ==
  IF s = Failed \/ (s # Failed /\ s.deleted) THEN Failed
  ELSE FoldLeft(WithMention, s, input.mentions)

WithBatch(s, batch) == FoldLeft(WithDocument, s, batch)

(* The pseudonyms a result shows                                           *)
ResultOf(s, input) == [x \in ToSet(input.mentions) |-> s.names[x]]
ResultsOf(s, batch) == {ResultOf(s, batch[i]) : i \in DOMAIN batch}
=============================================================================
