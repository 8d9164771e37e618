------------------------- MODULE DocumentAnalysis -------------------------
(***************************************************************************)
(* What an incremental session promises: a document under optimistic       *)
(* revisions, changed by whole patches or not at all, whose analysis is    *)
(* the batch analysis of the document as it is.                            *)
(***************************************************************************)
EXTENDS StructuredDocument

CONSTANTS
  Patches,      \* sequences of changes
  NoReport      \* nothing was analyzed since the last patch

VARIABLES
  document,
  revision,
  report        \* the last snapshot, of the document as it is

analysisVars == <<document, revision, report>>

Init ==
  /\ document \in Documents
  /\ revision = 0 /\ report = NoReport

Patch(expected, changes) ==
  /\ expected = revision /\ revision < MaxRevision
  /\ ApplyChanges(document, changes) \notin Errors \cup {document}
  /\ document' = ApplyChanges(document, changes)
  /\ revision' = revision + 1
  /\ report' = NoReport

Analyze ==
  /\ report' = [revision |-> revision, findings |-> BatchAnalysis(document)]
  /\ UNCHANGED <<document, revision>>

Next ==
  \/ \E changes \in Patches : Patch(revision, changes)
  \/ Analyze

Spec == Init /\ [][Next]_analysisVars
=============================================================================
