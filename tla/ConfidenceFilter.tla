-------------------------- MODULE ConfidenceFilter --------------------------
(* Which detections of a document the policy keeps: the labels it asks for *)
(* and a confidence threshold, which near misses may reach thanks to       *)
(* confident neighbours (entity_filter.rs).  A position is a character     *)
(* boundary of the text; the window between neighbours is measured in      *)
(* UTF-16 code units.  Scores are whole multiples of the boost of one      *)
(* neighbour, so that sums are exact.  Entities of an address context are  *)
(* made after the first filter and exempt from the second: they are not    *)
(* among the detections here.                                              *)
EXTENDS Integers, Sequences, FiniteSets, FiniteSetsExt

CONSTANTS Widths,       \* the UTF-16 units of each character of the text
          Reported,   \* detections: [start, end, label, score, exact]
          Policies,     \* [threshold, boost, labels]; no labels: every label
          NoPolicy,     \* no document is being filtered yet
          MaxCandidates

CONSTANTS Band, Window, Floor, Top    \* the constants of entity_filter.rs:5

VARIABLES policy,       \* the policy of the engine
          found,        \* the detections of the document
          retained      \* those that go on to be merged

vars == <<policy, found, retained>>

Init == policy = NoPolicy /\ found = {} /\ retained = {}

(* The detectors and the caller report one more detection.                 *)
Find(e) ==
  /\ policy = NoPolicy
  /\ Cardinality(found) < MaxCandidates
  /\ found' = found \cup {e}
  /\ UNCHANGED <<policy, retained>>

Allowed(p, e) == p.labels = {} \/ e.label \in p.labels
OfLabels(p, es) == {e \in es : Allowed(p, e)}

(* An exact gazetteer entry or a custom deny-list entry: the caller asked  *)
(* for it, whatever its score.                                             *)
NamedExactly(e) == e.exact

Sure(p, e) == e.score >= p.threshold \/ NamedExactly(e)
AboveThreshold(p, es) == {e \in es : Sure(p, e)}

(* Twice the midpoint, in UTF-16 units, of a span of characters.           *)
Utf16(i) == MapThenSumSet(LAMBDA c : Widths[c], 1..i)
Midpoint(e) == Utf16(e.start) + Utf16(e.end)
Distance(d, e) ==
  IF Midpoint(d) <= Midpoint(e) THEN Midpoint(e) - Midpoint(d) ELSE Midpoint(d) - Midpoint(e)

Anchors(es) == {e \in es : e.score >= Floor}
Neighbours(es, e) == {a \in Anchors(es) : Distance(a, e) <= 2 * Window}

NearMissFloor(p) == IF p.threshold > Band THEN p.threshold - Band ELSE 0
BoostedScore(es, e) == e.score + Cardinality(Neighbours(es, e))

(* Slip: a near miss keeps its score.                                      *)
Unlifted(es, e) == e

(* A near miss goes on with the score it reached.                          *)
Lifted(es, e) ==
  [e EXCEPT !.score = IF BoostedScore(es, e) < Top THEN BoostedScore(es, e) ELSE Top]

(* Slip: with the boost, a value the caller named needs confidence too.    *)
BoostedUnnamed(p, es) ==
  {e \in es : e.score >= p.threshold} \cup
  {Lifted(es, e) : e \in {d \in es : d.score >= NearMissFloor(p) /\ BoostedScore(es, d) >= p.threshold}}

Boosted(p, es) ==
  LET near == {e \in es \ AboveThreshold(p, es) :
                 e.score >= NearMissFloor(p) /\ BoostedScore(es, e) >= p.threshold}
  IN AboveThreshold(p, es) \cup {Lifted(es, e) : e \in near}

(* Slip: labels last.                                                      *)
RetainLabelsLast(p, es) ==
  OfLabels(p, IF p.boost THEN Boosted(p, es) ELSE AboveThreshold(p, es))

(* filter_entities_for_redaction: labels first.                            *)
Retain(p, es) ==
  LET asked == OfLabels(p, es)
  IN IF p.boost THEN Boosted(p, asked) ELSE AboveThreshold(p, asked)

Filter(p) ==
  /\ policy = NoPolicy
  /\ policy' = p
  /\ retained' = Retain(p, found)
  /\ UNCHANGED found

(* filter_entities_for_config, which runs on what merging, boundaries and  *)
(* sanitizing leave of the retained entities.                              *)
RetainAgain(p, es) == AboveThreshold(p, OfLabels(p, es))

Next ==
  \/ \E e \in Reported \ found : Find(e)
  \/ \E p \in Policies : Filter(p)

-----------------------------------------------------------------------------
Place(e) == [start |-> e.start, end |-> e.end, label |-> e.label]
Places(es) == {Place(e) : e \in es}
Filtered == policy # NoPolicy

(* Turning the boost on never loses a redaction: what the threshold alone  *)
(* keeps is kept, and so is what the caller named exactly.                 *)
BoostOnlyAdds ==
  Filtered => Places(AboveThreshold(policy, OfLabels(policy, found))) \subseteq Places(retained)

(* A detection whose label was not asked for has no part in the decision   *)
(* about another one (entity_filter.rs, excluded labels do not anchor).    *)
ExcludedLabelsHaveNoSay ==
  Filtered => retained = Retain(policy, OfLabels(policy, found))

(* What a neighbour saved is not lost to the same threshold when it is     *)
(* applied again at the end of the resolution.                             *)
SecondFilterKeeps == Filtered => RetainAgain(policy, retained) = retained

(* The three together.                                                     *)
ConfidenceIsSound == BoostOnlyAdds /\ ExcludedLabelsHaveNoSay /\ SecondFilterKeeps
=============================================================================
