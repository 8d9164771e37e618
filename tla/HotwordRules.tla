---------------------------- MODULE HotwordRules ----------------------------
(* Words near an entity that raise or lower its score and may change its   *)
(* label (hotwords.rs).  Distances are UTF-16 units and offsets bytes: the *)
(* words that may matter are asked for from an index, by the window of     *)
(* bytes that the distances of a rule are turned into.                     *)
(*                                                                         *)
(* A character is its length in bytes.  Scores are whole numbers of parts, *)
(* where the code rounds to f64; Unit is the score 1.0, and a multiple of  *)
(* every distance of a rule.                                               *)
EXTENDS Integers, Sequences, FiniteSets, SequencesExt, FiniteSetsExt

CONSTANTS
  Texts,          \* sequences of characters
  Rules,          \* a sequence of [labels, adjustment, relabel, before, after]
  EntityLabels, AllowedLabels,
  Same,           \* a rule that does not relabel
  Unit, Scores,
  MaxHits

VARIABLES
  words,          \* the text
  spotted,        \* what the search finds: spans whose value is the rule
  judged          \* <<>>, the entity before, or the entity before and what is left of it

hotwordVars == <<words, spotted, judged>>

Init == words = <<>> /\ spotted = <<>> /\ judged = <<>>

-----------------------------------------------------------------------------
(* The immutable index over spans of text that the filter by confidence,   *)
(* the hotword rules and the resolution query (span_index.rs): spans in    *)
(* order of their start, and over them a binary tree in an array whose     *)
(* node i has children 2i and 2i+1 and holds the greatest end below it.    *)
Span(start, end, value) == [start |-> start, end |-> end, value |-> value]

RECURSIVE PowerOfTwo(_, _)
PowerOfTwo(n, p) == IF p >= n THEN p ELSE PowerOfTwo(n, 2 * p)

ByStart(spans) ==
  SortSeq([i \in DOMAIN spans |-> <<spans[i], i>>],
          LAMBDA p, q : p[1].start < q[1].start \/ (p[1].start = q[1].start /\ p[2] < q[2]))

LeafEnd(spans, leaf) == IF leaf < Len(spans) THEN spans[leaf + 1].end ELSE 0

(* Slip: a node knows the end below its left child only.                   *)
LeftmostEnds(spans, leaves) ==
  LET tree[i \in 1..(2 * leaves - 1)] ==
        IF i >= leaves THEN LeafEnd(spans, i - leaves) ELSE tree[2 * i]
  IN tree

GreatestEnds(spans, leaves) ==
  LET tree[i \in 1..(2 * leaves - 1)] ==
        IF i >= leaves THEN LeafEnd(spans, i - leaves)
        ELSE IF tree[2 * i] > tree[2 * i + 1] THEN tree[2 * i] ELSE tree[2 * i + 1]
  IN tree

Indexed(list) ==
  LET spans == [i \in DOMAIN list |-> ByStart(list)[i][1]]
      leaves == PowerOfTwo(Len(list), 1)
  IN [spans |-> spans, leaves |-> leaves, tree |-> GreatestEnds(spans, leaves)]

(* partition_point, for a bound on the starts                              *)
StartingBefore(index, offset) == Cardinality({i \in DOMAIN index.spans : index.spans[i].start < offset})

(* range_max_end: both bounds climb from the leaves of [first, last) to    *)
(* the root and take the nodes that hang inwards.                          *)
RECURSIVE Climb(_, _, _, _)
Climb(index, left, right, found) ==
  IF left >= right THEN found
  ELSE LET takesLeft == left % 2 = 1
           takesRight == right % 2 = 1
           inward == (IF takesLeft THEN {left} ELSE {}) \cup (IF takesRight THEN {right - 1} ELSE {})
       IN Climb(index, (IF takesLeft THEN left + 1 ELSE left) \div 2,
                (IF takesRight THEN right - 1 ELSE right) \div 2,
                Max({found} \cup {index.tree[i] : i \in inward}))

GreatestEnd(index, first, last) == Climb(index, index.leaves + first, index.leaves + last, 0)

AnyOverlapping(index, start, end) ==
  start < end /\ GreatestEnd(index, 0, StartingBefore(index, end)) > start

AnyStartingIn(index, start, end, minimum) ==
  start < end /\ GreatestEnd(index, StartingBefore(index, start),
                             StartingBefore(index, end)) > minimum

(* visit_tree: the spans below a node that covers the leaves [left, right) *)
RECURSIVE Visit(_, _, _, _, _, _)
Visit(index, node, left, right, candidates, start) ==
  IF left >= candidates \/ index.tree[node] < start THEN <<>>
  ELSE IF right - left = 1
       THEN IF left < Len(index.spans) THEN <<index.spans[left + 1]>> ELSE <<>>
  ELSE LET middle == (left + right) \div 2
       IN Visit(index, 2 * node, left, middle, candidates, start)
            \o Visit(index, 2 * node + 1, middle, right, candidates, start)

(* Slip: a span that begins where the query ends is left out.              *)
IntersectingOpen(index, start, end) ==
  IF start > end \/ index.spans = <<>> THEN <<>>
  ELSE Visit(index, 1, 0, index.leaves, StartingBefore(index, end), start)

(* try_for_each_intersecting, of closed ranges                             *)
Intersecting(index, start, end) ==
  IF start > end \/ index.spans = <<>> THEN <<>>
  ELSE Visit(index, 1, 0, index.leaves, StartingBefore(index, end + 1), start)

-----------------------------------------------------------------------------
(* Each query answers as a scan of all spans does, whatever their order    *)
(* was.                                                                    *)
AnswersLikeScans(list, offsets) ==
  LET index == Indexed(list)
      all == {list[i] : i \in DOMAIN list}
      sorted == [i \in DOMAIN list |-> ByStart(list)[i][1]]
  IN \A start, end \in offsets :
       /\ AnyOverlapping(index, start, end) <=>
            start < end /\ \E s \in all : s.start < end /\ s.end > start
       /\ AnyStartingIn(index, start, end, start) <=>
            start < end /\ \E s \in all : s.start >= start /\ s.start < end /\ s.end > start
       /\ start <= end => Intersecting(index, start, end) =
            SelectSeq(sorted, LAMBDA s : s.start <= end /\ s.end >= start)

-----------------------------------------------------------------------------
(* Utf16OffsetMap: a boundary is the number of characters before it.       *)
Units(bytes) == IF bytes = 4 THEN 2 ELSE 1

SumUpTo(lengths, n) ==
  LET sum[i \in 0..n] == IF i = 0 THEN 0 ELSE sum[i - 1] + lengths[i]
  IN sum[n]

BytesAt(text, n) == SumUpTo(text, n)
UnitsAt(text, n) == SumUpTo([i \in DOMAIN text |-> Units(text[i])], n)
Boundary(text, offset) == CHOOSE n \in 0..Len(text) : BytesAt(text, n) = offset

Distance(text, start, end) == UnitsAt(text, Boundary(text, end)) - UnitsAt(text, Boundary(text, start))

(* Slip: as many bytes as there are units                                  *)
OffsetBeforeBytes(text, offset, units) ==
  BytesAt(text, Min({n \in 0..Len(text) : BytesAt(text, n) >= offset - units}))

(* offset_before_units: the first boundary that is near enough             *)
OffsetBefore(text, offset, units) ==
  BytesAt(text, Min({n \in 0..Len(text) :
                       UnitsAt(text, n) >= UnitsAt(text, Boundary(text, offset)) - units}))

(* offset_after_units: the last one                                        *)
OffsetAfter(text, offset, units) ==
  BytesAt(text, Max({n \in 0..Len(text) :
                       UnitsAt(text, n) <= UnitsAt(text, Boundary(text, offset)) + units}))

-----------------------------------------------------------------------------
(* hotword_distance: <<the distance, the greatest that counts>>            *)
Reach(text, entity, hit, rule) ==
  IF hit.end <= entity.start THEN <<Distance(text, hit.end, entity.start), rule.before>>
  ELSE IF hit.start >= entity.end THEN <<Distance(text, entity.end, hit.start), rule.after>>
  ELSE <<0, Max({rule.before, rule.after})>>

Magnitude(n) == IF n < 0 THEN -n ELSE n

(* The adjustment fades with the distance; it is none where the word is    *)
(* too far.                                                                *)
Adjustment(text, entity, hit, rule) ==
  LET reach == Reach(text, entity, hit, rule)
  IN IF reach[1] > reach[2] THEN 0
     ELSE IF reach[2] = 0 THEN rule.adjustment
     ELSE (rule.adjustment * (reach[2] - reach[1])) \div reach[2]

Nothing == [score |-> 0, relabel |-> Same]

(* Slip: of two that weigh the same, the later one                         *)
LastHeavier(best, adjustment, rule) ==
  IF adjustment = 0 \/ Magnitude(adjustment) < Magnitude(best.score) THEN best
  ELSE [score |-> adjustment, relabel |-> IF adjustment > 0 THEN rule.relabel ELSE Same]

Heavier(best, adjustment, rule) ==
  IF Magnitude(adjustment) <= Magnitude(best.score) THEN best
  ELSE [score |-> adjustment, relabel |-> IF adjustment > 0 THEN rule.relabel ELSE Same]

HitsOf(r) == SelectSeq(spotted, LAMBDA hit : hit.value = r)

(* apply_entity_rules: the rules for the label, in order, and of each the  *)
(* words that its index reports for the window                             *)
InWindow(entity, r) ==
  Intersecting(Indexed(HitsOf(r)),
               OffsetBefore(words, entity.start, Rules[r].before),
               OffsetAfter(words, entity.end, Rules[r].after))

BestInWindows(entity) ==
  FoldLeft(LAMBDA best, hit :
             Heavier(best, Adjustment(words, entity, hit, Rules[hit.value]), Rules[hit.value]),
           Nothing,
           FlattenSeq([r \in DOMAIN Rules |->
             IF entity.label \in Rules[r].labels THEN InWindow(entity, r) ELSE <<>>]))

Adjusted(entity, best) ==
  [entity EXCEPT !.score = Max({0, Min({Unit, @ + best.score})}),
                 !.label = IF best.relabel = Same THEN @ ELSE best.relabel]

(* Slip: the filter looks at the label from before the rules.              *)
FilteredEarly(entity) ==
  IF entity.own THEN <<entity>>
  ELSE SelectSeq(<<Adjusted(entity, BestInWindows(entity))>>, LAMBDA e : entity.label \in AllowedLabels)

(* apply_hotword_rules, for one entity: the patterns of the caller stay as *)
(* they are, and a new label must be one that is asked for.                *)
Applied(entity) ==
  IF entity.own THEN <<entity>>
  ELSE SelectSeq(<<Adjusted(entity, BestInWindows(entity))>>, LAMBDA e : e.label \in AllowedLabels)

-----------------------------------------------------------------------------
Read(text) ==
  /\ words = <<>>
  /\ words' = text
  /\ UNCHANGED <<spotted, judged>>

(* collect_hits_by_rule: the search reports by pattern, in any order.      *)
Spot(i, j, r) ==
  /\ words # <<>> /\ judged = <<>> /\ Len(spotted) < MaxHits
  /\ spotted' = Append(spotted, Span(BytesAt(words, i), BytesAt(words, j), r))
  /\ UNCHANGED <<words, judged>>

Judge(entity) ==
  /\ words # <<>> /\ judged = <<>>
  /\ judged' = <<entity, Applied(entity)>>
  /\ UNCHANGED <<words, spotted>>

Entities ==
  {[start |-> BytesAt(words, i), end |-> BytesAt(words, j), label |-> l, score |-> s, own |-> o] :
     i, j \in 0..Len(words), l \in EntityLabels, s \in Scores, o \in BOOLEAN}

Next ==
  \/ \E text \in Texts : Read(text)
  \/ \E i, j \in 0..Len(words), r \in DOMAIN Rules : i < j /\ Spot(i, j, r)
  \/ \E entity \in Entities : entity.start < entity.end /\ Judge(entity)

Spec == Init /\ [][Next]_hotwordVars

-----------------------------------------------------------------------------
(* What a scan of every word, with the distances alone, would choose: the  *)
(* heaviest adjustment, and of equally heavy ones that of the first rule   *)
(* (hotwords.rs:163-226).                                                  *)
BestOfAll(entity) ==
  LET weights == {w \in {[score |-> Adjustment(words, entity, spotted[i], Rules[spotted[i].value]),
                          rule |-> spotted[i].value] : i \in DOMAIN spotted} :
                    w.score # 0 /\ entity.label \in Rules[w.rule].labels}
      heaviest == {w \in weights : \A v \in weights : Magnitude(v.score) <= Magnitude(w.score)}
      first == CHOOSE w \in heaviest : \A v \in heaviest : w.rule <= v.rule
  IN IF weights = {} THEN Nothing
     ELSE [score |-> first.score, relabel |-> IF first.score > 0 THEN Rules[first.rule].relabel ELSE Same]

(* The window of bytes leaves out no word that is near enough in units,    *)
(* whatever characters lie between, and its words change the entity as a   *)
(* scan of all words does; what is left has a label that is asked for,     *)
(* unless it is the caller's own (hotwords.rs:92-116).                     *)
HotwordsMatchScan ==
  judged # <<>> =>
    LET entity == judged[1]
        scanned == Adjusted(entity, BestOfAll(entity))
    IN judged[2] = IF entity.own THEN <<entity>>
                   ELSE IF scanned.label \in AllowedLabels THEN <<scanned>> ELSE <<>>

(* The index answers as a scan does (span_index.rs:34-188).                *)
IndexAnswersLikeScans ==
  judged = <<>> =>
    AnswersLikeScans(spotted, 0..(BytesAt(words, Len(words)) + 1))

HotwordsAreFound == HotwordsMatchScan /\ IndexAnswersLikeScans
=============================================================================
