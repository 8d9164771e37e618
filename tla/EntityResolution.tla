-------------------------- MODULE EntityResolution --------------------------
(***************************************************************************)
(* From detections to what is redacted: detections of a text arrive one    *)
(* after the other, and every list of them is merged, bounded, sanitized   *)
(* and selected for rendering (prepared/resolution_phase.rs, redact.rs).   *)
(*                                                                         *)
(* Detections come in the order of their starts.  The code sorts them so   *)
(* first and stably, so that every order of equal starts is among these.   *)
(*                                                                         *)
(* The boundary pass over merged entities (resolution/boundary.rs): edges  *)
(* move out of words, persons stop at signature stamps, crossing entities  *)
(* of different labels are separated, neighbours of one label joined.  The *)
(* code answers its interval queries from search trees; here they are the  *)
(* questions those trees answer.                                           *)
(*                                                                         *)
(* A stamp is one character, #, which is a word of its own script.         *)
(***************************************************************************)
EXTENDS EntityMerge

-----------------------------------------------------------------------------
Locked(e) == CallerOwned(e)
DetectorLocked(e) == e.label = "phone number" /\ e.source = "Trigger"

WithSpan(e, text, start, end) ==
  [e EXCEPT !.start = start, !.end = end, !.text = Slice(text, start, end)]

(* Lists sorted stably by an order Before.                                 *)
SortedBy(list, Before(_, _)) ==
  FoldLeft(LAMBDA sorted, e :
             InsertAt(sorted,
               Cardinality({i \in DOMAIN sorted : ~Before(e, sorted[i])}) + 1, e),
           <<>>, list)

LabelRank(label) ==
  CHOOSE k \in 1..6 :
    <<"address", "country", "date", "organization", "person", "phone number">>[k] = label

-----------------------------------------------------------------------------
(* An edge inside a word grows to the word's, as far as the nearest edge   *)
(* of another label as the detectors put it.                               *)
FixedEdges(e, list, text) ==
  LET others == {f \in ToSet(list) : f.label # e.label}
      wordStart == WordStartAt(text, e.start)
      wordEnd == WordEndAt(text, e.end)
      start == Max({wordStart} \cup
                   {f.end : f \in {g \in others : g.end > wordStart /\ g.end <= e.start}})
      end == Min({wordEnd} \cup
                 {f.start : f \in {g \in others : g.start >= e.end /\ g.start < wordEnd}})
  IN IF Locked(e) \/ DetectorLocked(e) \/ e.text # Slice(text, e.start, e.end) THEN e
     ELSE WithSpan(e, text, start, end)

FixPartialWords(list, text) ==
  LET sorted == ByStart(list)
  IN [i \in DOMAIN sorted |-> FixedEdges(sorted[i], sorted, text)]

-----------------------------------------------------------------------------
(* A stamp counts where no letter or digit follows it.                     *)
StampAt(text, position) ==
  /\ position < Len(text) /\ text[position + 1] = "#"
  /\ position + 1 = Len(text) \/ text[position + 2] \notin Alphanumeric

TokenStart(text, position) == text[position] \notin Alphanumeric

StampsWithin(e, text) ==
  {p \in (e.start + 1)..(e.end - 1) : TokenStart(text, p) /\ StampAt(text, p)}

(* An entity, or nothing when no name is left of it.                       *)
Truncated(e, text) ==
  LET afterStamp == SubSeq(text, e.start + 2, Len(text))
      nameStart == e.start + 1 + LeadingRun(afterStamp, {" ", "-"})
      cut == Min(StampsWithin(e, text))
      nameEnd == cut - TrailingRun(Slice(text, e.start, cut), {" "})
  IN IF e.label # "person" \/ Locked(e) THEN <<e>>
     ELSE IF StampAt(text, e.start)
     THEN IF nameStart >= e.end THEN <<>> ELSE <<WithSpan(e, text, nameStart, e.end)>>
     ELSE IF StampsWithin(e, text) = {} THEN <<e>>
     ELSE IF nameEnd <= e.start THEN <<>> ELSE <<WithSpan(e, text, e.start, nameEnd)>>

TruncatePersons(list, text) ==
  FlattenSeq([i \in DOMAIN list |-> Truncated(list[i], text)])

-----------------------------------------------------------------------------
(* Crossing entities of different labels.  The pass works on a list and    *)
(* fails when it asks for a slice whose bounds are out of order.           *)

(* A slip: overlapping far enough is crossing.                             *)
FirstCrossingStart(list, left, from) ==
  LET l == list[left]
      crossing == {i \in from..Len(list) :
                     /\ list[i].label # l.label
                     /\ list[i].start > l.start /\ list[i].start < l.end}
  IN IF crossing = {} THEN 0 ELSE Min(crossing)

(* A slip: one character of overlap is none.                               *)
FirstCrossingFar(list, left, from) ==
  LET l == list[left]
      crossing == {i \in from..Len(list) :
                     /\ list[i].label # l.label
                     /\ list[i].start > l.start /\ list[i].end > l.end
                     /\ list[i].start + 1 < l.end}
  IN IF crossing = {} THEN 0 ELSE Min(crossing)

FirstCrossing(list, left, from) ==
  LET l == list[left]
      barrier == Min({Len(list) + 1} \cup {i \in from..Len(list) : list[i].start >= l.end})
      crossing == {i \in from..(barrier - 1) :
                     /\ list[i].label # l.label
                     /\ \/ list[i].start > l.start /\ list[i].end > l.end
                        \/ list[i].start < l.start /\ list[i].end < l.end}
  IN IF crossing = {} THEN 0 ELSE Min(crossing)

(* A slip: the lock does not count.                                        *)
LeftWinsByScore(l, r) ==
  l.score > r.score \/ (l.score = r.score /\ Length(l) >= Length(r))

LeftWins(l, r) ==
  IF Locked(l) # Locked(r) THEN Locked(l)
  ELSE l.score > r.score \/ (l.score = r.score /\ Length(l) >= Length(r))

Resized(state, text, i, start, end) ==
  IF CanSlice(text, start, end)
  THEN [state EXCEPT !.list[i] = WithSpan(@, text, start, end)]
  ELSE [state EXCEPT !.ok = FALSE]

RECURSIVE SeparateFrom(_, _, _, _)
SeparateFrom(state, text, left, from) ==
  LET right == FirstCrossing(state.list, left, from)
      l == state.list[left]
      r == state.list[right]
  IN IF ~state.ok \/ right = 0 THEN state
     ELSE IF LeftWins(l, r)
     THEN SeparateFrom(Resized(state, text, right, l.end, r.end), text, left, right + 1)
     ELSE Resized(state, text, left, l.start, r.start)

(* A slip: what is left of one character is dropped as well.               *)
SeparateLabelsOverOne(list, text) ==
  LET sorted == ByStart(list)
      final == FoldLeftDomain(LAMBDA state, left : SeparateFrom(state, text, left, left + 1),
                              [ok |-> TRUE, list |-> sorted], sorted)
  IN [final EXCEPT !.list = SelectSeq(@, LAMBDA e : e.start + 1 < e.end)]

SeparateLabels(list, text) ==
  LET sorted == ByStart(list)
      final == FoldLeftDomain(LAMBDA state, left : SeparateFrom(state, text, left, left + 1),
                              [ok |-> TRUE, list |-> sorted], sorted)
  IN [final EXCEPT !.list = SelectSeq(@, LAMBDA e : e.start < e.end)]
-----------------------------------------------------------------------------
(* Neighbours of one label.                                                *)

DeduplicateSpans(list) ==
  LET Key(e) == <<e.start, e.end, LabelRank(e.label), 0 - e.score>>
      Before(a, b) == LET differ == {k \in 1..4 : Key(a)[k] # Key(b)[k]}
                      IN differ # {} /\ Key(a)[Min(differ)] < Key(b)[Min(differ)]
      sorted == SortedBy(list, Before)
      repeats(i) == i > 1 /\ SameSpan(sorted[i - 1], sorted[i])
                          /\ sorted[i - 1].label = sorted[i].label
  IN FlattenSeq([i \in DOMAIN sorted |-> IF repeats(i) THEN <<>> ELSE <<sorted[i]>>])

MergeableGap(gap) == Len(gap) <= 3 /\ ToSet(gap) \subseteq {" ", ",", "-"}

LegalFormOrganization(e) == e.label = "organization" /\ e.source = "LegalForm"

(* The gap between previous and e may become part of both.                 *)
GapFree(list, e, previous, text) ==
  LET gap == Slice(text, previous.end, e.start)
  IN /\ ~((LegalFormOrganization(previous) \/ LegalFormOrganization(e))
          /\ "," \in ToSet(gap))
     /\ e.label # "country"
     /\ MergeableGap(gap)
     /\ \A f \in ToSet(list) :
          f.label # e.label => ~(f.start < e.start /\ f.end > previous.end)

(* The next entity joins the latest unlocked one of its label.             *)
JoinNext(result, list, e, text) ==
  LET candidates == {i \in DOMAIN result : result[i].label = e.label /\ ~Locked(result[i])}
      at == Max(candidates)
      previous == result[at]
      end == Max({previous.end, e.end})
      joined == [WithSpan(previous, text, previous.start, end)
                   EXCEPT !.score = Max({previous.score, e.score})]
  IN IF /\ ~Locked(e) /\ candidates # {}
        /\ e.start < previous.end \/ GapFree(list, e, previous, text)
     THEN ReplaceAt(result, at, joined) ELSE Append(result, e)

MergeAdjacent(list, text) ==
  LET sorted == ByStart(list)
  IN FoldLeft(LAMBDA result, e : JoinNext(result, sorted, e, text), <<>>, sorted)

RemoveNestedSameLabel(list) ==
  LET Before(a, b) == a.start < b.start \/ (a.start = b.start /\ Length(a) > Length(b))
      Ends(kept, e) == {f.end : f \in {g \in ToSet(kept) : g.label = e.label}}
  IN FoldLeft(LAMBDA kept, e :
                IF \E end \in Ends(kept, e) : e.end <= end THEN kept ELSE Append(kept, e),
              <<>>, SortedBy(list, Before))

(* A slip: stamps are cut off before words grow.                           *)
EnforceBoundariesTruncatingFirst(list, text) ==
  LET separated == SeparateLabels(FixPartialWords(TruncatePersons(list, text), text), text)
  IN [separated EXCEPT
        !.list = RemoveNestedSameLabel(MergeAdjacent(DeduplicateSpans(@), text))]

EnforceBoundaries(list, text) ==
  LET separated == SeparateLabels(TruncatePersons(FixPartialWords(list, text), text), text)
  IN [separated EXCEPT
        !.list = RemoveNestedSameLabel(MergeAdjacent(DeduplicateSpans(@), text))]

-----------------------------------------------------------------------------
CONSTANT Corpora     \* by name: texts, what is detected in them, how often

VARIABLES
  corpus,           \* the name of the case
  text,             \* the document
  detections,       \* in the order of their starts
  phase,            \* "detecting", then "resolved"
  merged,           \* the entities merged and sanitized,
  bounded,          \* after the boundary pass, as [ok, list],
  resolved          \* sanitized once more

vars == <<corpus, text, detections, phase, merged, bounded, resolved>>

(* A detection of a kind, which says everything but the span.              *)
Detected(kind, start, end) ==
  [start |-> start, end |-> end, label |-> kind.label, source |-> kind.source,
   detail |-> kind.detail, score |-> kind.score, text |-> Slice(text, start, end)]

Init ==
  /\ corpus = CHOOSE c \in DOMAIN Corpora : TRUE
  /\ text = <<>>
  /\ detections = <<>>
  /\ phase = "detecting"
  /\ merged = <<>>
  /\ bounded = [ok |-> TRUE, list |-> <<>>]
  /\ resolved = <<>>

(* A document is given.                                                    *)
Open ==
  /\ text = <<>>
  /\ \E c \in DOMAIN Corpora :
       /\ corpus' = c
       /\ text' \in Corpora[c].texts
  /\ UNCHANGED <<detections, phase, merged, bounded, resolved>>

Detect ==
  /\ phase = "detecting"
  /\ Len(detections) < Corpora[corpus].detections
  /\ \E kind \in Corpora[corpus].kinds, start \in 0..(Len(text) - 1) :
       \E end \in (start + 1)..Len(text) :
         LET e == Detected(kind, start, end)
         IN /\ detections # <<>> => Last(detections).start <= start
            /\ Corpora[corpus].overlapping \/ \A d \in ToSet(detections) : SameSpan(d, e) \/ ~Overlaps(d, e)
            /\ detections' = Append(detections, e)
  /\ UNCHANGED <<corpus, text, phase, merged, bounded, resolved>>

(* The passes over what was detected, one after the other.                 *)
Resolve ==
  /\ phase = "detecting" /\ detections # <<>>
  /\ phase' = "resolved"
  /\ merged' = MergeWithDocument(detections, text)
  /\ bounded' = EnforceBoundaries(merged', text)
  /\ resolved' = SanitizeAll(bounded'.list, text)
  /\ UNCHANGED <<corpus, text, detections>>

Next == Open \/ Detect \/ Resolve

Spec == Init /\ [][Next]_vars

-----------------------------------------------------------------------------
(* Of overlapping entities the first is redacted.                          *)
NonOverlapping(list) ==
  FoldLeft(LAMBDA kept, e :
             IF kept = <<>> \/ e.start >= Last(kept).end THEN Append(kept, e) ELSE kept,
           <<>>, ByStart(list))

Redacted == NonOverlapping(resolved)

CoveredBy(list) == UNION {(e.start + 1)..e.end : e \in ToSet(list)}

LettersIn(positions) == {i \in positions : text[i] \in Alphanumeric}

-----------------------------------------------------------------------------
(* No edge of a lone detection is left inside a word or a cluster.         *)
EdgesCutNoWord ==
  \A e \in ToSet(FixPartialWords(detections, text)) :
    (Len(detections) = 1 /\ ~Locked(e)) =>
      /\ e.start > 0 => ~CutsWord(text, e.start)
      /\ e.end < Len(text) => ~CutsWord(text, e.end)

(* Sanitizing takes no letter or digit from an entity.                     *)
SanitizingKeepsLetters ==
  LettersIn(CoveredBy(SanitizeAll(detections, text))) = LettersIn(CoveredBy(detections))

(* Merging with slots that retire is merging by full comparison.           *)
FrontierMergesAll == MergeFrontier(detections) = LegacyMerge(detections)

(* What merging chose, it chooses again; nothing it chose overlaps in part.*)
Settled(list) ==
  /\ MergeAndDedup(list) = list
  /\ \A i, j \in DOMAIN list :
       i < j => /\ list[i].start <= list[j].start
                /\ SameSpan(list[i], list[j]) \/ ~Overlaps(list[i], list[j])

MergingSettles == Settled(MergeAndDedup(detections))

(* The boundary pass never asks for a slice that does not exist.           *)
BoundaryPassSucceeds == bounded.ok

(* Once separated, entities of two labels lie apart or one in the other.   *)
NoneCross(list) ==
  \A d, e \in ToSet(list) :
    (d.label # e.label /\ Overlaps(d, e)) => Encloses(d, e) \/ Encloses(e, d)

SeparatedLabelsNeverCross ==
  NoneCross(SeparateLabels(FixPartialWords(merged, text), text).list)

OwnedSpanCrossed ==
  \E d, e \in ToSet(bounded.list) :
    /\ Locked(e) /\ d.label = e.label /\ Overlaps(d, e)
    /\ ~Encloses(d, e) /\ ~Encloses(e, d)

(* Every letter of a merged entity is redacted, stamps aside, where no     *)
(* owned span is crossed.                                                  *)
MergedLettersAreRedacted ==
  ("#" \notin ToSet(text) /\ ~OwnedSpanCrossed) =>
    LettersIn(CoveredBy(merged)) \subseteq CoveredBy(Redacted)

(* What the caller owns keeps its span, or lies in one of its label.       *)
OwnedSpansStay ==
  \A e \in ToSet(merged) :
    CallerOwned(e) =>
      \E f \in ToSet(bounded.list) : f.label = e.label /\ Encloses(f, e)

(* In a text with one stamp no person begins with it or runs across it.    *)
StampsEndPersons ==
  \A e \in ToSet(bounded.list) :
    (/\ e.label = "person" /\ ~Locked(e)
     /\ Cardinality({p \in 1..Len(text) : text[p] = "#"}) <= 1) =>
      ~StampAt(text, e.start) /\ StampsWithin(e, text) = {}

(* A span that merging chose keeps a label, unless its highest source says *)
(* address and a lower one something precise.                              *)
KeepALabel(chosen) ==
  LET At(e) == {f \in ToSet(chosen) : SameSpan(e, f)}
      Highest(e) == Max({Priority(f.source) : f \in At(e)})
      Vanishes(e) ==
        /\ \A f \in At(e) : Priority(f.source) = Highest(e) => f.label = "address"
        /\ \E f \in At(e) : f.label \in PreciseOverAddress
  IN \A e \in ToSet(chosen) :
       Vanishes(e) \/ \E f \in ToSet(ResolveLabels(chosen)) : SameSpan(e, f)

SpansKeepALabel ==
  KeepALabel(SanitizeAll(RetainSanitizable(MergeFrontier(detections)), text))

(* Merging is complete and final, and takes no span away whole.  This and  *)
(* the next two are asked once for every list, when it has been resolved.  *)
MergingIsSound ==
  phase = "resolved" => FrontierMergesAll /\ MergingSettles /\ SpansKeepALabel

(* What enforce_boundary_consistency is named for: it comes to its end,    *)
(* and no edge cuts a word, a stamp or a span of another label.            *)
BoundariesAreConsistent ==
  phase = "resolved" =>
    /\ BoundaryPassSucceeds
    /\ EdgesCutNoWord /\ StampsEndPersons /\ SeparatedLabelsNeverCross

(* From merging to what is redacted no letter that was found comes back    *)
(* into the clear, and what the caller owns keeps its place.               *)
FoundLettersStayHidden ==
  phase = "resolved" =>
    SanitizingKeepsLetters /\ MergedLettersAreRedacted /\ OwnedSpansStay

(* What the caller owns is redacted.                                       *)
OwnedLettersAreRedacted ==
  \A e \in ToSet(merged) :
    CallerOwned(e) => LettersIn(CoveredBy(<<e>>)) \subseteq CoveredBy(Redacted)
=============================================================================
