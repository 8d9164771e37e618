---------------------------- MODULE EntityMerge ----------------------------
(***************************************************************************)
(* How overlapping detections are merged into the entities of a document   *)
(* (resolution/merge.rs, resolution/sanitize.rs).  An entity is a record   *)
(*   start, end, label, source, detail, score, text                        *)
(* whose text is what the detector displays of its span.                   *)
(*                                                                         *)
(* What the resolution passes read of a document: the class of each        *)
(* character, one offset per character.                                    *)
(*   a  a letter of a script with spaces    u  one of a script without     *)
(*   7  a digit                             ~  a combining mark            *)
(*   '  a word connector                    #  a signature stamp           *)
(*   .  ,  -  and the space, which no word contains                        *)
(* A span is [start, end) with start < end and 0 for the first offset.     *)
(***************************************************************************)
EXTENDS Integers, Sequences, FiniteSets, SequencesExt

CONSTANTS
  PostalLengths,    \* how many digits a bare postal code has
  PeriodSuffixes,   \* endings whose period belongs to the name
  AddressAbbreviations  \* the same as last word of an address

-----------------------------------------------------------------------------
Alphanumeric == {"a", "u", "7", "#"}

Slice(text, start, end) == SubSeq(text, start + 1, end)

(* A slice exists when its bounds are in order and inside the text.        *)
CanSlice(text, start, end) == start <= end /\ end <= Len(text)

(* How many characters of t, from its start or its end, belong to chars.   *)
LeadingRun(t, chars) ==
  Max({n \in 0..Len(t) : \A i \in 1..n : t[i] \in chars})
TrailingRun(t, chars) == LeadingRun(Reverse(t), chars)

(* Spaces of a displayed text are single.                                  *)
DisplayText(t) ==
  FoldLeft(LAMBDA shown, c :
             IF c = " " /\ shown # <<>> /\ Last(shown) = " "
             THEN shown ELSE Append(shown, c),
           <<>>, t)

-----------------------------------------------------------------------------
(* Words.  A combining mark belongs to the cluster of the character before *)
(* it; a word is a run of clusters of spaced scripts, across single inner  *)
(* connectors; any other cluster of several characters is a unit alone.    *)

ClusterStart(text, i) == i = 1 \/ text[i] # "~"

ClusterEnd(text, i) ==
  i + LeadingRun(SubSeq(text, i + 1, Len(text)), {"~"})

ClusterClass(text, i) ==
  CASE text[i] \in {"a", "7", "#", "~"} -> "word"
    [] text[i] = "'" /\ ClusterEnd(text, i) = i -> "connector"
    [] OTHER -> "other"

(* A slip of the next definition: a connector ends the word.               *)
NextWordStateSplit(text, state, i) ==
  LET end == ClusterEnd(text, i)
  IN IF ClusterClass(text, i) = "word"
     THEN [state EXCEPT !.word = IF @ = <<>> THEN <<i - 1, end>> ELSE <<@[1], end>>]
     ELSE [units |-> state.units
                     \o (IF state.word = <<>> THEN <<>> ELSE <<state.word>>)
                     \o (IF end > i THEN <<<<i - 1, end>>>> ELSE <<>>),
           word |-> <<>>, pending |-> FALSE]

(* One cluster, the one that starts with character i: it begins or extends *)
(* the open word, waits as a connector, or closes the word.                *)
NextWordState(text, state, i) ==
  LET end == ClusterEnd(text, i)
      class == ClusterClass(text, i)
  IN CASE class = "word" ->
            [state EXCEPT !.word = IF @ = <<>> THEN <<i - 1, end>> ELSE <<@[1], end>>,
                          !.pending = FALSE]
       [] class = "connector" /\ state.word # <<>> /\ ~state.pending ->
            [state EXCEPT !.pending = TRUE]
       [] OTHER ->
            [units |-> state.units
                       \o (IF state.word = <<>> THEN <<>> ELSE <<state.word>>)
                       \o (IF end > i THEN <<<<i - 1, end>>>> ELSE <<>>),
             word |-> <<>>, pending |-> FALSE]

WordUnits(text) ==
  LET final == FoldLeft(LAMBDA state, i :
                          IF ClusterStart(text, i)
                          THEN NextWordState(text, state, i) ELSE state,
                        [units |-> <<>>, word |-> <<>>, pending |-> FALSE],
                        [i \in 1..Len(text) |-> i])
  IN final.units \o (IF final.word = <<>> THEN <<>> ELSE <<final.word>>)

(* The first unit that ends after position decides.                        *)
UnitAround(text, position) ==
  LET units == WordUnits(text)
      after == {k \in DOMAIN units : units[k][2] > position}
      unit == units[Min(after)]
  IN IF after # {} /\ unit[1] < position THEN unit ELSE <<position, position>>

WordStartAt(text, position) == UnitAround(text, position)[1]
WordEndAt(text, position) == UnitAround(text, position)[2]

-----------------------------------------------------------------------------
(* The same, without a scan: whether an edge at position cuts something.   *)

ClusterBefore(text, position) ==
  Max({i \in 1..position : ClusterStart(text, i)})

ClassBefore(text, position) == ClusterClass(text, ClusterBefore(text, position))

CutsCluster(text, position) == text[position + 1] = "~"

(* The connector between two words belongs to both sides.                  *)
Joins(text, position) ==
  LET i == ClusterBefore(text, position)
  IN /\ ClusterClass(text, i) = "connector"
     /\ i > 1 /\ ClassBefore(text, i - 1) = "word"
     /\ i < Len(text) /\ ClusterClass(text, i + 1) = "word"

CutsWord(text, position) ==
  \/ CutsCluster(text, position)
  \/ /\ ClassBefore(text, position) = "word"
     /\ ClusterClass(text, position + 1) = "word"
  \/ Joins(text, position)
  \/ ClassBefore(text, position) = "word" /\ Joins(text, position + 1)

-----------------------------------------------------------------------------
Labels == {"person", "address", "country", "organization", "date", "phone number"}
Sources == {"Caller", "Trigger", "Regex", "DenyList", "LegalForm", "Gazetteer",
            "Country", "Ner", "Coreference"}
Details == {"none", "CustomDenyList", "CustomRegex", "GazetteerExtension"}

(* Label sets of the rules.                                                *)
LongestWins == {"date", "phone number"}
RegexShapes == {"date", "phone number"}
PreciseOverAddress == {"person", "date", "phone number"}
YieldsToPerson == {"address", "country"}

Priority(source) ==
  CASE source = "Gazetteer" -> 5
    [] source = "Trigger" -> 4
    [] source \in {"LegalForm", "Regex", "Country"} -> 3
    [] source \in {"DenyList", "Coreference"} -> 2
    [] source \in {"Caller", "Ner"} -> 1

Length(e) == e.end - e.start

CallerOwned(e) ==
  e.source = "Caller" \/ e.detail \in {"CustomDenyList", "CustomRegex"}

Encloses(outer, inner) == outer.start <= inner.start /\ outer.end >= inner.end
Overlaps(a, b) == a.end > b.start /\ a.start < b.end
SameSpan(a, b) == a.start = b.start /\ a.end = b.end

-----------------------------------------------------------------------------
(* Which of two overlapping detections stays.                              *)

IsBarePostalCode(t) ==
  LET compact == SelectSeq(t, LAMBDA c : c \notin {" ", "-"})
  IN Len(compact) \in PostalLengths /\ \A c \in ToSet(compact) : c = "7"

(* Where a trigger's capture ends without its punctuation.                 *)
ComparableTriggerEnd(e) == e.end - TrailingRun(e.text, {".", ",", " "})

(* A regex that starts inside a trigger's capture covers its value when    *)
(* only padding is left of it.                                             *)
CoversTriggerValue(outer, inner) ==
  /\ outer.end >= ComparableTriggerEnd(inner)
  /\ outer.start > inner.start =>
       /\ outer.end > inner.end
       /\ outer.start - inner.start <= Len(inner.text)
       /\ \A i \in 1..(outer.start - inner.start) : inner.text[i] # "7"

LiteralContains(outer, inner) ==
  /\ outer.label = inner.label
  /\ outer.source \in {"DenyList", "Gazetteer"}
  /\ Encloses(outer, inner)

CuratedOrganizationContains(outer, inner) ==
  /\ outer.source \in {"DenyList", "Gazetteer"}
  /\ outer.label = "organization"
  /\ inner.label \in {"address", "country"}
  /\ ~CallerOwned(inner)
  /\ Encloses(outer, inner)

AddressContainsPostal(outer, inner) ==
  /\ outer.label = "address" /\ inner.label = "address"
  /\ Encloses(outer, inner)
  /\ IsBarePostalCode(inner.text)

LegalFormContains(outer, inner) ==
  /\ outer.label = inner.label
  /\ outer.source = "LegalForm"
  /\ Encloses(outer, inner)

LongerFromSameStart(outer, inner) ==
  /\ outer.label = inner.label
  /\ outer.start = inner.start
  /\ outer.label \in LongestWins

RegexShapeContainsTrigger(outer, inner) ==
  /\ outer.label = inner.label
  /\ outer.source = "Regex" /\ inner.source = "Trigger"
  /\ outer.label \in RegexShapes
  /\ CoversTriggerValue(outer, inner)

PersonRegexContainsName(outer, inner) ==
  /\ outer.label = "person" /\ inner.label = "person"
  /\ outer.source = "Regex" /\ inner.source \in {"Trigger", "DenyList"}
  /\ Encloses(outer, inner)

HoldsCountry(outer, inner) ==
  /\ outer.label \in {"person", "organization"}
  /\ inner.label = "country"
  /\ Encloses(outer, inner)

PersonContainsAddress(outer, inner) ==
  /\ outer.label = "person"
  /\ inner.label = "address" /\ inner.source = "DenyList" /\ ~CallerOwned(inner)
  /\ Encloses(outer, inner)

AddressContainsCountry(outer, inner) ==
  /\ outer.label = "address" /\ inner.label = "country"
  /\ Encloses(outer, inner)

(* The k-th rule prefers outer to inner; all but two need it to be longer. *)
Prefers(k, outer, inner) ==
  /\ k \notin {6, 10} => Length(outer) > Length(inner)
  /\ CASE k = 1 -> LiteralContains(outer, inner)
       [] k = 2 -> CuratedOrganizationContains(outer, inner)
       [] k = 3 -> AddressContainsPostal(outer, inner)
       [] k = 4 -> LegalFormContains(outer, inner)
       [] k = 5 -> LongerFromSameStart(outer, inner)
       [] k = 6 -> RegexShapeContainsTrigger(outer, inner)
       [] k = 7 -> PersonRegexContainsName(outer, inner)
       [] k = 8 -> HoldsCountry(outer, inner)
       [] k = 9 -> PersonContainsAddress(outer, inner)
       [] k = 10 -> AddressContainsCountry(outer, inner)

(* Ownership decides between an owned and a detected span: the wider one,  *)
(* at equal width a custom one; then the first rule that applies; then     *)
(* source, score and length.                                               *)
OwnershipDecides(a, b) ==
  /\ CallerOwned(a) # CallerOwned(b)
  /\ \/ Length(a) # Length(b)
     \/ (IF CallerOwned(a) THEN a ELSE b).detail \in {"CustomDenyList", "CustomRegex"}

ShouldReplace(candidate, existing) ==
  LET deciding == {k \in 1..10 : \/ Prefers(k, candidate, existing)
                                 \/ Prefers(k, existing, candidate)}
      rank(e) == Priority(e.source)
  IN IF OwnershipDecides(candidate, existing)
     THEN IF Length(candidate) # Length(existing)
          THEN Length(candidate) > Length(existing)
          ELSE CallerOwned(candidate)
     ELSE IF deciding # {} THEN Prefers(Min(deciding), candidate, existing)
     ELSE \/ rank(candidate) > rank(existing)
          \/ /\ rank(candidate) = rank(existing)
             /\ \/ candidate.score > existing.score
                \/ /\ candidate.score = existing.score
                   /\ Length(candidate) > Length(existing)
-----------------------------------------------------------------------------
(* Sanitizing: an entity gives up the space and punctuation at its edges   *)
(* unless they are part of what it names.                                  *)

Trimmed == {" ", ",", "'"}

HasLiteralBoundary(e) ==
  /\ e.source \in {"DenyList", "Gazetteer"}
  /\ e.label # "person"
  /\ e.detail # "GazetteerExtension"
  /\ e.text # <<>>
  /\ {Head(e.text), Last(e.text)} \cap {"'", "."} # {}

PreservesBoundaries(e) == CallerOwned(e) \/ HasLiteralBoundary(e)

(* A slip: the last character is taken for a period.                       *)
StripsPeriodUnseen(e, t) ==
  /\ e.label \in {"organization", "address"} /\ t # <<>>
  /\ \A s \in PeriodSuffixes : ~IsSuffix(s, t)

StripsPeriod(e, t) ==
  /\ e.label \in {"organization", "address"}
  /\ t # <<>> /\ Last(t) = "."
  /\ \A s \in PeriodSuffixes : ~IsSuffix(s, t)
  /\ e.source # "LegalForm" /\ e.detail # "GazetteerExtension"
  /\ e.label = "address" =>
       \A s \in AddressAbbreviations : ~IsSuffix(<<" ">> \o s, t)

(* What is left of the raw text of e: a span of it, or <<>>.               *)
SanitizedRange(e, raw) ==
  LET Rest(from) == SubSeq(raw, from + 1, Len(raw))
      trimmed == LeadingRun(raw, Trimmed)
      dots == LeadingRun(Rest(trimmed), {"."})
      artifact == /\ e.label = "date"
                  /\ \/ dots >= 2
                     \/ dots = 1 /\ LeadingRun(Rest(trimmed + 1), {" "}) > 0
      undotted == trimmed + (IF artifact THEN dots ELSE 0)
      from == undotted + LeadingRun(Rest(undotted), {" "})
      Kept(to) == to - TrailingRun(SubSeq(raw, from + 1, to), Trimmed)
      closed == Kept(Len(raw))
      to == Kept(IF StripsPeriod(e, SubSeq(raw, from + 1, closed))
                 THEN closed - 1 ELSE closed)
  IN IF from < to /\ ToSet(SubSeq(raw, from + 1, to)) \cap Alphanumeric # {}
     THEN <<from, to>> ELSE <<>>

Sanitizable(e) == PreservesBoundaries(e) \/ SanitizedRange(e, e.text) # <<>>

RetainSanitizable(list) == SelectSeq(list, Sanitizable)

(* With the document, whose slice is what is trimmed.                      *)
SanitizeAll(list, text) ==
  LET Raw(e) == Slice(text, e.start, e.end)
      Cleaned(e) ==
        LET range == SanitizedRange(e, Raw(e))
        IN IF PreservesBoundaries(e) THEN <<e>>
           ELSE IF range = <<>> THEN <<>>
           ELSE <<[e EXCEPT !.start = e.start + range[1],
                            !.end = e.start + range[2],
                            !.text = DisplayText(Slice(Raw(e), range[1], range[2]))]>>
  IN FlattenSeq([i \in DOMAIN list |-> Cleaned(list[i])])

-----------------------------------------------------------------------------
(* Merging.  Detections come in the order of their starts; slots hold what *)
(* is retained, <<>> where something was, and the active ones are those    *)
(* that may still overlap the next.                                        *)

StableInsert(sorted, e) ==
  InsertAt(sorted, Cardinality({i \in DOMAIN sorted : sorted[i].start <= e.start}) + 1, e)

ByStart(list) == FoldLeft(StableInsert, <<>>, list)

Entities(slots) == FlattenSeq(slots)

Retained(entities) ==
  [slots |-> [i \in DOMAIN entities |-> <<entities[i]>>],
   active |-> DOMAIN entities, sorted |-> TRUE]

Push(frontier, e) ==
  [frontier EXCEPT !.slots = Append(@, <<e>>),
                   !.active = @ \cup {Len(frontier.slots) + 1}]

SortIfNeeded(frontier) ==
  IF frontier.sorted THEN frontier ELSE Retained(ByStart(Entities(frontier.slots)))

(* A slip: the others stay.                                                *)
ReplaceFirst(frontier, overlaps, e) ==
  [frontier EXCEPT !.slots = [i \in DOMAIN frontier.slots |->
     IF i = Min(overlaps) THEN <<e>> ELSE frontier.slots[i]]]

(* The first of overlaps gets e, the others become empty.                  *)
Replace(frontier, overlaps, e) ==
  LET first == Min(overlaps)
      NewSlot(i) == IF i = first THEN <<e>>
                    ELSE IF i \in overlaps THEN <<>> ELSE frontier.slots[i]
  IN [slots |-> [i \in DOMAIN frontier.slots |-> NewSlot(i)],
      active |-> (frontier.active \ overlaps) \cup {first},
      sorted |-> frontier.sorted /\ Head(frontier.slots[first]).start = e.start]

(* A slip: what ends just behind the next start retires as well.           *)
RetireEndedEarly(frontier, start) ==
  [frontier EXCEPT !.active = {i \in @ : Head(frontier.slots[i]).end > start + 1}]

RetireEnded(frontier, start) ==
  [frontier EXCEPT !.active = {i \in @ : Head(frontier.slots[i]).end > start}]

(* One detection: it joins what it does not overlap, stands beside another *)
(* label of its exact span, takes the place of its own label there if it   *)
(* should, and otherwise the place of all it overlaps or none.             *)
Absorb(known, e) ==
  LET frontier == RetireEnded(known, e.start)
      Existing(i) == Head(frontier.slots[i])
      overlaps == {i \in frontier.active : Overlaps(Existing(i), e)}
      same == {i \in overlaps : Existing(i).label = e.label}
  IN IF overlaps = {} THEN Push(frontier, e)
     ELSE IF \A i \in overlaps : SameSpan(Existing(i), e)
     THEN IF same = {} THEN SortIfNeeded(Push(frontier, e))
          ELSE IF ShouldReplace(e, Existing(Min(same)))
          THEN Replace(frontier, {Min(same)}, e) ELSE frontier
     ELSE IF \A i \in overlaps : ShouldReplace(e, Existing(i))
     THEN Replace(frontier, overlaps, e) ELSE frontier

MergeFrontier(list) == Entities(FoldLeft(Absorb, Retained(<<>>), ByStart(list)).slots)

(* The same as the tests keep it: the retained entities as a plain list    *)
(* in which every entity is compared with every other.                     *)
LegacyAbsorb(merged, e) ==
  LET overlaps == {i \in DOMAIN merged : Overlaps(merged[i], e)}
      same == {i \in overlaps : merged[i].label = e.label}
      others == {i \in DOMAIN merged : i \notin overlaps}
  IN IF overlaps = {} THEN Append(merged, e)
     ELSE IF \A i \in overlaps : SameSpan(merged[i], e)
     THEN IF same = {} THEN ByStart(Append(merged, e))
          ELSE IF ShouldReplace(e, merged[Min(same)])
          THEN ReplaceAt(merged, Min(same), e) ELSE merged
     ELSE IF \A i \in overlaps : ShouldReplace(e, merged[i])
     THEN FlattenSeq([i \in DOMAIN merged |->
                        IF i = Min(overlaps) THEN <<e>>
                        ELSE IF i \in overlaps THEN <<>> ELSE <<merged[i]>>])
     ELSE merged

LegacyMerge(list) == FoldLeft(LegacyAbsorb, <<>>, ByStart(list))

-----------------------------------------------------------------------------
(* Entities of one span: which labels it keeps.                            *)

(* A slip: what yields to a person still outranks it.                      *)
DroppedLabelsOutranked(list) ==
  LET Group(i) == {j \in DOMAIN list : SameSpan(list[i], list[j])}
      LabelsAt(i) == {list[j].label : j \in Group(i)}
      Yields(i) == /\ "person" \in LabelsAt(i)
                   /\ ~CallerOwned(list[i])
                   /\ list[i].label \in YieldsToPerson
      Ranks(i) == {Priority(list[j].source) :
                     j \in Group(i)}
  IN {i \in DOMAIN list :
        /\ Cardinality(LabelsAt(i)) > 1
        /\ ~CallerOwned(list[i])
        /\ \/ Yields(i)
           \/ Priority(list[i].source) < Max(Ranks(i))
           \/ /\ list[i].label = "address"
              /\ LabelsAt(i) \cap PreciseOverAddress # {}}

(* What the label rules drop of list, as indices.                          *)
DroppedLabels(list) ==
  LET Group(i) == {j \in DOMAIN list : SameSpan(list[i], list[j])}
      LabelsAt(i) == {list[j].label : j \in Group(i)}
      Yields(i) == /\ "person" \in LabelsAt(i)
                   /\ ~CallerOwned(list[i])
                   /\ list[i].label \in YieldsToPerson
      Ranks(i) == {Priority(list[j].source) :
                     j \in {k \in Group(i) : ~CallerOwned(list[k]) /\ ~Yields(k)}}
  IN {i \in DOMAIN list :
        /\ Cardinality(LabelsAt(i)) > 1
        /\ ~CallerOwned(list[i])
        /\ \/ Yields(i)
           \/ Priority(list[i].source) < Max(Ranks(i))
           \/ /\ list[i].label = "address"
              /\ LabelsAt(i) \cap PreciseOverAddress # {}}

ResolveLabels(list) ==
  LET dropped == DroppedLabels(list)
  IN FlattenSeq([i \in DOMAIN list |-> IF i \in dropped THEN <<>> ELSE <<list[i]>>])

(* merge_and_dedup, and the same against the document.                     *)
MergeAndDedup(list) == ResolveLabels(RetainSanitizable(MergeFrontier(list)))

MergeWithDocument(list, text) ==
  ResolveLabels(SanitizeAll(RetainSanitizable(MergeFrontier(list)), text))
=============================================================================
