------------------------------ MODULE Rendering ------------------------------
(***************************************************************************)
(* What a text becomes once its entities are known, without a session      *)
(* (redact.rs, placeholders.rs): each entity is kept, masked, redacted or  *)
(* replaced by a placeholder as the operator of its label says, and the    *)
(* map of placeholders restores the text.                                  *)
(*                                                                         *)
(* A placeholder [KEY_1] is four characters here, one for the key and one  *)
(* for the number.  Every character is one grapheme.                       *)
(***************************************************************************)
EXTENDS Integers, Sequences, FiniteSets, SequencesExt, TLC

CONSTANTS
  Texts,          \* what is redacted, with the number of its spans
  LabelKeys,      \* labels, each its own key
  Digits,         \* the number n of a placeholder is Digits[n]
  Configurations, \* an operator for every label
  RedactString    \* what stands for a redacted span

VARIABLES
  source,         \* the text
  spans,          \* its entities by start
  operators       \* the configuration

vars == <<source, spans, operators>>

SpanText(span) == SubSeq(source, span.start + 1, span.end)

Init == source = <<>> /\ spans = <<>> /\ operators = CHOOSE c \in Configurations : TRUE

Request ==
  /\ source = <<>>
  /\ source' \in DOMAIN Texts
  /\ operators' \in Configurations
  /\ UNCHANGED spans

AddSpan ==
  /\ source # <<>> /\ Len(spans) < Texts[source]
  /\ \E start \in 0..(Len(source) - 1), label \in LabelKeys :
       \E end \in (start + 1)..Len(source) :
         /\ spans # <<>> => Last(spans).start <= start
         /\ spans' = Append(spans, [start |-> start, end |-> end, label |-> label])
  /\ UNCHANGED <<source, operators>>

Next == Request \/ AddSpan

-----------------------------------------------------------------------------
(* Placeholders.  Spans of one label that read the same up to case share   *)
(* one; numbers count up, past those the text contains.                    *)

Folded(t) == [i \in DOMAIN t |-> IF t[i] = "A" THEN "a" ELSE t[i]]
Identity(span) == <<span.label, Folded(SpanText(span))>>

Placeholder(label, n) == <<"[", label, Digits[n], "]">>

OccursAt(pattern, t, i) == IsPrefix(pattern, SubSeq(t, i, Len(t)))
Occurs(pattern, t) == \E i \in DOMAIN t : OccursAt(pattern, t, i)

Used(names, label) == {names[id] : id \in {k \in DOMAIN names : k[1] = label}}

(* A slip: the text is not looked at.                                      *)
NextNumberUnreserved(names, label) ==
  Max({0} \cup Used(names, label)) + 1

NextNumber(names, label) ==
  LET count == Max({0} \cup Used(names, label))
  IN Min({n \in DOMAIN Digits :
            n > count /\ ~Occurs(Placeholder(label, n), source)})

PlaceholderNumbers ==
  FoldLeft(LAMBDA names, span :
             IF Identity(span) \in DOMAIN names THEN names
             ELSE names @@ (Identity(span) :> NextNumber(names, span.label)),
           <<>>, spans)

PlaceholderOf(span) == Placeholder(span.label, PlaceholderNumbers[Identity(span)])

-----------------------------------------------------------------------------
(* Selection.  Kept, masked and hidden spans are selected apart, each by   *)
(* who comes first.                                                        *)

NonOverlapping(list) ==
  FoldLeft(LAMBDA kept, s :
             IF kept = <<>> \/ s.start >= Last(kept).end THEN Append(kept, s) ELSE kept,
           <<>>, list)

Selected(kinds) ==
  NonOverlapping(SelectSeq(spans, LAMBDA s : operators[s.label].kind \in kinds))

Hidden == Selected({"replace", "redact"})
Masked == Selected({"mask"})

(* One replacement for every masked character.                             *)
MaskReplacements ==
  LET Chosen(s) ==
        LET mask == operators[s.label]
            n == Min({mask.characters, s.end - s.start})
            from == IF mask.direction = "start" THEN s.start ELSE s.end - n
        IN [k \in 1..n |-> [start |-> from + k - 1, end |-> from + k, output |-> <<"*">>]]
  IN FlattenSeq([i \in DOMAIN Masked |-> Chosen(Masked[i])])

(* A slip: only a span that begins with a masked character takes it away.  *)
MasksOutsideHiddenStart ==
  SelectSeq(MaskReplacements, LAMBDA r :
    \A i \in DOMAIN Hidden : ~(Hidden[i].start >= r.start /\ Hidden[i].start < r.end))

MasksOutsideHidden ==
  SelectSeq(MaskReplacements, LAMBDA r :
    \A i \in DOMAIN Hidden : ~(Hidden[i].start < r.end /\ r.start < Hidden[i].end))

HiddenReplacements ==
  [i \in DOMAIN Hidden |->
     [start |-> Hidden[i].start, end |-> Hidden[i].end,
      output |-> IF operators[Hidden[i].label].kind = "replace"
                 THEN PlaceholderOf(Hidden[i]) ELSE RedactString]]

(* By start, of equal starts the hidden span first.                        *)
Replacements ==
  LET Insert(sorted, r) ==
        InsertAt(sorted, Cardinality({i \in DOMAIN sorted : sorted[i].start <= r.start}) + 1, r)
  IN FoldLeft(Insert, HiddenReplacements, MasksOutsideHidden)

-----------------------------------------------------------------------------
(* Rendering: pieces of the source, from and to, and replacements.         *)

Rendered ==
  LET Gap(from, to) ==
        IF to > from
        THEN <<[start |-> from, end |-> to, shown |-> TRUE,
                output |-> SubSeq(source, from + 1, to)]>>
        ELSE <<>>
      Put(r) == [start |-> r.start, end |-> r.end, shown |-> FALSE, output |-> r.output]
      final == FoldLeft(LAMBDA state, r :
                          [cursor |-> r.end,
                           pieces |-> state.pieces \o Gap(state.cursor, r.start) \o <<Put(r)>>],
                        [cursor |-> 0, pieces |-> <<>>], Replacements)
  IN final.pieces \o Gap(final.cursor, Len(source))

RedactedText == FlattenSeq([i \in DOMAIN Rendered |-> Rendered[i].output])

(* The first text of each placeholder, in the order of appearance.         *)
RedactionMap ==
  FoldLeft(LAMBDA entries, s :
             IF \/ operators[s.label].kind # "replace"
                \/ \E i \in DOMAIN entries : entries[i].placeholder = PlaceholderOf(s)
             THEN entries
             ELSE Append(entries, [placeholder |-> PlaceholderOf(s), original |-> SpanText(s)]),
           <<>>, Hidden)

(* Every occurrence from left to right.                                    *)
ReplaceEach(t, pattern, by) ==
  LET Step(state, i) ==
        IF state.skip > 0 THEN [state EXCEPT !.skip = @ - 1]
        ELSE IF OccursAt(pattern, t, i)
        THEN [out |-> state.out \o by, skip |-> Len(pattern) - 1]
        ELSE [state EXCEPT !.out = Append(@, t[i])]
  IN FoldLeft(Step, [out |-> <<>>, skip |-> 0], [i \in DOMAIN t |-> i]).out

Deanonymise(t, entries) ==
  FoldLeft(LAMBDA restored, entry : ReplaceEach(restored, entry.placeholder, entry.original),
           t, entries)

-----------------------------------------------------------------------------
(* What is replaced comes back, one placeholder after the other in a text  *)
(* that already holds originals, where every mention reads as its first    *)
(* and nothing is masked or redacted.                                      *)
RestoresText ==
  (/\ \A s \in ToSet(spans) : operators[s.label].kind \in {"keep", "replace"}
   /\ \A s, t \in ToSet(spans) : Identity(s) = Identity(t) => SpanText(s) = SpanText(t))
  => Deanonymise(RedactedText, RedactionMap) = source

(* Exactly what no selected span hides is shown, once and in order,        *)
(* whatever overlaps whatever: a kept span uncovers nothing, and a masked  *)
(* one nothing of a hidden one.                                            *)
ShownIsWhatNothingHides ==
  LET Positions(from, to) == [k \in 1..(to - from) |-> from + k - 1]
      pieces == SelectSeq(Rendered, LAMBDA p : p.shown)
      shown == FlattenSeq([i \in DOMAIN pieces |-> Positions(pieces[i].start, pieces[i].end)])
      covered == UNION {r.start..(r.end - 1) : r \in ToSet(Hidden) \cup ToSet(MaskReplacements)}
  IN shown = SelectSeq(Positions(0, Len(source)), LAMBDA i : i \notin covered)

(* Both: what is shown is exactly what nothing hides, and what is replaced *)
(* comes back.                                                             *)
RenderingIsExact == RestoresText /\ ShownIsWhatNothingHides
=============================================================================
