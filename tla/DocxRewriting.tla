---------------------------- MODULE DocxRewriting ----------------------------
(***************************************************************************)
(* A text block of a DOCX document is rewritten in place, and restored     *)
(* (anonymize-docx-core/src/lib.rs, packages/document-docx).  A block is a *)
(* sequence of nodes that lie side by side in its text.  Offsets count     *)
(* UTF-16 units: the characters h and l are the two halves of one.         *)
(*                                                                         *)
(* What makes a placeholder the session's, "LABEL_id_1", is one character  *)
(* here, its marker, with a bracket on either side.                        *)
(***************************************************************************)
EXTENDS Integers, Sequences, FiniteSets, SequencesExt, TLC

CONSTANTS
  Blocks,           \* what is extracted: sequences of nodes
  Markers,          \* a sequence, the first placeholder's first
  MaxReplacements,  \* bound on the replacements of a request
  MaxPlaceholder,   \* the longest placeholder that is restored
  Refused           \* an outcome

VARIABLES
  block,            \* the document's block, <<>> before there is one
  requested,        \* spans to replace, in the order given
  redacted,         \* the rewritten block, or Refused; <<>> before
  restored          \* that block restored, or Refused; <<>> before

vars == <<block, requested, redacted, restored>>

BlockText(nodes) == FlattenSeq([i \in DOMAIN nodes |-> nodes[i].text])
StartOf(nodes, i) == Len(BlockText(SubSeq(nodes, 1, i - 1)))
EndOf(nodes, i) == StartOf(nodes, i) + Len(nodes[i].text)

MarkersIn(t) == ToSet(t) \cap ToSet(Markers)

Occurs(pattern, t) == \E i \in DOMAIN t : IsPrefix(pattern, SubSeq(t, i, Len(t)))

Before(r, s) == r.start < s.start

-----------------------------------------------------------------------------
(* Replacements, as [start, end, text].                                    *)

IsBoundary(t, position) ==
  /\ position <= Len(t)
  /\ position \in 1..(Len(t) - 1) => t[position] # "h"

ValidReplacement(r, t) ==
  r.start < r.end /\ IsBoundary(t, r.start) /\ IsBoundary(t, r.end)

Disjoint(sorted) == \A k \in 2..Len(sorted) : sorted[k - 1].end <= sorted[k].start

(* A node without text is not extracted.                                   *)
Covered(nodes, r) ==
  {i \in DOMAIN nodes :
     nodes[i].text # <<>> /\ StartOf(nodes, i) < r.end /\ EndOf(nodes, i) > r.start}

Editable(nodes, r) ==
  /\ Covered(nodes, r) # {}
  /\ \A i \in Covered(nodes, r) : nodes[i].source = "text" /\ ~nodes[i].revised

(* A slip: the last node keeps all it has.                                 *)
ReplacedUntrimmed(nodes, values, r) ==
  LET first == Min(Covered(nodes, r))
      last == Max(Covered(nodes, r))
      kept == SubSeq(values[first], 1, r.start - StartOf(nodes, first))
      rest == SubSeq(values[first], r.end - StartOf(nodes, first) + 1, Len(values[first]))
  IN [i \in DOMAIN nodes |->
        IF i = first THEN kept \o r.text \o rest
        ELSE IF i \in Covered(nodes, r) /\ i # last THEN <<>> ELSE values[i]]

(* values are the texts of nodes, some of them already replaced.  The      *)
(* first node of a span gets the new text in place of all it has from      *)
(* there on, the last keeps what follows the span.                         *)
Replaced(nodes, values, r) ==
  LET first == Min(Covered(nodes, r))
      last == Max(Covered(nodes, r))
      kept == SubSeq(values[first], 1, r.start - StartOf(nodes, first))
      rest == SubSeq(values[last], r.end - StartOf(nodes, last) + 1, Len(values[last]))
      NewValue(i) ==
        CASE i = first /\ i = last -> kept \o r.text \o rest
          [] i = first /\ i # last -> kept \o r.text
          [] i = last /\ i # first -> rest
          [] OTHER -> IF i \in Covered(nodes, r) THEN <<>> ELSE values[i]
  IN [i \in DOMAIN nodes |-> NewValue(i)]

(* A carriage return is written as it is and read back as a line feed.     *)
ReadBack(value) == [i \in DOMAIN value |-> IF value[i] = "r" THEN "n" ELSE value[i]]

WithValues(nodes, values) ==
  [i \in DOMAIN nodes |->
     IF values[i] = nodes[i].text THEN nodes[i]
     ELSE [nodes[i] EXCEPT !.text = ReadBack(values[i])]]

(* A slip: the replacements are applied from the first.                    *)
RewrittenForward(nodes, replacements) ==
  LET sorted == SortSeq(replacements, Before)
      texts == [i \in DOMAIN nodes |-> nodes[i].text]
      allowed == /\ \A r \in ToSet(replacements) : ValidReplacement(r, BlockText(nodes))
                 /\ Disjoint(sorted)
                 /\ \A r \in ToSet(replacements) : Editable(nodes, r)
  IN IF allowed
     THEN WithValues(nodes, FoldLeft(LAMBDA values, r : Replaced(nodes, values, r),
                                     texts, sorted))
     ELSE Refused

(* The block with every replacement applied, the last one first.           *)
Rewritten(nodes, replacements) ==
  LET sorted == SortSeq(replacements, Before)
      texts == [i \in DOMAIN nodes |-> nodes[i].text]
      allowed == /\ \A r \in ToSet(replacements) : ValidReplacement(r, BlockText(nodes))
                 /\ Disjoint(sorted)
                 /\ \A r \in ToSet(replacements) : Editable(nodes, r)
  IN IF allowed
     THEN WithValues(nodes, FoldRight(LAMBDA r, values : Replaced(nodes, values, r),
                                      sorted, texts))
     ELSE Refused

-----------------------------------------------------------------------------
(* What the session plans for the spans: one number for each original, in  *)
(* the order of the text, past the placeholders the text has already.      *)

Placeholder(marker) == <<"[", marker, "]">>

Original(span, t) == SubSeq(t, span.start + 1, span.end)

FreeMarkers(t) == SelectSeq(Markers, LAMBDA marker : ~Occurs(Placeholder(marker), t))

Originals(spans, t) ==
  FoldLeft(LAMBDA known, span :
             IF Original(span, t) \in ToSet(known) THEN known
             ELSE Append(known, Original(span, t)),
           <<>>, SortSeq(spans, Before))

MarkerOf(span, spans, t) ==
  FreeMarkers(t)[CHOOSE k \in DOMAIN Originals(spans, t) :
                  Originals(spans, t)[k] = Original(span, t)]

Planned(spans, t) ==
  [k \in DOMAIN spans |->
     [start |-> spans[k].start, end |-> spans[k].end,
      text |-> Placeholder(MarkerOf(spans[k], spans, t))]]

-----------------------------------------------------------------------------
(* The session's placeholders of a text: what lies between the last [ and  *)
(* the first ] after it.  Of the session is what has a marker in it.       *)

(* A slip: a [ inside an open candidate is part of it.                     *)
ScanNextNested(t, scan, i) ==
  CASE t[i] = "[" /\ scan.open = 0 -> [scan EXCEPT !.open = i]
    [] t[i] = "]" /\ scan.open > 0 ->
         LET candidate == SubSeq(t, scan.open, i)
         IN IF MarkersIn(candidate) = {} THEN [scan EXCEPT !.open = 0]
            ELSE IF Len(candidate) > MaxPlaceholder THEN [scan EXCEPT !.ok = FALSE]
            ELSE [scan EXCEPT !.open = 0,
                              !.found = Append(@, [start |-> scan.open - 1, end |-> i])]
    [] OTHER -> scan

ScanNext(t, scan, i) ==
  CASE ~scan.ok -> scan
    [] scan.ok /\ t[i] = "[" ->
         IF scan.open > 0 /\ MarkersIn(SubSeq(t, scan.open, i - 1)) # {}
         THEN [scan EXCEPT !.ok = FALSE] ELSE [scan EXCEPT !.open = i]
    [] scan.ok /\ t[i] = "]" /\ scan.open > 0 ->
         LET candidate == SubSeq(t, scan.open, i)
         IN IF MarkersIn(candidate) = {} THEN [scan EXCEPT !.open = 0]
            ELSE IF Len(candidate) > MaxPlaceholder THEN [scan EXCEPT !.ok = FALSE]
            ELSE [scan EXCEPT !.open = 0,
                              !.found = Append(@, [start |-> scan.open - 1, end |-> i])]
    [] OTHER -> scan

(* The candidates of a text, or a refusal.                                 *)
Candidates(t) ==
  LET scan == FoldLeft(LAMBDA scan, i : ScanNext(t, scan, i),
                       [ok |-> TRUE, open |-> 0, found |-> <<>>],
                       [i \in 1..Len(t) |-> i])
      incomplete == scan.open > 0 /\ MarkersIn(SubSeq(t, scan.open, Len(t))) # {}
  IN IF scan.ok /\ ~incomplete THEN scan.found ELSE Refused

(* What the session knows of a candidate: its original, or nothing.        *)
Restorations(candidate, spans, t) ==
  {Original(s, t) : s \in {r \in ToSet(spans) :
                             candidate = Placeholder(MarkerOf(r, spans, t))}}

RestoredBlock(nodes, spans, t) ==
  LET candidates == Candidates(BlockText(nodes))
      Known(c) == Restorations(Original(c, BlockText(nodes)), spans, t)
      Restoring(c) == [start |-> c.start, end |-> c.end,
                       text |-> CHOOSE original \in Known(c) : TRUE]
  IN IF candidates = Refused THEN Refused
     ELSE IF \E k \in DOMAIN candidates : Known(candidates[k]) = {} THEN Refused
     ELSE Rewritten(nodes, [k \in DOMAIN candidates |-> Restoring(candidates[k])])

-----------------------------------------------------------------------------
Init ==
  /\ block = <<>>
  /\ requested = <<>>
  /\ redacted = <<>>
  /\ restored = <<>>

Extract ==
  /\ block = <<>>
  /\ block' \in Blocks
  /\ UNCHANGED <<requested, redacted, restored>>

RequestSpan ==
  /\ block # <<>> /\ redacted = <<>> /\ Len(requested) < MaxReplacements
  /\ \E start \in 0..Len(BlockText(block)) :
       \E end \in (start + 1)..Len(BlockText(block)) :
         requested' = Append(requested, [start |-> start, end |-> end])
  /\ UNCHANGED <<block, redacted, restored>>

Rewrite ==
  /\ requested # <<>> /\ redacted = <<>>
  /\ redacted' = Rewritten(block, Planned(requested, BlockText(block)))
  /\ UNCHANGED <<block, requested, restored>>

Restore ==
  /\ redacted \notin {<<>>, Refused} /\ restored = <<>>
  /\ restored' = RestoredBlock(redacted, requested, BlockText(block))
  /\ UNCHANGED <<block, requested, redacted>>

Next == Extract \/ RequestSpan \/ Rewrite \/ Restore

Spec == Init /\ [][Next]_vars

-----------------------------------------------------------------------------
(* Spans that lie apart, between characters, in text that may be changed.  *)
Replaceable ==
  LET t == BlockText(block)
      Inside(span) == {p \in 1..Len(t) : span.start < p /\ p <= span.end}
      NodeOf(p) == CHOOSE i \in DOMAIN block : p \in (StartOf(block, i) + 1)..EndOf(block, i)
  IN /\ \A k \in DOMAIN requested :
          /\ Inside(requested[k]) # {}
          /\ requested[k].start > 0 => t[requested[k].start] # "h"
          /\ t[requested[k].end] # "h"
          /\ \A p \in Inside(requested[k]) :
               block[NodeOf(p)].source = "text" /\ ~block[NodeOf(p)].revised
     /\ \A j, k \in DOMAIN requested :
          j # k => Inside(requested[j]) \cap Inside(requested[k]) = {}

(* The text with the planned replacements spliced in, from the front.      *)
Spliced ==
  LET t == BlockText(block)
      planned == ToSet(Planned(requested, t))
      At(p) == {r \in planned : r.start < p /\ p <= r.end}
      Piece(p) == IF At(p) = {} THEN <<t[p]>>
                  ELSE LET r == CHOOSE q \in At(p) : TRUE
                       IN IF p = r.start + 1 THEN r.text ELSE <<>>
  IN FlattenSeq([p \in 1..Len(t) |-> Piece(p)])

(* A request is carried out as a whole or refused; done, the text is the   *)
(* spliced one and every node without a replaced character is as it was.   *)
(* Carriage returns aside, which become line feeds.                        *)
RewritesAsAsked ==
  redacted # <<>> =>
    /\ redacted # Refused <=> Replaceable
    /\ redacted # Refused =>
         /\ "r" \notin ToSet(BlockText(block)) => BlockText(redacted) = Spliced
         /\ \A i \in DOMAIN block :
              (\A k \in DOMAIN requested : i \notin Covered(block, requested[k])) =>
                redacted[i] = block[i]

(* What was rewritten restores to the text before, and is refused only if  *)
(* that text had part of one of the session's placeholders in it already.  *)
RestoresOrRefuses ==
  restored # <<>> =>
    IF restored = Refused THEN MarkersIn(BlockText(block)) # {}
    ELSE "r" \notin ToSet(BlockText(block)) => BlockText(restored) = BlockText(block)

(* A document is rewritten exactly, and back.                              *)
DocxIsExact == RewritesAsAsked /\ RestoresOrRefuses
=============================================================================
