---------------------------- MODULE PdfRedaction ----------------------------
(***************************************************************************)
(* A page of a PDF becomes a picture in which every detected character is  *)
(* filled (anonymize-pdf-core/src/raster.rs, and the validation of what    *)
(* was observed on the page in lib.rs).  Offsets count UTF-16 units: the   *)
(* characters h and l are the two halves of one.  A rectangle is           *)
(*   left, bottom, right, top                                              *)
(* in points from the lower left corner, a pixel is <<column, row>> from   *)
(* the upper left corner.                                                  *)
(***************************************************************************)
EXTENDS Integers, Sequences, FiniteSets, SequencesExt

CONSTANTS
  PageTexts,        \* what a page reads
  Rectangles,       \* where a glyph may lie
  HandRegions,      \* what may be marked by hand, sets of rectangles
  PageWidth, PageHeight,      \* in points
  PixelColumns, PixelRows,
  Overdraw,         \* how often the fills may cover the page
  MaxGlyphs, MaxMarked,       \* bounds
  Pending, Refused  \* outcomes

VARIABLES
  pageText,
  glyphs,           \* [start, end, bounds], in the order observed
  marked,           \* the detections, [start, end], in the order given
  regions,          \* the rectangles marked by hand
  filled            \* the pixels filled, or Pending or Refused

vars == <<pageText, glyphs, marked, regions, filled>>

FloorOf(n, d) == n \div d
CeilingOf(n, d) == 0 - ((0 - n) \div d)

IsUnitBoundary(t, offset) ==
  offset <= Len(t) /\ (offset \in 1..(Len(t) - 1) => t[offset] # "h")

Ordered(spans) ==
  \A k \in DOMAIN spans :
    spans[k].start < spans[k].end /\ (k > 1 => spans[k - 1].end <= spans[k].start)

OnBoundaries(spans) ==
  \A k \in DOMAIN spans :
    IsUnitBoundary(pageText, spans[k].start) /\ IsUnitBoundary(pageText, spans[k].end)

ValidRectangle(r) ==
  /\ 0 <= r.left /\ r.left < r.right /\ r.right <= PageWidth
  /\ 0 <= r.bottom /\ r.bottom < r.top /\ r.top <= PageHeight

ValidObservation ==
  /\ Ordered(glyphs) /\ OnBoundaries(glyphs)
  /\ \A k \in DOMAIN glyphs : ValidRectangle(glyphs[k].bounds)

-----------------------------------------------------------------------------
(* From points to pixels, with a pixel more on every side.                 *)
PixelRect(r) ==
  [left |-> Max({0, FloorOf(r.left * PixelColumns, PageWidth) - 1}),
   right |-> Min({PixelColumns, CeilingOf(r.right * PixelColumns, PageWidth) + 1}),
   top |-> Max({0, FloorOf((PageHeight - r.top) * PixelRows, PageHeight) - 1}),
   bottom |-> Min({PixelRows, CeilingOf((PageHeight - r.bottom) * PixelRows, PageHeight) + 1})]

Area(rect) == (rect.right - rect.left) * (rect.bottom - rect.top)

PixelsOf(rect) == (rect.left..(rect.right - 1)) \X (rect.top..(rect.bottom - 1))

-----------------------------------------------------------------------------
(* The glyphs of a detection.  The cursor stays behind the first glyph     *)
(* that ends past the start of a detection, for all that follow.           *)

(* A slip: the cursor also passes what the last detection has used.        *)
AdvancedPastUsed(cursor, span) ==
  Min({k \in cursor..Len(glyphs) : glyphs[k].start >= span.start} \cup {Len(glyphs) + 1})

Advanced(cursor, span) ==
  Min({k \in cursor..Len(glyphs) : glyphs[k].end > span.start} \cup {Len(glyphs) + 1})

GlyphsFrom(cursor, span) ==
  LET barrier == Min({k \in cursor..Len(glyphs) : glyphs[k].start >= span.end}
                     \cup {Len(glyphs) + 1})
  IN cursor..(barrier - 1)

(* A slip: one glyph is enough.                                            *)
MappedSomewhere(cursor, span) == GlyphsFrom(cursor, span) # {}

FullyMapped(cursor, span) ==
  /\ GlyphsFrom(cursor, span) # {}
  /\ \A unit \in (span.start + 1)..span.end :
       pageText[unit] # " " =>
         \E k \in GlyphsFrom(cursor, span) : glyphs[k].start < unit /\ unit <= glyphs[k].end

(* One detection after the other.                                          *)
MapDetection(state, span) ==
  LET cursor == Advanced(state.cursor, span)
  IN [cursor |-> cursor,
      ok |-> state.ok /\ FullyMapped(cursor, span),
      rects |-> state.rects \cup {PixelRect(glyphs[k].bounds) : k \in GlyphsFrom(cursor, span)}]

DetectionRects ==
  FoldLeft(MapDetection, [cursor |-> 1, ok |-> TRUE, rects |-> {}], marked)

Accepted(rects) ==
  FoldSet(LAMBDA rect, sum : sum + Area(rect), 0, rects)
    <= Overdraw * PixelColumns * PixelRows

-----------------------------------------------------------------------------
Init ==
  /\ pageText = <<>>
  /\ glyphs = <<>> /\ marked = <<>> /\ regions = {}
  /\ filled = Pending

OpenPage ==
  /\ pageText = <<>>
  /\ pageText' \in PageTexts
  /\ regions' \in HandRegions
  /\ UNCHANGED <<glyphs, marked, filled>>

SpansOf(t) == {s \in (0..Len(t)) \X (0..Len(t)) : s[1] < s[2]}

ObserveGlyph ==
  /\ pageText # <<>> /\ filled = Pending /\ marked = <<>> /\ Len(glyphs) < MaxGlyphs
  /\ \E span \in SpansOf(pageText), bounds \in Rectangles :
       glyphs' = Append(glyphs, [start |-> span[1], end |-> span[2], bounds |-> bounds])
  /\ UNCHANGED <<pageText, marked, regions, filled>>

MarkDetection ==
  /\ pageText # <<>> /\ filled = Pending /\ Len(marked) < MaxMarked
  /\ \E span \in SpansOf(pageText) :
       marked' = Append(marked, [start |-> span[1], end |-> span[2]])
  /\ UNCHANGED <<pageText, glyphs, regions, filled>>

RewritePage ==
  /\ pageText # <<>> /\ filled = Pending
  /\ LET mapped == DetectionRects
         rects == mapped.rects \cup {PixelRect(r) : r \in regions}
         allowed == /\ ValidObservation /\ \A r \in regions : ValidRectangle(r)
                    /\ Ordered(marked) /\ OnBoundaries(marked)
                    /\ mapped.ok /\ Accepted(rects)
     IN filled' = IF allowed THEN UNION {PixelsOf(rect) : rect \in rects} ELSE Refused
  /\ UNCHANGED <<pageText, glyphs, marked, regions>>

Next == OpenPage \/ ObserveGlyph \/ MarkDetection \/ RewritePage

Spec == Init /\ [][Next]_vars

-----------------------------------------------------------------------------
(* Pixels that have a part of r in them, and their neighbours.             *)
Touched(r) ==
  {p \in (0..(PixelColumns - 1)) \X (0..(PixelRows - 1)) :
     /\ p[1] * PageWidth < r.right * PixelColumns
     /\ (p[1] + 1) * PageWidth > r.left * PixelColumns
     /\ (PixelRows - p[2]) * PageHeight > r.bottom * PixelRows
     /\ (PixelRows - p[2] - 1) * PageHeight < r.top * PixelRows}

Near(r) ==
  {p \in (0..(PixelColumns - 1)) \X (0..(PixelRows - 1)) :
     \E q \in Touched(r) : p[1] - q[1] \in -1..1 /\ p[2] - q[2] \in -1..1}

MarkedUnits == UNION {(d.start + 1)..d.end : d \in ToSet(marked)}

MarkedGlyphs == {g \in ToSet(glyphs) : ((g.start + 1)..g.end) \cap MarkedUnits # {}}

(* Every detection has a glyph, and its characters that show have theirs.  *)
EveryDetectionIsDrawn ==
  \A d \in ToSet(marked) :
    /\ \E g \in ToSet(glyphs) : g.start < d.end /\ g.end > d.start
    /\ \A unit \in (d.start + 1)..d.end :
         pageText[unit] # " " => \E g \in ToSet(glyphs) : g.start < unit /\ unit <= g.end

TooMuchToFill ==
  LET shapes == {Near(g.bounds) : g \in MarkedGlyphs} \cup {Near(r) : r \in regions}
  IN FoldSet(LAMBDA shape, sum : sum + Cardinality(shape), 0, shapes)
       > Overdraw * PixelColumns * PixelRows

(* Every detected character that shows has its glyph filled, or the page   *)
(* is refused; nothing is filled but glyphs of detected characters and     *)
(* regions marked by hand, a pixel beyond them aside.  And a page that can *)
(* be redacted is.                                                         *)
PdfHidesDetections ==
  /\ filled \notin {Pending, Refused} =>
       /\ EveryDetectionIsDrawn
       /\ filled = UNION {Near(g.bounds) : g \in MarkedGlyphs}
                    \cup UNION {Near(r) : r \in regions}
  /\ (filled = Refused /\ ValidObservation /\ Ordered(marked) /\ OnBoundaries(marked)
       /\ \A r \in regions : ValidRectangle(r)) =>
       ~EveryDetectionIsDrawn \/ TooMuchToFill
=============================================================================
