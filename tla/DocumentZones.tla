---------------------------- MODULE DocumentZones ----------------------------
(* The zones of a document (zones.rs): a header before the first section   *)
(* heading, a signature from the last signing clause on, tables between    *)
(* them and a body around the tables.  An entity in a zone other than the  *)
(* body gains score.                                                       *)
(*                                                                         *)
(* A line is what the patterns tell of it, and its length.  Scores are     *)
(* hundredths.                                                             *)
EXTENDS Integers, Sequences, FiniteSets, SequencesExt, FiniteSetsExt

CONSTANTS
  LineKinds,     \* [heading, signing, table, length]
  MaxLines,
  EntityScores

VARIABLES
  lines,
  boosted        \* <<>>, or <<the entity before, the entity after>>

zoneVars == <<lines, boosted>>

Init == lines = <<>> /\ boosted = <<>>

(* split_lines: where line n starts, the newlines between them counted;    *)
(* the line after the last starts one past the end of the text             *)
StartOf(n) ==
  LET start[i \in 1..n] == IF i = 1 THEN 0 ELSE start[i - 1] + lines[i - 1].length + 1
  IN start[n]
TextLength == StartOf(Len(lines) + 1) - 1

Zone(kind, start, end) == [zone |-> kind, start |-> start, end |-> end]

(* Slip: a heading below the signing clause still ends a header.           *)
HeaderAnywhere ==
  LET headings == {i \in DOMAIN lines : lines[i].heading}
  IN IF headings = {} THEN 1 ELSE Min(headings)

SigningLine ==
  LET clauses == {i \in DOMAIN lines : lines[i].signing}
  IN IF clauses = {} THEN Len(lines) + 1 ELSE Max(clauses)

SignatureStart == Min({StartOf(SigningLine), TextLength})

(* The line the header ends before, 1 where there is no header: a heading  *)
(* in the first line or below the signing clause ends none.                *)
HeaderEnd ==
  LET headings == {i \in DOMAIN lines : lines[i].heading}
  IN IF headings = {} \/ StartOf(Min(headings)) > SignatureStart THEN 1 ELSE Min(headings)

(* add_table_zones: <<the tables so far, where one is open>>               *)
Scanned ==
  FoldLeft(LAMBDA state, n :
             IF lines[n].table
             THEN [state EXCEPT !.open = IF @ = {} THEN {StartOf(n)} ELSE @]
             ELSE [tables |-> state.tables
                                \o (IF state.open = {} THEN <<>>
                                    ELSE <<Zone("table", Min(state.open), StartOf(n))>>),
                   open |-> {}],
           [tables |-> <<>>, open |-> {}],
           SelectSeq([n \in DOMAIN lines |-> n],
                     LAMBDA n : HeaderEnd <= n /\ n < SigningLine))

(* Slip: a table that the end of the body ends is forgotten.               *)
ClosedTables == Scanned.tables

Tables ==
  Scanned.tables
    \o (IF Scanned.open = {} THEN <<>>
        ELSE <<Zone("table", Min(Scanned.open), SignatureStart)>>)

(* add_body_zones: what lies between the tables and after them             *)
BodyZones ==
  LET walked == FoldLeft(LAMBDA state, table :
                           [bodies |-> state.bodies
                                         \o (IF table.start <= state.cursor THEN <<>>
                                             ELSE <<Zone("body", state.cursor, table.start)>>),
                            cursor |-> Max({state.cursor, table.end})],
                         [bodies |-> <<>>, cursor |-> StartOf(HeaderEnd)], Tables)
  IN walked.bodies
       \o (IF walked.cursor < SignatureStart THEN <<Zone("body", walked.cursor, SignatureStart)>>
           ELSE <<>>)

(* classify                                                                *)
Zones ==
  IF TextLength <= 0 THEN <<>>
  ELSE SortSeq((IF HeaderEnd > 1 THEN <<Zone("header", 0, StartOf(HeaderEnd))>> ELSE <<>>)
                 \o Tables \o BodyZones
                 \o (IF SigningLine > Len(lines) THEN <<>>
                     ELSE <<Zone("signature", SignatureStart, TextLength)>>),
               LAMBDA a, b : a.start < b.start)

(* zone_for_entity: the first zone that holds the middle                   *)
ZoneOf(start, end) ==
  LET zones == Zones
      around == {i \in DOMAIN zones : 2 * zones[i].start <= start + end
                                        /\ start + end < 2 * zones[i].end}
  IN IF around = {} THEN "body" ELSE zones[Min(around)].zone

(* score_adjustment                                                        *)
Gain(zone) ==
  CASE zone = "header" -> 10 [] zone = "signature" -> 15 [] zone = "table" -> 5 [] OTHER -> 0

AddLine(kind) ==
  /\ boosted = <<>> /\ Len(lines) < MaxLines
  /\ lines' = Append(lines, kind)
  /\ UNCHANGED boosted

(* adjust_entities, for one entity                                         *)
Boost(start, end, score) ==
  /\ lines # <<>> /\ boosted = <<>>
  /\ LET entity == [start |-> start, end |-> end, score |-> score]
     IN boosted' = <<entity, [entity EXCEPT !.score = Min({100, @ + Gain(ZoneOf(start, end))})]>>
  /\ UNCHANGED lines

Next ==
  \/ \E kind \in LineKinds : AddLine(kind)
  \/ \E start, end \in 0..TextLength, score \in EntityScores : start < end /\ Boost(start, end, score)

Spec == Init /\ [][Next]_zoneVars

-----------------------------------------------------------------------------
(* The zones follow one another over the whole text, with neither a gap    *)
(* nor an overlap (zones.rs:117-185).                                      *)
ZonesPartitionTheText ==
  boosted = <<>> /\ TextLength > 0 =>
    LET zones == Zones
    IN /\ zones # <<>>
       /\ zones[1].start = 0 /\ zones[Len(zones)].end = TextLength
       /\ \A i \in DOMAIN zones : zones[i].start < zones[i].end
       /\ \A i \in 2..Len(zones) : zones[i].start = zones[i - 1].end

(* The line that offset is in, its newline counted                         *)
LineAt(offset) == Max({n \in DOMAIN lines : StartOf(n) <= offset})

(* An entity gains what the line around its middle earns, and no entity    *)
(* scores above 1: the lines from the last signing clause on are a         *)
(* signature, those above the first heading a header unless the clause is  *)
(* above it, and only tables between them count (zones.rs:87-185).         *)
GainOfLine(n) ==
  LET above == {i \in DOMAIN lines : lines[i].heading}
  IN IF n >= SigningLine THEN 15
     ELSE IF above # {} /\ n < Min(above)
               /\ (Min(above) <= SigningLine \/ SigningLine > Len(lines)) THEN 10
     ELSE IF lines[n].table THEN 5 ELSE 0

GainsFollowTheLines ==
  boosted # <<>> =>
    boosted[2].score =
      Min({100, boosted[1].score + GainOfLine(LineAt((boosted[1].start + boosted[1].end) \div 2))})

ZonesAreExact == ZonesPartitionTheText /\ GainsFollowTheLines
=============================================================================
