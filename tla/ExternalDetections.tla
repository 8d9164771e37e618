-------------------------- MODULE ExternalDetections --------------------------
(* Detections of another tool, exchanged as a batch whose offsets count    *)
(* bytes, UTF-16 units or code points (external_detection.rs).  A batch is *)
(* converted for a binding that counts in its own unit; the binding hands  *)
(* the detections back and they become byte offsets once more (caller.rs). *)
EXTENDS Integers, Sequences, FiniteSets, SequencesExt

CONSTANTS
  Documents,        \* sequences of characters [bytes, units]
  Reports,         \* [id, start, end, label]: what a batch may report
  Mappings,         \* label maps: sequences of [from, to]
  MaxDetected

VARIABLES document, unit, mapping, batch

batchVars == <<document, unit, mapping, batch>>

Units == {"byte", "utf16", "codepoint"}

Init == document \in Documents /\ unit \in Units /\ mapping \in Mappings /\ batch = <<>>

(* The tool reports one more detection.                                    *)
Report(d) ==
  /\ Len(batch) < MaxDetected
  /\ batch' = Append(batch, d) /\ UNCHANGED <<document, unit, mapping>>

Next == \E d \in Reports : Report(d)
Spec == Init /\ [][Next]_batchVars

-----------------------------------------------------------------------------
SizeIn(u, c) ==
  CASE u = "byte" -> c.bytes [] u = "utf16" -> c.units [] u = "codepoint" -> 1

(* Slip: a character outside the basic plane counts as one unit.           *)
OneUnitEach(u, n) ==
  FoldFunction(+, 0, [i \in 1..n |-> IF u = "byte" THEN document[i].bytes ELSE 1])

(* The boundary after the first n characters, as the unit counts it        *)
BoundaryIn(u, n) == FoldFunction(+, 0, [i \in 1..n |-> SizeIn(u, document[i])])

Boundaries == 0..Len(document)

(* resolve_requested_boundaries: the requested offsets, sorted and without *)
(* repetition, are met by the boundaries in one pass; one that falls       *)
(* between two boundaries or after the last refuses the batch.             *)
Requested == {batch[i].start : i \in DOMAIN batch} \cup {batch[i].end : i \in DOMAIN batch}

Resolve(scan, n) ==
  LET offset == BoundaryIn(unit, n)
      rest == {o \in scan.pending : o # offset}
  IN IF scan.refused \/ scan.pending = {} THEN scan
     ELSE [refused |-> \E o \in rest : o < offset,
           pending |-> rest,
           resolved |-> scan.resolved \cup {<<o, n>> : o \in scan.pending \ rest}]

Resolution ==
  FoldLeft(Resolve, [refused |-> FALSE, pending |-> Requested, resolved |-> {}],
           [i \in 1..(Len(document) + 1) |-> i - 1])

(* label_map_from: a label mapped twice refuses the batch.                 *)
MappedTwice == \E i, j \in DOMAIN mapping : i # j /\ mapping[i].from = mapping[j].from

(* Slip: provenance is not kept, so a detection may come twice.            *)
AcceptsAgain(resolved, d, earlier) ==
  /\ \E i \in DOMAIN mapping : mapping[i].from = d.label
  /\ \E p, q \in resolved : p[1] = d.start /\ q[1] = d.end /\ p[2] < q[2]

(* convert_detections, for one after those before it                       *)
Accepts(resolved, d, earlier) ==
  /\ d.id \notin earlier
  /\ \E i \in DOMAIN mapping : mapping[i].from = d.label
  /\ \E p, q \in resolved : p[1] = d.start /\ q[1] = d.end /\ p[2] < q[2]

(* convert_external_detection_batch: nothing, or every detection           *)
Refused ==
  \/ MappedTwice \/ Resolution.refused \/ Resolution.pending # {}
  \/ \E i \in DOMAIN batch :
       ~Accepts(Resolution.resolved, batch[i], {batch[j].id : j \in 1..(i - 1)})

ConvertedTo(u) ==
  LET at(o) == (CHOOSE p \in Resolution.resolved : p[1] = o)[2]
  IN [i \in DOMAIN batch |->
        [start |-> BoundaryIn(u, at(batch[i].start)), end |-> BoundaryIn(u, at(batch[i].end)),
         label |-> (CHOOSE k \in {mapping[j] : j \in DOMAIN mapping} : k.from = batch[i].label).to,
         id |-> batch[i].id]]

(* caller_detections_from_..._binding: a binding's offset becomes that of  *)
(* the character that starts there, and is refused where none does.        *)
ByteOffset(u, o) == {BoundaryIn("byte", n) : n \in {m \in Boundaries : BoundaryIn(u, m) = o}}

HandedBack(u) ==
  [i \in DOMAIN batch |->
     [ConvertedTo(u)[i] EXCEPT !.start = ByteOffset(u, @), !.end = ByteOffset(u, @)]]

-----------------------------------------------------------------------------
(* A batch is accepted exactly when its labels are mapped, once each, its  *)
(* detections have names of their own and every span is a piece of text,   *)
(* none of whose ends lies inside a character.                             *)
AcceptedWhenSound ==
  Refused <=>
    \/ \E i, j \in DOMAIN mapping : i # j /\ mapping[i].from = mapping[j].from
    \/ \E i, j \in DOMAIN batch : i # j /\ batch[i].id = batch[j].id
    \/ \E i \in DOMAIN batch :
         \/ ~\E k \in DOMAIN mapping : mapping[k].from = batch[i].label
         \/ ~\E m, n \in Boundaries :
               /\ m < n
               /\ batch[i].start = FoldFunction(+, 0, [c \in 1..m |-> SizeIn(unit, document[c])])
               /\ batch[i].end = FoldFunction(+, 0, [c \in 1..n |-> SizeIn(unit, document[c])])

(* Whatever unit the batch and the binding count in, the detections come   *)
(* back as the same pieces of the text, and in the batch's own unit        *)
(* unchanged.                                                              *)
SamePiecesInEveryUnit ==
  ~Refused =>
    /\ \A u \in Units, i \in DOMAIN batch :
         /\ HandedBack(u)[i].start = {ConvertedTo("byte")[i].start}
         /\ HandedBack(u)[i].end = {ConvertedTo("byte")[i].end}
    /\ \A i \in DOMAIN batch :
         ConvertedTo(unit)[i].start = batch[i].start /\ ConvertedTo(unit)[i].end = batch[i].end

(* External detections mean the same text in every unit, and a batch that  *)
(* is not sound is refused as a whole (external_detection.rs:112-266).     *)
DetectionsKeepTheirText == AcceptedWhenSound /\ SamePiecesInEveryUnit
=============================================================================
