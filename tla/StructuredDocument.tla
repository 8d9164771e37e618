------------------------ MODULE StructuredDocument ------------------------
(***************************************************************************)
(* Documents of document-rules-core: ordered blocks with stable ids, the   *)
(* changes a patch may make to them, and the batch analysis that runs      *)
(* every rule over the whole document.                                     *)
(*                                                                         *)
(* Rules are not interpreted: what a rule reports is everything it was     *)
(* allowed to read, so two analyses agree only if their rules read the     *)
(* same.  A rule has nothing to report on quiet blocks and fails on a      *)
(* broken one.                                                             *)
(***************************************************************************)
EXTENDS Integers, Sequences, FiniteSets, SequencesExt

CONSTANTS
  Ids,          \* block ids
  Texts,        \* texts of blocks
  Metas,        \* metadata of blocks and of the document
  Quiet,        \* texts no rule reports
  Broken,       \* texts on which a block rule fails
  Size,         \* Size[t]: bytes of text t
  MaxBlocks,    \* MAX_BLOCKS
  MaxBlock,     \* MAX_BLOCK_BYTES
  MaxBytes,     \* MAX_DOCUMENT_BYTES
  Radii,        \* radii of the neighborhood rules
  Failed,       \* the error of a failing rule
  MaxRevision   \* last revision, u64::MAX in the code

ASSUME DocumentAssumption ==
  /\ IsFiniteSet(Ids) /\ Size \in [Texts -> Nat]
  /\ MaxBlocks \in Nat /\ MaxBlock \in Nat /\ MaxBytes \in Nat
  /\ Quiet \subseteq Texts /\ Broken \subseteq Texts
  /\ IsFiniteSet(Radii) /\ Radii \subseteq Nat \ {0}
  /\ MaxRevision \in Nat

Block == [id : Ids, text : Texts, meta : Metas]

IdsOf(blocks) == {blocks[i].id : i \in DOMAIN blocks}

DistinctIds(blocks) == Cardinality(IdsOf(blocks)) = Len(blocks)

BytesOf(blocks) ==
  FoldLeft(LAMBDA bytes, block : bytes + Size[block.text], 0, blocks)

TooLarge(text) == Size[text] > MaxBlock

(* Blocks that a caller can make: DocumentBlock::with_metadata             *)
NewBlock == {block \in Block : ~TooLarge(block.text)}

Valid(d) ==
  /\ Len(d.blocks) <= MaxBlocks /\ DistinctIds(d.blocks)
  /\ \A p \in DOMAIN d.blocks : ~TooLarge(d.blocks[p].text)
  /\ BytesOf(d.blocks) <= MaxBytes

Documents ==
  {d \in [blocks : UNION {[1..n -> Block] : n \in 0..MaxBlocks}, meta : Metas] : Valid(d)}

-----------------------------------------------------------------------------
(* Errors                                                                  *)

Errors ==
  [error : {"UnknownBlock", "ExistingBlock", "DuplicateBlockId", "BlockTooLarge"}, id : Ids]
    \cup [error : {"TooManyBlocks", "DocumentTooLarge"}]

Error(error, id) == [error |-> error, id |-> id]
TooManyBlocks == [error |-> "TooManyBlocks"]
DocumentTooLarge == [error |-> "DocumentTooLarge"]

(* What validate_blocks looks at, block by block.                          *)
Repeats(blocks, p) == \E q \in 1..(p - 1) : blocks[q].id = blocks[p].id

Faulty(blocks, p) ==
  \/ Repeats(blocks, p)
  \/ TooLarge(blocks[p].text)
  \/ BytesOf(SubSeq(blocks, 1, p)) > MaxBytes

FaultAt(blocks, p) ==
  IF Repeats(blocks, p) THEN Error("DuplicateBlockId", blocks[p].id)
  ELSE IF TooLarge(blocks[p].text) THEN Error("BlockTooLarge", blocks[p].id)
  ELSE DocumentTooLarge

(* validate_blocks: the first fault in the order of the blocks             *)
Validated(d) ==
  IF Valid(d) THEN d
  ELSE IF Len(d.blocks) > MaxBlocks THEN TooManyBlocks
  ELSE FaultAt(d.blocks, Min({p \in DOMAIN d.blocks : Faulty(d.blocks, p)}))

-----------------------------------------------------------------------------
(* Changes                                                                 *)

Head0 == "head"   \* InsertAfter without a predecessor

Change ==
  [kind : {"text"}, id : Ids, text : Texts]
    \cup [kind : {"meta"}, id : Ids, meta : Metas]
    \cup [kind : {"document"}, meta : Metas]
    \cup [kind : {"insert"}, after : Ids \cup {Head0}, block : NewBlock]
    \cup [kind : {"remove"}, id : Ids]

ChangesStructure(change) == change.kind \in {"insert", "remove"}

IndexOf(blocks, id) == SelectInSeq(blocks, LAMBDA block : block.id = id)

(* The position behind which a block is inserted, or none.                 *)
InsertionPoint(blocks, after) ==
  IF after = Head0 THEN {0} ELSE {i \in DOMAIN blocks : blocks[i].id = after}

(* One step of apply_changes; an error ends it.                            *)
ApplyChange(d, change) ==
  LET at == IF change.kind \in {"text", "meta", "remove"}
            THEN IndexOf(d.blocks, change.id) ELSE 0 IN
  IF d \in Errors THEN d
  ELSE IF change.kind \in {"text", "meta", "remove"} /\ at = 0
  THEN Error("UnknownBlock", change.id)
  ELSE
  CASE change.kind = "text" -> [d EXCEPT !.blocks[at].text = change.text]
    [] change.kind = "meta" -> [d EXCEPT !.blocks[at].meta = change.meta]
    [] change.kind = "remove" -> [d EXCEPT !.blocks = RemoveAt(@, at)]
    [] change.kind = "document" -> [d EXCEPT !.meta = change.meta]
    [] change.kind = "insert" ->
         IF change.block.id \in IdsOf(d.blocks)
         THEN Error("ExistingBlock", change.block.id)
         ELSE IF InsertionPoint(d.blocks, change.after) = {}
         THEN Error("UnknownBlock", change.after)
         ELSE LET i == CHOOSE i \in InsertionPoint(d.blocks, change.after) : TRUE IN
              [d EXCEPT !.blocks = InsertAt(@, i + 1, change.block)]

(* Document::apply_changes                                                 *)
ApplyChanges(d, changes) ==
  LET next == FoldLeft(ApplyChange, d, changes) IN
  IF next \in Errors THEN next ELSE Validated(next)

-----------------------------------------------------------------------------
(* Rules                                                                   *)

LargestOf(S) == CHOOSE n \in S : \A m \in S : m <= n

MaxRadius == IF Radii = {} THEN 0 ELSE LargestOf(Radii)

(* neighborhood_bounds, for positions from 1                               *)
Before(s, p, radius) == SubSeq(s, IF radius < p THEN p - radius ELSE 1, p - 1)
After(s, p, radius) ==
  SubSeq(s, p + 1, IF p + radius < Len(s) THEN p + radius ELSE Len(s))

Loud(block) == block.text \notin Quiet

(* run_block_rules and run_neighborhood_rules over the widest window, of   *)
(* which each neighborhood rule sees its own radius.                       *)
NeighborhoodFindings(before, block, after, r) ==
  LET seenBefore == Before(before, Len(before) + 1, r)
      seenAfter == After(after, 0, r) IN
  IF \E seen \in {block} \cup ToSet(seenBefore) \cup ToSet(seenAfter) : Loud(seen)
  THEN {[rule |-> r, before |-> seenBefore, block |-> block, after |-> seenAfter]}
  ELSE {}

BlockFindings(block) ==
  IF Loud(block)
  THEN {[rule |-> 0, before |-> <<>>, block |-> block, after |-> <<>>]} ELSE {}

RuleFindings(before, block, after) ==
  IF block.text \in Broken THEN Failed
  ELSE BlockFindings(block)
         \cup UNION {NeighborhoodFindings(before, block, after, r) : r \in Radii}

(* DocumentFacts, which is all a document rule reads                       *)
Facts(blocks, meta, counts) ==
  [blocks |-> [p \in DOMAIN blocks |->
                 [id |-> blocks[p].id, size |-> Size[blocks[p].text],
                  meta |-> blocks[p].meta, count |-> counts[p]]],
   meta |-> meta]

(* RuleEngine::analyze, without state                                      *)
BatchAnalysis(d) ==
  LET found == [p \in DOMAIN d.blocks |->
                  RuleFindings(Before(d.blocks, p, MaxRadius), d.blocks[p],
                               After(d.blocks, p, MaxRadius))] IN
  IF \E p \in DOMAIN found : found[p] = Failed THEN Failed
  ELSE [local |-> [p \in {p \in DOMAIN found : found[p] # {}} |-> found[p]],
        global |-> Facts(d.blocks, d.meta,
                         [p \in DOMAIN found |-> Cardinality(found[p])])]
=============================================================================
