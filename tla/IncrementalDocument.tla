------------------------ MODULE IncrementalDocument ------------------------
(***************************************************************************)
(* IncrementalDocumentSession of document-rules-core: one document kept    *)
(* four times over -- as blocks, as input slots of an incremental          *)
(* database, as records that link the slots of a neighborhood, and as a    *)
(* cache of findings by position -- and patched in two ways: in place when *)
(* no block comes or goes, rebuilt from the records otherwise.             *)
(*                                                                         *)
(* The database (salsa) is external: a tracked function returns what its   *)
(* body would compute from the inputs as they are.  Slots are never freed, *)
(* only the whole database is replaced.                                    *)
(***************************************************************************)
EXTENDS StructuredDocument

CONSTANTS
  Patches,      \* sequences of changes
  NoReport,     \* nothing was analyzed since the last patch
  MinRetired    \* MIN_RETIRED_RECORD_LIMIT

ASSUME IncrementalAssumption == MinRetired \in Nat /\ Patches \subseteq Seq(Change)

VARIABLES
  document,
  textBytes,      \* text_bytes, kept by differences
  revision,
  inputs,         \* every BlockInput slot of the database, live or retired
  records,        \* records by position: a slot and the slots around it
  inputMeta,      \* DocumentInput.metadata
  allocated,      \* allocated_record_count
  cache,          \* finding_cache
  report          \* the last snapshot, until the next patch

databaseVars == <<inputs, records, inputMeta, allocated>>
vars == <<document, textBytes, revision, databaseVars, cache, report>>

Abstract == INSTANCE DocumentAnalysis

-----------------------------------------------------------------------------
(* Records                                                                 *)

Live == DOMAIN records

BlockAt(p) == inputs[records[p].slot]

(* block(): the record of an id leads to a block that has it.              *)
Known(id) == \E p \in Live :
  BlockAt(p).id = id /\ p \in DOMAIN document.blocks /\ document.blocks[p].id = id

SlotOf(id) == records[CHOOSE p \in Live : BlockAt(p).id = id].slot

HasRecord(id) == \E p \in Live : BlockAt(p).id = id

(* neighborhood_inputs for every position of a sequence of slots           *)
Linked(slots) ==
  [p \in DOMAIN slots |-> [slot |-> slots[p],
                           before |-> Before(slots, p, MaxRadius),
                           after |-> After(slots, p, MaxRadius)]]

RetiredLimit(live) == IF live < MinRetired THEN MinRetired ELSE live

(* How many of the blocks up to position p have no record yet.             *)
InsertedUpTo(d, p) == Cardinality({q \in 1..p : ~HasRecord(d.blocks[q].id)})

Inserted(d) == InsertedUpTo(d, Len(d.blocks))

(* rebuild_database: a new generation, a slot for every block              *)
Rebuild(d) ==
  /\ inputs' = d.blocks
  /\ records' = Linked([p \in DOMAIN d.blocks |-> p])
  /\ allocated' = Len(d.blocks)

(* reconcile_inputs within a generation: known ids keep their slot and get *)
(* the new text and metadata, the others get a new slot, every link is     *)
(* renewed, and slots nobody refers to stay behind.                        *)
Reuse(d) ==
  LET slots == [p \in DOMAIN d.blocks |->
                  IF HasRecord(d.blocks[p].id) THEN SlotOf(d.blocks[p].id)
                  ELSE Len(inputs) + InsertedUpTo(d, p)]
      updated == [s \in 1..(Len(inputs) + Inserted(d)) |->
                    IF \E p \in DOMAIN slots : slots[p] = s
                    THEN d.blocks[CHOOSE p \in DOMAIN slots : slots[p] = s]
                    ELSE inputs[s]] IN
  /\ inputs' = updated /\ records' = Linked(slots)
  /\ allocated' = allocated + Inserted(d)

(* Slip: only the slots of this patch count against the budget.            *)
ReconcileInputsUncounted(d) ==
  /\ IF Inserted(d) > RetiredLimit(Len(d.blocks)) THEN Rebuild(d) ELSE Reuse(d)
  /\ inputMeta' = d.meta

ReconcileInputs(d) ==
  LET projected == allocated + Inserted(d) IN
  /\ IF projected - Len(d.blocks) > RetiredLimit(Len(d.blocks))
     THEN Rebuild(d) ELSE Reuse(d)
  /\ inputMeta' = d.meta

-----------------------------------------------------------------------------
(* The cache of findings                                                   *)

NoFindings == [p \in {} |-> {}]
ClearedCache == [initialized |-> FALSE, byPosition |-> NoFindings, dirty |-> {}]

(* invalidate_around for each updated position                             *)
InvalidatedAround(positions) ==
  IF ~cache.initialized THEN cache
  ELSE [cache EXCEPT !.dirty = @ \cup
         {q \in Live : \E p \in positions : q \in (p - MaxRadius)..(p + MaxRadius)}]

(* refresh_record                                                          *)
Refreshed(p) ==
  LET blocks(slots) == [i \in DOMAIN slots |-> inputs[slots[i]]] IN
  RuleFindings(blocks(records[p].before), BlockAt(p), blocks(records[p].after))

(* Positions that collect computes anew: all of them before the first      *)
(* success, after a structural patch, or when a dirty one is out of range. *)
CollectsAll == ~cache.initialized \/ ~(cache.dirty \subseteq Live)
ToRefresh == IF CollectsAll THEN Live ELSE cache.dirty

(* Slip: a refreshed position without findings keeps the old ones.         *)
MergedUnpruned ==
  LET kept == IF CollectsAll THEN {} ELSE DOMAIN cache.byPosition
      found == {p \in ToRefresh : Refreshed(p) # {}} IN
  [p \in kept \cup found |-> IF p \in found THEN Refreshed(p) ELSE cache.byPosition[p]]

(* merge_refreshed_findings                                                *)
Merged ==
  LET kept == IF CollectsAll THEN {} ELSE DOMAIN cache.byPosition \ ToRefresh
      found == {p \in ToRefresh : Refreshed(p) # {}} IN
  [p \in kept \cup found |-> IF p \in found THEN Refreshed(p) ELSE cache.byPosition[p]]

(* Slip: what could not be refreshed counts as refreshed.                  *)
CollectedForgetful ==
  IF \E p \in ToRefresh : Refreshed(p) = Failed THEN [cache EXCEPT !.dirty = {}]
  ELSE [initialized |-> TRUE, byPosition |-> Merged, dirty |-> {}]

(* FindingCache::collect; a failing rule leaves the cache as it was.       *)
Collected ==
  IF \E p \in ToRefresh : Refreshed(p) = Failed THEN cache
  ELSE [initialized |-> TRUE, byPosition |-> Merged, dirty |-> {}]

(* validate_span: a finding lies within its block as the document has it.  *)
Located(finding) == \E p \in Live :
  /\ BlockAt(p).id = finding.block.id
  /\ p \in DOMAIN document.blocks /\ document.blocks[p].id = finding.block.id
  /\ Size[finding.block.text] <= Size[document.blocks[p].text]

(* tracked_document_facts, from the inputs and never from the cache        *)
InputFacts ==
  Facts([p \in Live |-> BlockAt(p)], inputMeta,
        [p \in Live |-> Cardinality(Refreshed(p))])

Snapshot ==
  LET found == Merged IN
  IF \/ \E p \in Live : Refreshed(p) = Failed
     \/ \E p \in DOMAIN found : \E f \in found[p] : ~Located(f)
  THEN Failed
  ELSE [local |-> found, global |-> InputFacts]

-----------------------------------------------------------------------------
(* Patches                                                                 *)

Structural(changes) == \E i \in DOMAIN changes : ChangesStructure(changes[i])

(* Slip: the first change of a field wins.                                 *)
FoldedFirst(block, changes) ==
  LET text == SelectInSeq(changes, LAMBDA c : c.kind = "text" /\ c.id = block.id)
      meta == SelectInSeq(changes, LAMBDA c : c.kind = "meta" /\ c.id = block.id) IN
  [block EXCEPT !.text = IF text = 0 THEN @ ELSE changes[text].text,
                !.meta = IF meta = 0 THEN @ ELSE changes[meta].meta]

(* fold_pending_mutations: the last change of each field wins.             *)
Folded(block, changes) ==
  LET text == SelectLastInSeq(changes, LAMBDA c : c.kind = "text" /\ c.id = block.id)
      meta == SelectLastInSeq(changes, LAMBDA c : c.kind = "meta" /\ c.id = block.id) IN
  [block EXCEPT !.text = IF text = 0 THEN @ ELSE changes[text].text,
                !.meta = IF meta = 0 THEN @ ELSE changes[meta].meta]

(* prepare_non_structural_patch                                            *)
Prepared(changes) ==
  LET meta == SelectLastInSeq(changes, LAMBDA c : c.kind = "document") IN
  [blocks |-> [p \in DOMAIN document.blocks |-> Folded(document.blocks[p], changes)],
   meta |-> IF meta = 0 THEN document.meta ELSE changes[meta].meta]

Updates(changes) ==
  LET next == Prepared(changes).blocks IN
  {p \in DOMAIN document.blocks : next[p] # document.blocks[p]}

(* Slip: the replaced text still counts.                                   *)
BytesAfterAdded(changes) ==
  LET next == Prepared(changes).blocks IN
  FoldLeft(LAMBDA bytes, p : bytes + IF next[p].text = document.blocks[p].text THEN 0
                                     ELSE Size[next[p].text],
           textBytes, [p \in DOMAIN next |-> p])

BytesAfter(changes) ==
  LET next == Prepared(changes).blocks IN
  FoldLeft(LAMBDA bytes, p : bytes + (Size[next[p].text] - Size[document.blocks[p].text]),
           textBytes, [p \in DOMAIN next |-> p])

(* The changes of blocks that are not there, and the blocks whose new text *)
(* is too large.                                                           *)
Unknown(changes) ==
  {i \in DOMAIN changes : changes[i].kind # "document" /\ ~Known(changes[i].id)}

Oversized(changes) ==
  LET next == Prepared(changes).blocks IN
  {p \in DOMAIN document.blocks :
     next[p].text # document.blocks[p].text /\ TooLarge(next[p].text)}

(* Slip: the text of a block is not checked by itself.                     *)
InPlaceUnsized(changes) ==
  IF Unknown(changes) # {} THEN Error("UnknownBlock", changes[Min(Unknown(changes))].id)
  ELSE IF BytesAfter(changes) > MaxBytes THEN DocumentTooLarge
  ELSE Prepared(changes)

InPlace(changes) ==
  IF Unknown(changes) # {} THEN Error("UnknownBlock", changes[Min(Unknown(changes))].id)
  ELSE IF Oversized(changes) # {}
  THEN Error("BlockTooLarge", document.blocks[Min(Oversized(changes))].id)
  ELSE IF BytesAfter(changes) > MaxBytes THEN DocumentTooLarge
  ELSE Prepared(changes)

(* apply_non_structural_patch                                              *)
PatchInPlace(expected, changes) ==
  /\ expected = revision /\ revision < MaxRevision
  /\ ~Structural(changes)
  /\ InPlace(changes) \notin Errors \cup {document}
  /\ document' = InPlace(changes)
  /\ LET updated == {records[p].slot : p \in Updates(changes)} IN
     inputs' = [s \in DOMAIN inputs |->
                  IF s \in updated THEN Folded(inputs[s], changes) ELSE inputs[s]]
  /\ cache' = InvalidatedAround(Updates(changes))
  /\ inputMeta' = document'.meta
  /\ textBytes' = BytesAfter(changes)
  /\ revision' = revision + 1
  /\ report' = NoReport
  /\ UNCHANGED <<records, allocated>>

(* apply_structural_patch                                                  *)
PatchStructure(expected, changes) ==
  LET next == ApplyChanges(document, changes) IN
  /\ expected = revision /\ revision < MaxRevision
  /\ Structural(changes)
  /\ next \notin Errors \cup {document}
  /\ ReconcileInputs(next)
  /\ cache' = ClearedCache
  /\ textBytes' = BytesOf(next.blocks)
  /\ document' = next
  /\ revision' = revision + 1
  /\ report' = NoReport

(* apply_patch with an error, or with nothing to do                        *)
Effective(expected, changes) ==
  /\ expected = revision /\ revision < MaxRevision
  /\ (IF Structural(changes) THEN ApplyChanges(document, changes) ELSE InPlace(changes))
       \notin Errors \cup {document}

RefusePatch ==
  /\ ~ \A expected \in 0..MaxRevision, changes \in Patches :
         Effective(expected, changes)
  /\ UNCHANGED vars

(* analyze                                                                 *)
Analyze ==
  /\ cache' = Collected
  /\ report' = [revision |-> revision, findings |-> Snapshot]
  /\ UNCHANGED <<document, textBytes, revision, databaseVars>>

(* new                                                                     *)
Init ==
  /\ document \in Documents
  /\ textBytes = BytesOf(document.blocks)
  /\ revision = 0
  /\ inputs = document.blocks
  /\ records = Linked([p \in DOMAIN document.blocks |-> p])
  /\ inputMeta = document.meta
  /\ allocated = Len(document.blocks)
  /\ cache = ClearedCache
  /\ report = NoReport

Next ==
  \/ \E expected \in 0..MaxRevision, changes \in Patches :
       PatchInPlace(expected, changes) \/ PatchStructure(expected, changes)
  \/ RefusePatch
  \/ Analyze

Spec == Init /\ [][Next]_vars

-----------------------------------------------------------------------------
(* Properties                                                              *)

(* Types, and the four copies of the document agree: each record's slot    *)
(* holds the block at its position and its links the slots around it, and  *)
(* the byte count kept by differences is the real one.  However long       *)
(* blocks come and go, the database retains at most retired_record_limit   *)
(* slots that no block uses.                                               *)
RecordsMatchDocument ==
  /\ document \in Documents
  /\ textBytes = BytesOf(document.blocks)
  /\ revision \in 0..MaxRevision
  /\ inputs \in Seq(Block) /\ inputMeta = document.meta
  /\ DOMAIN records = DOMAIN document.blocks
  /\ \A p \in Live : BlockAt(p) = document.blocks[p]
  /\ records = Linked([p \in Live |-> records[p].slot])
  /\ Len(inputs) - Len(records) <= RetiredLimit(Len(records))
  /\ cache.initialized \in BOOLEAN
  /\ cache.dirty \subseteq Live /\ DOMAIN cache.byPosition \subseteq Live

(* Whatever sequence of patches, structural or not, and of analyses that   *)
(* fail or succeed came before: what the cache would serve without looking *)
(* again is what the rules would find now in the whole document.           *)
CacheHoldsCurrentFindings ==
  cache.initialized =>
    \A p \in Live \ cache.dirty :
      LET now == RuleFindings(Before(document.blocks, p, MaxRadius),
                              document.blocks[p],
                              After(document.blocks, p, MaxRadius)) IN
      IF p \in DOMAIN cache.byPosition THEN cache.byPosition[p] = now ELSE now = {}

(* A patch that moves no block has the same outcome in place -- folded by  *)
(* field, located by record, its bytes counted by difference -- as change  *)
(* by change on a copy of the document: the same document or the same      *)
(* error.  With one exception: when a block gets too large and the blocks  *)
(* before it already exceed the document's limit, the whole document       *)
(* reports its own limit, which comes first, and in place the block's.     *)
PatchedInPlaceAsWhole ==
  \A changes \in Patches : ~Structural(changes) =>
    \/ InPlace(changes) = ApplyChanges(document, changes)
    \/ /\ ApplyChanges(document, changes) = DocumentTooLarge
       /\ \E p \in Oversized(changes) :
            InPlace(changes) = Error("BlockTooLarge", document.blocks[p].id)

(* The session is indistinguishable from one that applies each patch whole *)
(* and analyzes the whole document from nothing each time.                 *)
ImplementsAnalysis == Abstract!Spec
=============================================================================
