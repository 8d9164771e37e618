------------------------ MODULE IncrementalDocumentProofs ------------------------
(***************************************************************************)
(* Proofs about incremental document analysis, for every set of blocks,    *)
(* texts, patches and rules the assumptions admit and for documents of any *)
(* length: the copies of the document a session keeps agree, its cache     *)
(* never offers a finding a whole analysis would not make, a patch in      *)
(* place is the whole patch, and the session implements DocumentAnalysis.  *)
(*                                                                         *)
(* First come the operators: what the folds over blocks and changes return *)
(* (each by an induction over the prefixes of the list, with the facts of  *)
(* Induction), and that the instance of DocumentAnalysis has the same      *)
(* operators.  Then the three parts of the invariant, one after the other: *)
(* the document, the records, the cache.                                   *)
(***************************************************************************)
EXTENDS IncrementalDocument, Induction, SequenceTheorems


(* What a patch works on: a document before its blocks are validated.      *)
Drafts == [blocks : Seq(Block), meta : Metas]

(* No document is an error.                                                *)
LEMMA DraftNotError == \A d \in Drafts : d \notin Errors
BY DEF Drafts, Errors

(* What an error names is a block id.                                      *)
LEMMA ErrorTypes ==
  /\ \A id \in Ids : /\ Error("UnknownBlock", id) \in Errors
                     /\ Error("ExistingBlock", id) \in Errors
                     /\ Error("DuplicateBlockId", id) \in Errors
                     /\ Error("BlockTooLarge", id) \in Errors
  /\ TooManyBlocks \in Errors /\ DocumentTooLarge \in Errors
BY DEF Error, TooManyBlocks, DocumentTooLarge, Errors

(* A list of blocks from positions: what IsASeq says, without an operator. *)
LEMMA FunctionIsSeq ==
  ASSUME NEW S, NEW n \in Nat, NEW f \in [1..n -> S]
  PROVE  f \in Seq(S) /\ Len(f) = n
OBVIOUS

(* Distinct ids: no two blocks share one, and there are no more blocks     *)
(* than ids.                                                               *)
LEMMA DistinctIdsInjective ==
  ASSUME NEW blocks \in Seq(Block)
  PROVE  /\ DistinctIds(blocks) <=>
              \A i, j \in DOMAIN blocks : blocks[i].id = blocks[j].id => i = j
         /\ DistinctIds(blocks) => Len(blocks) <= Cardinality(Ids)
<1> DEFINE N == Len(blocks)
           f == [i \in 1..N |-> blocks[i].id]
<1>1. N \in Nat /\ DOMAIN blocks = 1..N /\ blocks \in [1..N -> Block]
  BY LenProperties
<1>2. f \in [1..N -> IdsOf(blocks)] /\ IdsOf(blocks) = {f[i] : i \in 1..N}
  BY <1>1 DEF IdsOf
<1>3. f \in Surjection(1..N, IdsOf(blocks))
  <2> HIDE DEF f, N
  <2>1. \A t \in IdsOf(blocks) : \E s \in 1..N : f[s] = t
    BY <1>2
  <2> QED
    BY <1>2, <2>1 DEF Surjection
<1>4. IsFiniteSet(1..N) /\ Cardinality(1..N) = N
  BY <1>1, FS_Interval
<1>5. Cardinality(IdsOf(blocks)) = N <=> f \in Injection(1..N, IdsOf(blocks))
  <2> HIDE DEF f, N
  <2> QED
    BY <1>3, <1>4, FS_Surjection
<1>6. f \in Injection(1..N, IdsOf(blocks)) <=>
        \A i, j \in DOMAIN blocks : blocks[i].id = blocks[j].id => i = j
  <2>1. f \in Injection(1..N, IdsOf(blocks)) <=>
          \A i, j \in 1..N : f[i] = f[j] => i = j
    <3> HIDE DEF f, N
    <3> QED
      BY <1>2 DEF Injection, IsInjective
  <2> QED
    BY <1>1, <2>1
<1>7. Cardinality(IdsOf(blocks)) <= Cardinality(Ids)
  <2>1. IdsOf(blocks) \in SUBSET Ids
    BY <1>1 DEF IdsOf, Block
  <2> QED
    BY <2>1, FS_Subset, DocumentAssumption
<1> QED
  BY <1>5, <1>6, <1>7 DEF DistinctIds

(* A document is a draft whose blocks are valid.                           *)
LEMMA DocumentsAreValidDrafts == Documents = {d \in Drafts : Valid(d)}
<1>1. ASSUME NEW d \in Documents
      PROVE  d \in Drafts /\ Valid(d)
  <2>1. /\ d \in [blocks : UNION {[1..n -> Block] : n \in 0..MaxBlocks}, meta : Metas]
        /\ Valid(d)
    BY DEF Documents
  <2>2. PICK n \in 0..MaxBlocks : d.blocks \in [1..n -> Block]
    BY <2>1
  <2>3. d.blocks \in Seq(Block)
    BY <2>2, FunctionIsSeq, DocumentAssumption
  <2>4. d = [blocks |-> d.blocks, meta |-> d.meta] /\ d.meta \in Metas
    BY <2>1
  <2> QED
    BY <2>1, <2>3, <2>4 DEF Drafts
<1>2. ASSUME NEW d \in Drafts, Valid(d)
      PROVE  d \in Documents
  <2>1. d.blocks \in Seq(Block) /\ d = [blocks |-> d.blocks, meta |-> d.meta] /\ d.meta \in Metas
    BY DEF Drafts
  <2>2. Len(d.blocks) <= MaxBlocks /\ MaxBlocks \in Nat
    BY <1>2, DocumentAssumption DEF Valid
  <2>3. Len(d.blocks) \in Nat /\ d.blocks \in [1..Len(d.blocks) -> Block]
    BY <2>1, LenProperties
  <2>4. Len(d.blocks) \in 0..MaxBlocks
    BY <2>2, <2>3
  <2> QED
    BY <1>2, <2>1, <2>3, <2>4 DEF Documents
<1> QED
  BY <1>1, <1>2

(* The size of a document is a running sum over its blocks.                *)
SumsTo(g, blocks) ==
  /\ g[0] = 0 /\ g[Len(blocks)] = BytesOf(blocks)
  /\ \A k \in 0..Len(blocks) : g[k] \in Nat
  /\ \A k \in 0..(Len(blocks) - 1) : g[k + 1] = g[k] + Size[blocks[k + 1].text]

(* What the fold of BytesOf passes through: one sum per prefix.            *)
LEMMA BytesOfPrefixes ==
  ASSUME NEW blocks \in Seq(Block)
  PROVE  \E g : SumsTo(g, blocks)
<1> DEFINE N == Len(blocks)
           Def(iter, s) == IF s = {} THEN 0 ELSE iter[s \ {Max(s)}] + Size[blocks[Max(s)].text]
           F == [x \in (1..N) \X Nat |-> x[2] + Size[blocks[x[1]].text]]
           It == CHOOSE iter : iter = [s \in SUBSET (1..N) |-> Def(iter, s)]
<1>1. N \in Nat /\ DOMAIN blocks = 1..N /\ blocks \in [1..N -> Block]
  BY LenProperties
<1>2. \A p \in 1..N : Size[blocks[p].text] \in Nat
  <2>1. \A p \in 1..N : blocks[p].text \in Texts
    BY <1>1 DEF Block
  <2> QED
    BY <2>1, DocumentAssumption
<1>3. F \in [(1..N) \X Nat -> Nat]
  BY <1>2
<1>4. PICK iter \in [SUBSET (1..N) -> Nat] : FoldsTo(iter, N, 0, F)
  <2> HIDE DEF F, N
  <2> QED
    BY <1>1, <1>3, FoldExists DEF HasFold
<1>5. BytesOf(blocks) = It[1..N]
  BY <1>1 DEF BytesOf, FoldLeft, MapThenFoldSet
<1>6. ASSUME NEW s \in SUBSET (1..N), s # {}
      PROVE  Max(s) \in s
  <2>1. s \in SUBSET (0..N)
    OBVIOUS
  <2> QED
    BY <1>1, <1>6, <2>1, MaxUpTo
<1>7. iter = [s \in SUBSET (1..N) |-> Def(iter, s)]
  <2>1. ASSUME NEW s \in SUBSET (1..N)
        PROVE  iter[s] = Def(iter, s)
    <3>1. CASE s = {}
      BY <1>4, <3>1 DEF FoldsTo
    <3>2. CASE s # {}
      <4>1. Max(s) \in 1..N /\ s \ {Max(s)} \in SUBSET (1..N)
        BY <1>1, <1>6, <3>2
      <4>2. iter[s \ {Max(s)}] \in Nat
        BY <1>4, <4>1
      <4>3. iter[s] = F[<<Max(s), iter[s \ {Max(s)}]>>]
        BY <1>4, <3>2 DEF FoldsTo
      <4> HIDE DEF N
      <4> QED
        BY <3>2, <4>1, <4>2, <4>3
    <3> QED
      BY <3>1, <3>2
  <2> HIDE DEF Def
  <2> QED
    BY <1>4, <2>1
<1>8. It = [s \in SUBSET (1..N) |-> Def(It, s)]
  <2> HIDE DEF Def
  <2> QED
    BY <1>7
<1> DEFINE g == [k \in 0..N |-> It[1..k]]
<1>9. g[0] = 0
  <2>1. 1..0 \in SUBSET (1..N) /\ 1..0 = {} /\ g[0] = It[1..0]
    BY <1>1
  <2> HIDE DEF It, g
  <2> QED
    BY <1>8, <2>1, Zenon
<1>10. ASSUME NEW k \in 0..(N - 1)
       PROVE  g[k + 1] = g[k] + Size[blocks[k + 1].text]
  <2>1. /\ 1..(k + 1) \in SUBSET (1..N) /\ k \in Nat
        /\ g[k] = It[1..k] /\ g[k + 1] = It[1..(k + 1)]
    BY <1>1
  <2>2. /\ 1..(k + 1) # {} /\ Max(1..(k + 1)) = k + 1
        /\ 1..(k + 1) \ {k + 1} = 1..k
    BY <2>1, IntervalsGrow
  <2> HIDE DEF It, g
  <2>3. It[1..(k + 1)] = Def(It, 1..(k + 1))
    BY <1>8, <2>1, Zenon
  <2> QED
    BY <2>1, <2>2, <2>3, Zenon
<1>11. \A k \in 0..N : g[k] \in Nat
  <2> DEFINE T == {k \in 0..N : g[k] \in Nat}
  <2> HIDE DEF It, g, N
  <2>1. 0 \in T /\ \A k \in 0..(N - 1) : k \in T => k + 1 \in T
    <3>1. 0 \in T
      BY <1>1, <1>9
    <3>2. ASSUME NEW k \in 0..(N - 1), k \in T
          PROVE  k + 1 \in T
      <4>1. k + 1 \in 1..N /\ k + 1 \in 0..N
        BY <1>1
      <4> QED
        BY <1>2, <1>10, <3>2, <4>1
    <3> QED
      BY <3>1, <3>2
  <2>2. 0..N \subseteq T
    <3> HIDE DEF T
    <3> QED
      BY <1>1, <2>1, InductionUpTo
  <2> QED
    BY <2>2
<1>12. g[N] = BytesOf(blocks)
  <2>1. g[N] = It[1..N]
    BY <1>1
  <2> QED
    BY <1>5, <2>1
<1>13. SumsTo(g, blocks)
  <2> HIDE DEF g
  <2> QED
    BY <1>9, <1>10, <1>11, <1>12 DEF SumsTo
<1> QED
  BY <1>13

(* The position of a block by its id.                                      *)
LEMMA IndexOfBlock ==
  ASSUME NEW blocks \in Seq(Block), NEW id
  PROVE  /\ id \in IdsOf(blocks) =>
              IndexOf(blocks, id) \in 1..Len(blocks) /\ blocks[IndexOf(blocks, id)].id = id
         /\ id \notin IdsOf(blocks) => IndexOf(blocks, id) = 0
<1> DEFINE I == {i \in 1..Len(blocks) : blocks[i].id = id}
<1>1. Len(blocks) \in Nat /\ DOMAIN blocks = 1..Len(blocks)
  BY LenProperties
<1>2. IndexOf(blocks, id) = IF I # {} THEN Min(I) ELSE 0
  BY DEF IndexOf, SelectInSeq
<1>3. id \in IdsOf(blocks) <=> I # {}
  BY <1>1 DEF IdsOf
<1>4. I # {} => Min(I) \in I
  <2>1. I \in SUBSET Nat
    OBVIOUS
  <2> HIDE DEF I
  <2> QED
    BY <2>1, MinOfNat
<1> QED
  BY <1>2, <1>3, <1>4

(* Blocks stay blocks where one comes or goes.                             *)
LEMMA InsertAtIsSeq ==
  ASSUME NEW blocks \in Seq(Block), NEW b \in Block, NEW i \in 0..Len(blocks)
  PROVE  InsertAt(blocks, i + 1, b) \in Seq(Block)
<1>1. Len(blocks) \in Nat /\ \A j \in 1..Len(blocks) : blocks[j] \in Block
  BY LenProperties, ElementOfSeq
<1>2. SubSeq(blocks, 1, (i + 1) - 1) \in Seq(Block)
  <2>1. 1 \in Int /\ (i + 1) - 1 \in Int /\ \A j \in 1..((i + 1) - 1) : blocks[j] \in Block
    BY <1>1
  <2> QED
    BY <2>1, SubSeqProperties
<1>3. SubSeq(blocks, i + 1, Len(blocks)) \in Seq(Block)
  <2>1. i + 1 \in Int /\ Len(blocks) \in Int /\ \A j \in (i + 1)..Len(blocks) : blocks[j] \in Block
    BY <1>1
  <2> QED
    BY <2>1, SubSeqProperties
<1>4. <<b>> \in Seq(Block)
  OBVIOUS
<1>5. SubSeq(blocks, 1, (i + 1) - 1) \o <<b>> \in Seq(Block)
  BY <1>2, <1>4, ConcatProperties
<1> QED
  BY <1>3, <1>5, ConcatProperties DEF InsertAt

(* Removing a block from a list leaves a list of blocks.                   *)
LEMMA RemoveAtIsSeq ==
  ASSUME NEW blocks \in Seq(Block), NEW i \in 1..Len(blocks)
  PROVE  RemoveAt(blocks, i) \in Seq(Block)
<1>1. Len(blocks) \in Nat /\ \A j \in 1..Len(blocks) : blocks[j] \in Block
  BY LenProperties, ElementOfSeq
<1>2. SubSeq(blocks, 1, i - 1) \in Seq(Block)
  <2>1. 1 \in Int /\ i - 1 \in Int /\ \A j \in 1..(i - 1) : blocks[j] \in Block
    BY <1>1
  <2> QED
    BY <2>1, SubSeqProperties
<1>3. SubSeq(blocks, i + 1, Len(blocks)) \in Seq(Block)
  <2>1. i + 1 \in Int /\ Len(blocks) \in Int /\ \A j \in (i + 1)..Len(blocks) : blocks[j] \in Block
    BY <1>1
  <2> QED
    BY <2>1, SubSeqProperties
<1> QED
  BY <1>2, <1>3, ConcatProperties DEF RemoveAt

(* A change makes a draft of a draft, or an error.                         *)
LEMMA ApplyChangeType ==
  ASSUME NEW d \in Drafts \cup Errors, NEW change \in Change
  PROVE  ApplyChange(d, change) \in Drafts \cup Errors
<1> DEFINE at == IndexOf(d.blocks, change.id)
           P == InsertionPoint(d.blocks, change.after)
<1>1. d \in Errors => ApplyChange(d, change) \in Errors
  BY DEF ApplyChange
<1>2. CASE d \notin Errors /\ change.kind \in {"text", "meta", "remove"} /\ at = 0
  <2>1. change.id \in Ids
    BY <1>2 DEF Change
  <2>2. ApplyChange(d, change) = Error("UnknownBlock", change.id)
    BY <1>2 DEF ApplyChange
  <2> QED
    BY <2>1, <2>2, ErrorTypes
<1>3. CASE d \notin Errors /\ change.kind = "insert" /\ change.block.id \in IdsOf(d.blocks)
  <2>1. change.block.id \in Ids
    BY <1>3 DEF Change, NewBlock, Block
  <2>2. ApplyChange(d, change) = Error("ExistingBlock", change.block.id)
    BY <1>3 DEF ApplyChange
  <2> QED
    BY <2>1, <2>2, ErrorTypes
<1>4. CASE /\ d \notin Errors /\ change.kind = "insert"
           /\ change.block.id \notin IdsOf(d.blocks) /\ P = {}
  <2>1. change.after \in Ids
    <3>1. change.after # Head0
      BY <1>4 DEF InsertionPoint
    <3> QED
      BY <1>4, <3>1 DEF Change
  <2>2. ApplyChange(d, change) = Error("UnknownBlock", change.after)
    BY <1>4 DEF ApplyChange
  <2> QED
    BY <2>1, <2>2, ErrorTypes
<1> SUFFICES ASSUME d \notin Errors,
                    ~ (change.kind \in {"text", "meta", "remove"} /\ at = 0),
                    ~ (change.kind = "insert" /\ change.block.id \in IdsOf(d.blocks)),
                    ~ (/\ change.kind = "insert" /\ change.block.id \notin IdsOf(d.blocks)
                       /\ P = {})
             PROVE  ApplyChange(d, change) \in Drafts
  BY <1>1, <1>2, <1>3, <1>4
<1>5. /\ d \in Drafts /\ d.blocks \in Seq(Block) /\ d.meta \in Metas
      /\ d = [blocks |-> d.blocks, meta |-> d.meta]
  BY DEF Drafts
<1>6. Len(d.blocks) \in Nat /\ \A j \in 1..Len(d.blocks) : d.blocks[j] \in Block
  BY <1>5, LenProperties, ElementOfSeq
<1>7. ASSUME change.kind \in {"text", "meta", "remove"}
      PROVE  at \in 1..Len(d.blocks)
  <2>1. at # 0
    BY <1>7
  <2> QED
    BY <1>5, <2>1, IndexOfBlock
<1>8. CASE change.kind = "text"
  <2>1. at \in 1..Len(d.blocks)
    BY <1>7, <1>8
  <2>2. change.text \in Texts
    BY <1>8 DEF Change
  <2> DEFINE b == [d.blocks[at] EXCEPT !.text = change.text]
  <2>3. b \in Block
    BY <1>6, <2>1, <2>2 DEF Block
  <2>4. [d.blocks EXCEPT ![at] = b] \in Seq(Block)
    <3> HIDE DEF b, at
    <3> QED
      BY <1>5, <2>1, <2>3, ExceptSeq
  <2>5. ApplyChange(d, change) = [d EXCEPT !.blocks = [d.blocks EXCEPT ![at] = b]]
    <3>1. ApplyChange(d, change) = [d EXCEPT !.blocks[at].text = change.text]
      BY <1>8, <2>1, <1>6 DEF ApplyChange
    <3> QED
      BY <1>5, <3>1
  <2> HIDE DEF b, at
  <2> QED
    BY <1>5, <2>4, <2>5 DEF Drafts
<1>9. CASE change.kind = "meta"
  <2>1. at \in 1..Len(d.blocks)
    BY <1>7, <1>9
  <2>2. change.meta \in Metas
    BY <1>9 DEF Change
  <2> DEFINE b == [d.blocks[at] EXCEPT !.meta = change.meta]
  <2>3. b \in Block
    BY <1>6, <2>1, <2>2 DEF Block
  <2>4. [d.blocks EXCEPT ![at] = b] \in Seq(Block)
    <3> HIDE DEF b, at
    <3> QED
      BY <1>5, <2>1, <2>3, ExceptSeq
  <2>5. ApplyChange(d, change) = [d EXCEPT !.blocks = [d.blocks EXCEPT ![at] = b]]
    <3>1. ApplyChange(d, change) = [d EXCEPT !.blocks[at].meta = change.meta]
      BY <1>9, <2>1, <1>6 DEF ApplyChange
    <3> QED
      BY <1>5, <3>1
  <2> HIDE DEF b, at
  <2> QED
    BY <1>5, <2>4, <2>5 DEF Drafts
<1>10. CASE change.kind = "remove"
  <2>1. at \in 1..Len(d.blocks)
    BY <1>7, <1>10
  <2>2. ApplyChange(d, change) = [d EXCEPT !.blocks = RemoveAt(d.blocks, at)]
    BY <1>10, <2>1, <1>6 DEF ApplyChange
  <2>3. RemoveAt(d.blocks, at) \in Seq(Block)
    BY <1>5, <2>1, RemoveAtIsSeq
  <2> HIDE DEF at
  <2> QED
    BY <1>5, <2>2, <2>3 DEF Drafts
<1>11. CASE change.kind = "document"
  <2>1. change.meta \in Metas
    BY <1>11 DEF Change
  <2>2. ApplyChange(d, change) = [d EXCEPT !.meta = change.meta]
    BY <1>11 DEF ApplyChange
  <2> QED
    BY <1>5, <2>1, <2>2 DEF Drafts
<1>12. CASE change.kind = "insert"
  <2> DEFINE i == CHOOSE i \in P : TRUE
  <2>1. P # {} /\ ApplyChange(d, change) =
                    [d EXCEPT !.blocks = InsertAt(d.blocks, i + 1, change.block)]
    BY <1>12 DEF ApplyChange
  <2>2. i \in 0..Len(d.blocks)
    <3>1. P \subseteq 0..Len(d.blocks)
      BY <1>5, <1>6, LenProperties DEF InsertionPoint
    <3> HIDE DEF P
    <3> QED
      BY <2>1, <3>1
  <2>3. change.block \in Block
    BY <1>12 DEF Change, NewBlock
  <2>4. InsertAt(d.blocks, i + 1, change.block) \in Seq(Block)
    <3> HIDE DEF i
    <3> QED
      BY <1>5, <2>2, <2>3, InsertAtIsSeq
  <2> HIDE DEF i
  <2> QED
    BY <1>5, <2>1, <2>4 DEF Drafts
<1> QED
  BY <1>8, <1>9, <1>10, <1>11, <1>12 DEF Change

(* A patch is applied change by change.                                    *)
AppliesTo(g, d, changes) ==
  /\ g[0] = d
  /\ ApplyChanges(d, changes) =
       IF g[Len(changes)] \in Errors THEN g[Len(changes)] ELSE Validated(g[Len(changes)])
  /\ \A k \in 0..Len(changes) : g[k] \in Drafts \cup Errors
  /\ \A k \in 0..(Len(changes) - 1) : g[k + 1] = ApplyChange(g[k], changes[k + 1])

(* What the fold of ApplyChanges passes through: one draft or the error    *)
(* per prefix of the patch.                                                *)
LEMMA ApplyChangesPrefixes ==
  ASSUME NEW d \in Drafts, NEW changes \in Seq(Change)
  PROVE  \E g : AppliesTo(g, d, changes)
<1> DEFINE N == Len(changes)
           V == Drafts \cup Errors
           Def(iter, s) ==
             IF s = {} THEN d ELSE ApplyChange(iter[s \ {Max(s)}], changes[Max(s)])
           F == [x \in (1..N) \X V |-> ApplyChange(x[2], changes[x[1]])]
           It == CHOOSE iter : iter = [s \in SUBSET (1..N) |-> Def(iter, s)]
<1>1. N \in Nat /\ DOMAIN changes = 1..N /\ \A i \in 1..N : changes[i] \in Change
  BY LenProperties, ElementOfSeq
<1>2. \A v \in V, i \in 1..N : ApplyChange(v, changes[i]) \in V
  BY <1>1, ApplyChangeType
<1>3. F \in [(1..N) \X V -> V]
  <2> HIDE DEF V, N
  <2> QED
    BY <1>2
<1>4. PICK iter \in [SUBSET (1..N) -> V] : FoldsTo(iter, N, d, F)
  <2>1. d \in V
    OBVIOUS
  <2> HIDE DEF F, N, V
  <2> QED
    BY <1>1, <1>3, <2>1, FoldExists DEF HasFold
<1>5. ApplyChanges(d, changes) =
        IF It[1..N] \in Errors THEN It[1..N] ELSE Validated(It[1..N])
  BY <1>1 DEF ApplyChanges, FoldLeft, MapThenFoldSet
<1>6. ASSUME NEW s \in SUBSET (1..N), s # {}
      PROVE  Max(s) \in s
  <2>1. s \in SUBSET (0..N)
    OBVIOUS
  <2> QED
    BY <1>1, <1>6, <2>1, MaxUpTo
<1>7. iter = [s \in SUBSET (1..N) |-> Def(iter, s)]
  <2>1. ASSUME NEW s \in SUBSET (1..N)
        PROVE  iter[s] = Def(iter, s)
    <3>1. CASE s = {}
      BY <1>4, <3>1 DEF FoldsTo
    <3>2. CASE s # {}
      <4>1. Max(s) \in 1..N /\ s \ {Max(s)} \in SUBSET (1..N)
        BY <1>1, <1>6, <3>2
      <4> HIDE DEF N, V
      <4>2. iter[s \ {Max(s)}] \in V
        BY <1>4, <4>1
      <4>3. iter[s] = F[<<Max(s), iter[s \ {Max(s)}]>>]
        <5> HIDE DEF F
        <5> QED
          BY <1>4, <3>2 DEF FoldsTo
      <4> QED
        BY <3>2, <4>1, <4>2, <4>3
    <3> QED
      BY <3>1, <3>2
  <2> HIDE DEF Def, V
  <2> QED
    BY <1>4, <2>1
<1>8. It = [s \in SUBSET (1..N) |-> Def(It, s)]
  <2> HIDE DEF Def
  <2> QED
    BY <1>7
<1> DEFINE g == [k \in 0..N |-> It[1..k]]
<1>9. g[0] = d
  <2>1. 1..0 \in SUBSET (1..N) /\ 1..0 = {} /\ g[0] = It[1..0]
    BY <1>1
  <2> HIDE DEF It, g
  <2> QED
    BY <1>8, <2>1, Zenon
<1>10. ASSUME NEW k \in 0..(N - 1)
       PROVE  g[k + 1] = ApplyChange(g[k], changes[k + 1])
  <2>1. /\ 1..(k + 1) \in SUBSET (1..N) /\ k \in Nat
        /\ g[k] = It[1..k] /\ g[k + 1] = It[1..(k + 1)]
    BY <1>1
  <2>2. /\ 1..(k + 1) # {} /\ Max(1..(k + 1)) = k + 1
        /\ 1..(k + 1) \ {k + 1} = 1..k
    BY <2>1, IntervalsGrow
  <2> HIDE DEF It, g
  <2>3. It[1..(k + 1)] = Def(It, 1..(k + 1))
    BY <1>8, <2>1, Zenon
  <2> QED
    BY <2>1, <2>2, <2>3, Zenon
<1>11. \A k \in 0..N : g[k] \in V
  <2> DEFINE T == {k \in 0..N : g[k] \in V}
  <2> HIDE DEF It, g, N
  <2>1. 0 \in T /\ \A k \in 0..(N - 1) : k \in T => k + 1 \in T
    <3>1. 0 \in T
      BY <1>1, <1>9
    <3>2. ASSUME NEW k \in 0..(N - 1), k \in T
          PROVE  k + 1 \in T
      <4>1. k + 1 \in 1..N /\ k + 1 \in 0..N
        BY <1>1
      <4> HIDE DEF V
      <4> QED
        BY <1>2, <1>10, <3>2, <4>1
    <3> QED
      BY <3>1, <3>2
  <2>2. 0..N \subseteq T
    <3> HIDE DEF T
    <3> QED
      BY <1>1, <2>1, InductionUpTo
  <2> QED
    BY <2>2
<1>12. g[N] = It[1..N]
  BY <1>1
<1>13. AppliesTo(g, d, changes)
  <2> HIDE DEF g, It
  <2> QED
    BY <1>5, <1>9, <1>10, <1>11, <1>12 DEF AppliesTo
<1> QED
  BY <1>13

(* Blocks that are no document have a first fault, unless they are too     *)
(* many.                                                                   *)
LEMMA FirstFault ==
  ASSUME NEW d \in Drafts, ~ Valid(d), Len(d.blocks) <= MaxBlocks,
         NEW q, q = Min({p \in DOMAIN d.blocks : Faulty(d.blocks, p)})
  PROVE  /\ q \in 1..Len(d.blocks) /\ Faulty(d.blocks, q)
         /\ \A p \in 1..Len(d.blocks) : Faulty(d.blocks, p) => q <= p
         /\ Validated(d) = FaultAt(d.blocks, q)
<1> DEFINE b == d.blocks
           S == {p \in DOMAIN b : Faulty(b, p)}
<1>1. b \in Seq(Block) /\ Len(b) \in Nat /\ DOMAIN b = 1..Len(b)
  BY LenProperties DEF Drafts
<1>2. ASSUME ~ DistinctIds(b)
      PROVE  S # {}
  <2>1. PICK i \in 1..Len(b), j \in 1..Len(b) : b[i].id = b[j].id /\ i # j
    BY <1>1, <1>2, DistinctIdsInjective
  <2>2. CASE i < j
    <3>1. i \in 1..(j - 1)
      BY <1>1, <2>2
    <3>2. Repeats(b, j)
      BY <2>1, <3>1 DEF Repeats
    <3> QED
      BY <1>1, <3>2 DEF Faulty
  <2>3. CASE j < i
    <3>1. j \in 1..(i - 1)
      BY <1>1, <2>3
    <3>2. Repeats(b, i)
      BY <2>1, <3>1 DEF Repeats
    <3> QED
      BY <1>1, <3>2 DEF Faulty
  <2> QED
    BY <1>1, <2>1, <2>2, <2>3
<1>3. ASSUME \E p \in DOMAIN b : TooLarge(b[p].text)
      PROVE  S # {}
  BY <1>3 DEF Faulty
<1>4. ASSUME ~ (BytesOf(b) <= MaxBytes)
      PROVE  S # {}
  <2>1. PICK g : SumsTo(g, b)
    BY <1>1, BytesOfPrefixes
  <2>2. g[0] = 0 /\ g[Len(b)] = BytesOf(b) /\ BytesOf(b) \in Nat
    BY <1>1, <2>1 DEF SumsTo
  <2>3. Len(b) # 0
    BY <1>4, <2>2, DocumentAssumption
  <2>4. SubSeq(b, 1, Len(b)) = b /\ Len(b) \in 1..Len(b)
    BY <1>1, <2>3
  <2>5. BytesOf(b) > MaxBytes
    BY <1>4, <2>2, DocumentAssumption
  <2>6. BytesOf(SubSeq(b, 1, Len(b))) > MaxBytes
    BY <2>4, <2>5, Zenon
  <2> QED
    BY <1>1, <2>4, <2>6 DEF Faulty
<1>5. S # {}
  BY <1>2, <1>3, <1>4 DEF Valid
<1>6. Min(S) \in S /\ \A p \in S : Min(S) <= p
  <2>1. S \in SUBSET Nat
    BY <1>1
  <2> HIDE DEF S
  <2> QED
    BY <1>5, <2>1, MinOfNat
<1>7. Validated(d) = FaultAt(b, Min(S))
  <2>1. ~ (Len(b) > MaxBlocks)
    BY <1>1, DocumentAssumption
  <2> QED
    BY <2>1 DEF Validated
<1> QED
  BY <1>1, <1>6, <1>7

(* A draft becomes a document, or an error.                                *)
LEMMA ValidatedType ==
  ASSUME NEW d \in Drafts
  PROVE  Validated(d) \in Documents \cup Errors
<1>1. CASE Valid(d)
  BY <1>1, DocumentsAreValidDrafts DEF Validated
<1>2. CASE ~ Valid(d) /\ Len(d.blocks) > MaxBlocks
  BY <1>2, ErrorTypes DEF Validated
<1>3. CASE ~ Valid(d) /\ ~ (Len(d.blocks) > MaxBlocks)
  <2>1. d.blocks \in Seq(Block) /\ Len(d.blocks) <= MaxBlocks
    BY <1>3, LenProperties, DocumentAssumption DEF Drafts
  <2> DEFINE q == Min({p \in DOMAIN d.blocks : Faulty(d.blocks, p)})
  <2>2. q \in 1..Len(d.blocks) /\ Validated(d) = FaultAt(d.blocks, q)
    BY <1>3, <2>1, FirstFault
  <2> HIDE DEF q
  <2>3. d.blocks[q] \in Block
    BY <2>1, <2>2, ElementOfSeq
  <2>4. d.blocks[q].id \in Ids
    BY <2>3 DEF Block
  <2> QED
    BY <2>2, <2>4, ErrorTypes DEF FaultAt
<1> QED
  BY <1>1, <1>2, <1>3

(* What comes of a patch is a document, or an error.                       *)
LEMMA ApplyChangesType ==
  ASSUME NEW d \in Documents, NEW changes \in Seq(Change)
  PROVE  ApplyChanges(d, changes) \in Documents \cup Errors
<1>1. d \in Drafts /\ Len(changes) \in Nat
  BY DocumentsAreValidDrafts, LenProperties
<1>2. PICK g : AppliesTo(g, d, changes)
  BY <1>1, ApplyChangesPrefixes
<1>3. Len(changes) \in 0..Len(changes)
  BY <1>1
<1>4. g[Len(changes)] \in Drafts \cup Errors
  BY <1>2, <1>3 DEF AppliesTo
<1>5. ApplyChanges(d, changes) =
        IF g[Len(changes)] \in Errors THEN g[Len(changes)] ELSE Validated(g[Len(changes)])
  BY <1>2 DEF AppliesTo
<1> QED
  BY <1>4, <1>5, ValidatedType

(* The changes of one field among the first k of a patch.                  *)
TextChanges(changes, id, k) == {i \in 1..k : changes[i].kind = "text" /\ changes[i].id = id}
MetaChanges(changes, id, k) == {i \in 1..k : changes[i].kind = "meta" /\ changes[i].id = id}
DocumentChanges(changes, k) == {i \in 1..k : changes[i].kind = "document"}

TextAfter(block, changes, k) ==
  IF TextChanges(changes, block.id, k) = {} THEN block.text
  ELSE changes[Max(TextChanges(changes, block.id, k))].text
MetaAfter(block, changes, k) ==
  IF MetaChanges(changes, block.id, k) = {} THEN block.meta
  ELSE changes[Max(MetaChanges(changes, block.id, k))].meta
DocumentMetaAfter(d, changes, k) ==
  IF DocumentChanges(changes, k) = {} THEN d.meta
  ELSE changes[Max(DocumentChanges(changes, k))].meta

(* What fold_pending_mutations makes of the first k changes.               *)
FoldedBlock(block, changes, k) ==
  [id |-> block.id, text |-> TextAfter(block, changes, k), meta |-> MetaAfter(block, changes, k)]
FoldedDocument(d, changes, k) ==
  [blocks |-> [p \in 1..Len(d.blocks) |-> FoldedBlock(d.blocks[p], changes, k)],
   meta |-> DocumentMetaAfter(d, changes, k)]

(* Folded, with its last position of each kind, is the folding of all the  *)
(* changes of a patch.                                                     *)
LEMMA FoldedWhole ==
  ASSUME NEW block \in Block, NEW changes \in Seq(Change)
  PROVE  Folded(block, changes) = FoldedBlock(block, changes, Len(changes))
<1> DEFINE T == TextChanges(changes, block.id, Len(changes))
           M == MetaChanges(changes, block.id, Len(changes))
           text == SelectLastInSeq(changes, LAMBDA c : c.kind = "text" /\ c.id = block.id)
           meta == SelectLastInSeq(changes, LAMBDA c : c.kind = "meta" /\ c.id = block.id)
<1>1. Len(changes) \in Nat
  BY LenProperties
<1>2. text = (IF T # {} THEN Max(T) ELSE 0) /\ meta = (IF M # {} THEN Max(M) ELSE 0)
  BY DEF SelectLastInSeq, TextChanges, MetaChanges
<1>3. (T # {} => Max(T) # 0) /\ (M # {} => Max(M) # 0)
  <2>1. ASSUME NEW S \in SUBSET (1..Len(changes)), S # {}
        PROVE  Max(S) # 0
    <3>1. S \in SUBSET (0..Len(changes))
      OBVIOUS
    <3>2. Max(S) \in S
      BY <1>1, <2>1, <3>1, MaxUpTo
    <3> QED
      BY <3>2
  <2>2. T \in SUBSET (1..Len(changes)) /\ M \in SUBSET (1..Len(changes))
    BY DEF TextChanges, MetaChanges
  <2> HIDE DEF T, M
  <2> QED
    BY <2>1, <2>2
<1>4. Folded(block, changes) =
        [block EXCEPT !.text = IF text = 0 THEN @ ELSE changes[text].text,
                      !.meta = IF meta = 0 THEN @ ELSE changes[meta].meta]
  BY DEF Folded
<1>5. block = [id |-> block.id, text |-> block.text, meta |-> block.meta]
  BY DEF Block
<1>6. (IF text = 0 THEN block.text ELSE changes[text].text) =
        TextAfter(block, changes, Len(changes))
  <2> HIDE DEF text, meta
  <2> QED
    BY <1>2, <1>3 DEF TextAfter
<1>7. (IF meta = 0 THEN block.meta ELSE changes[meta].meta) =
        MetaAfter(block, changes, Len(changes))
  <2> HIDE DEF text, meta
  <2> QED
    BY <1>2, <1>3 DEF MetaAfter
<1> HIDE DEF text, meta
<1> QED
  BY <1>4, <1>5, <1>6, <1>7 DEF FoldedBlock

(* The fields keep their types.                                            *)
LEMMA LastIsOne ==
  ASSUME NEW k \in Nat, NEW S \in SUBSET (1..k), S # {}
  PROVE  Max(S) \in S
<1>1. S \in SUBSET (0..k)
  OBVIOUS
<1> QED
  BY <1>1, MaxUpTo

(* The last position of a set that has just got a later one.               *)
LEMMA LastOfMore ==
  ASSUME NEW k \in Nat, NEW S \in SUBSET (1..k)
  PROVE  Max(S \cup {k + 1}) = k + 1
<1> DEFINE U == S \cup {k + 1}
<1>1. U \in SUBSET (0..(k + 1)) /\ k + 1 \in Nat /\ k + 1 \in U /\ U # {}
  OBVIOUS
<1>2. Max(U) \in U /\ k + 1 <= Max(U)
  <2> HIDE DEF U
  <2> QED
    BY <1>1, MaxUpTo
<1>3. \A u \in U : u \in Int /\ u <= k + 1
  OBVIOUS
<1>4. Max(U) \in Int /\ Max(U) <= k + 1
  BY <1>2, <1>3
<1> HIDE DEF U
<1>5. Max(U) = k + 1
  BY <1>2, <1>4
<1> QED
  BY <1>5 DEF U

(* A folded block is a block with the id it had.                           *)
LEMMA FoldedBlockType ==
  ASSUME NEW block \in Block, NEW changes \in Seq(Change), NEW k \in 0..Len(changes)
  PROVE  FoldedBlock(block, changes, k) \in Block
<1>1. /\ k \in Nat /\ \A i \in 1..k : changes[i] \in Change
      /\ block.id \in Ids /\ block.text \in Texts /\ block.meta \in Metas
  BY LenProperties, ElementOfSeq DEF Block
<1>2. TextAfter(block, changes, k) \in Texts
  <2> DEFINE S == TextChanges(changes, block.id, k)
  <2>1. CASE S = {}
    BY <1>1, <2>1 DEF TextAfter
  <2>2. CASE S # {}
    <3>1. S \in SUBSET (1..k)
      BY DEF TextChanges
    <3>2. Max(S) \in S
      BY <1>1, <2>2, <3>1, LastIsOne
    <3>3. changes[Max(S)].text \in Texts
      BY <1>1, <3>2 DEF TextChanges, Change
    <3> QED
      BY <2>2, <3>3 DEF TextAfter
  <2> QED
    BY <2>1, <2>2
<1>3. MetaAfter(block, changes, k) \in Metas
  <2> DEFINE S == MetaChanges(changes, block.id, k)
  <2>1. CASE S = {}
    BY <1>1, <2>1 DEF MetaAfter
  <2>2. CASE S # {}
    <3>1. S \in SUBSET (1..k)
      BY DEF MetaChanges
    <3>2. Max(S) \in S
      BY <1>1, <2>2, <3>1, LastIsOne
    <3>3. changes[Max(S)].meta \in Metas
      BY <1>1, <3>2 DEF MetaChanges, Change
    <3> QED
      BY <2>2, <3>3 DEF MetaAfter
  <2> QED
    BY <2>1, <2>2
<1> QED
  BY <1>1, <1>2, <1>3 DEF FoldedBlock, Block

(* A folded document is a draft with as many blocks as before.             *)
LEMMA FoldedDocumentType ==
  ASSUME NEW d \in Drafts, NEW changes \in Seq(Change), NEW k \in 0..Len(changes)
  PROVE  /\ FoldedDocument(d, changes, k) \in Drafts
         /\ Len(FoldedDocument(d, changes, k).blocks) = Len(d.blocks)
         /\ \A p \in 1..Len(d.blocks) :
              FoldedDocument(d, changes, k).blocks[p] = FoldedBlock(d.blocks[p], changes, k)
<1> DEFINE D == FoldedDocument(d, changes, k)
<1>1. d.blocks \in Seq(Block) /\ d.meta \in Metas
  BY DEF Drafts
<1>2. Len(d.blocks) \in Nat /\ \A p \in 1..Len(d.blocks) : d.blocks[p] \in Block
  BY <1>1, LenProperties, ElementOfSeq
<1>3. D.blocks \in [1..Len(d.blocks) -> Block]
  BY <1>2, FoldedBlockType DEF FoldedDocument
<1>4. D.blocks \in Seq(Block) /\ Len(D.blocks) = Len(d.blocks)
  BY <1>2, <1>3, FunctionIsSeq
<1>5. D.meta \in Metas
  <2> DEFINE S == DocumentChanges(changes, k)
  <2>1. CASE S = {}
    BY <1>1, <2>1 DEF FoldedDocument, DocumentMetaAfter
  <2>2. CASE S # {}
    <3>0. k \in Nat /\ \A i \in 1..k : changes[i] \in Change
      BY LenProperties, ElementOfSeq
    <3>1. S \in SUBSET (1..k)
      BY DEF DocumentChanges
    <3>2. Max(S) \in S
      BY <3>0, <2>2, <3>1, LastIsOne
    <3>3. changes[Max(S)].meta \in Metas
      BY <3>0, <3>2 DEF DocumentChanges, Change
    <3> QED
      BY <2>2, <3>3 DEF FoldedDocument, DocumentMetaAfter
  <2> QED
    BY <2>1, <2>2
<1>6. D = [blocks |-> D.blocks, meta |-> D.meta]
  BY DEF FoldedDocument
<1>7. D \in Drafts
  <2> HIDE DEF D
  <2> QED
    BY <1>4, <1>5, <1>6 DEF Drafts
<1> QED
  BY <1>4, <1>7 DEF FoldedDocument

(* One more change is folded into one block, or into the document.         *)
LEMMA FoldedStep ==
  ASSUME NEW block \in Block, NEW changes \in Seq(Change), NEW k \in 0..(Len(changes) - 1)
  PROVE  FoldedBlock(block, changes, k + 1) =
           [id |-> block.id,
            text |-> IF changes[k + 1].kind = "text" /\ changes[k + 1].id = block.id
                     THEN changes[k + 1].text ELSE TextAfter(block, changes, k),
            meta |-> IF changes[k + 1].kind = "meta" /\ changes[k + 1].id = block.id
                     THEN changes[k + 1].meta ELSE MetaAfter(block, changes, k)]
<1> DEFINE c == changes[k + 1]
           id == block.id
<1>1. k \in Nat /\ 1..(k + 1) = (1..k) \cup {k + 1}
  BY LenProperties
<1>2. TextAfter(block, changes, k + 1) =
        IF c.kind = "text" /\ c.id = id THEN c.text ELSE TextAfter(block, changes, k)
  <2>1. CASE c.kind = "text" /\ c.id = id
    <3>1. /\ TextChanges(changes, id, k + 1) = TextChanges(changes, id, k) \cup {k + 1}
          /\ TextChanges(changes, id, k) \in SUBSET (1..k)
      BY <1>1, <2>1 DEF TextChanges
    <3>2. Max(TextChanges(changes, id, k + 1)) = k + 1
      BY <1>1, <3>1, LastOfMore
    <3> QED
      BY <2>1, <3>1, <3>2 DEF TextAfter
  <2>2. CASE ~ (c.kind = "text" /\ c.id = id)
    <3>1. TextChanges(changes, id, k + 1) = TextChanges(changes, id, k)
      BY <1>1, <2>2 DEF TextChanges
    <3> QED
      BY <2>2, <3>1 DEF TextAfter
  <2> QED
    BY <2>1, <2>2
<1>3. MetaAfter(block, changes, k + 1) =
        IF c.kind = "meta" /\ c.id = id THEN c.meta ELSE MetaAfter(block, changes, k)
  <2>1. CASE c.kind = "meta" /\ c.id = id
    <3>1. /\ MetaChanges(changes, id, k + 1) = MetaChanges(changes, id, k) \cup {k + 1}
          /\ MetaChanges(changes, id, k) \in SUBSET (1..k)
      BY <1>1, <2>1 DEF MetaChanges
    <3>2. Max(MetaChanges(changes, id, k + 1)) = k + 1
      BY <1>1, <3>1, LastOfMore
    <3> QED
      BY <2>1, <3>1, <3>2 DEF MetaAfter
  <2>2. CASE ~ (c.kind = "meta" /\ c.id = id)
    <3>1. MetaChanges(changes, id, k + 1) = MetaChanges(changes, id, k)
      BY <1>1, <2>2 DEF MetaChanges
    <3> QED
      BY <2>2, <3>1 DEF MetaAfter
  <2> QED
    BY <2>1, <2>2
<1> QED
  BY <1>2, <1>3 DEF FoldedBlock

(* One more change, for the document's metadata: only a change of its own  *)
(* kind replaces it.                                                       *)
LEMMA FoldedMetaStep ==
  ASSUME NEW d, NEW changes \in Seq(Change), NEW k \in 0..(Len(changes) - 1)
  PROVE  DocumentMetaAfter(d, changes, k + 1) =
           IF changes[k + 1].kind = "document" THEN changes[k + 1].meta
           ELSE DocumentMetaAfter(d, changes, k)
<1>1. k \in Nat /\ 1..(k + 1) = (1..k) \cup {k + 1}
  BY LenProperties
<1>2. CASE changes[k + 1].kind = "document"
  <2>1. /\ DocumentChanges(changes, k + 1) = DocumentChanges(changes, k) \cup {k + 1}
        /\ DocumentChanges(changes, k) \in SUBSET (1..k)
    BY <1>1, <1>2 DEF DocumentChanges
  <2>2. Max(DocumentChanges(changes, k + 1)) = k + 1
    BY <1>1, <2>1, LastOfMore
  <2> QED
    BY <1>2, <2>1, <2>2 DEF DocumentMetaAfter
<1>3. CASE changes[k + 1].kind # "document"
  <2>1. DocumentChanges(changes, k + 1) = DocumentChanges(changes, k)
    BY <1>1, <1>3 DEF DocumentChanges
  <2> QED
    BY <1>3, <2>1 DEF DocumentMetaAfter
<1> QED
  BY <1>2, <1>3

UnknownUpTo(d, changes, k) ==
  {i \in 1..k : changes[i].kind # "document" /\ changes[i].id \notin IdsOf(d.blocks)}

(* On a copy of the document a change that moves no block does to the      *)
(* folded document what one more change does to the folding.               *)
LEMMA ApplyToFolded ==
  ASSUME NEW d \in Documents, NEW changes \in Seq(Change), ~ Structural(changes),
         NEW k \in 0..(Len(changes) - 1)
  PROVE  ApplyChange(FoldedDocument(d, changes, k), changes[k + 1]) =
           IF changes[k + 1].kind # "document" => changes[k + 1].id \in IdsOf(d.blocks)
           THEN FoldedDocument(d, changes, k + 1) ELSE Error("UnknownBlock", changes[k + 1].id)
<1> DEFINE c == changes[k + 1]
           D == FoldedDocument(d, changes, k)
           E == FoldedDocument(d, changes, k + 1)
           N == Len(d.blocks)
           at == IndexOf(D.blocks, c.id)
<1>1. /\ d \in Drafts /\ d.blocks \in Seq(Block) /\ Valid(d)
      /\ k \in 0..Len(changes) /\ k + 1 \in 0..Len(changes) /\ k + 1 \in 1..Len(changes)
      /\ N \in Nat
  BY DocumentsAreValidDrafts, LenProperties DEF Drafts
<1>2. /\ D \in Drafts /\ Len(D.blocks) = N
      /\ \A p \in 1..N : D.blocks[p] = FoldedBlock(d.blocks[p], changes, k)
  BY <1>1, FoldedDocumentType
<1>3. /\ E \in Drafts /\ Len(E.blocks) = N
      /\ \A p \in 1..N : E.blocks[p] = FoldedBlock(d.blocks[p], changes, k + 1)
  BY <1>1, FoldedDocumentType
<1>4. c \in Change /\ c.kind \in {"text", "meta", "document"}
  <2>1. c \in Change /\ DOMAIN changes = 1..Len(changes)
    BY <1>1, ElementOfSeq, LenProperties
  <2>2. c.kind \notin {"insert", "remove"}
    BY <1>1, <2>1 DEF Structural, ChangesStructure
  <2> QED
    BY <2>1, <2>2 DEF Change
<1>5. D \notin Errors
  BY <1>2, DraftNotError
<1>6. /\ D.blocks \in Seq(Block) /\ D.meta \in Metas /\ DOMAIN D.blocks = 1..N
      /\ E.blocks \in Seq(Block) /\ E.meta \in Metas
      /\ D = [blocks |-> D.blocks, meta |-> D.meta]
      /\ E = [blocks |-> E.blocks, meta |-> E.meta]
  <2>1. D.blocks \in Seq(Block) /\ E.blocks \in Seq(Block)
    BY <1>2, <1>3 DEF Drafts
  <2> QED
    BY <1>2, <1>3, <2>1, LenProperties DEF Drafts
<1>7. \A p \in 1..N : D.blocks[p].id = d.blocks[p].id
  <2> TAKE p \in 1..N
  <2> HIDE DEF D
  <2>1. D.blocks[p] = FoldedBlock(d.blocks[p], changes, k)
    BY <1>2
  <2>2. FoldedBlock(d.blocks[p], changes, k).id = d.blocks[p].id
    BY DEF FoldedBlock
  <2> QED
    BY <2>1, <2>2
<1>8. IdsOf(D.blocks) = IdsOf(d.blocks)
  <2>1. DOMAIN d.blocks = 1..N
    BY <1>1, LenProperties
  <2> HIDE DEF D
  <2> QED
    BY <1>6, <1>7, <2>1 DEF IdsOf
<1>9. \A p, q \in 1..N : d.blocks[p].id = d.blocks[q].id => p = q
  BY <1>1, DistinctIdsInjective, LenProperties DEF Valid
<1>10. D.meta = DocumentMetaAfter(d, changes, k) /\ E.meta = DocumentMetaAfter(d, changes, k + 1)
  BY DEF FoldedDocument
<1>11. \A p \in 1..N : d.blocks[p] \in Block
  BY <1>1, ElementOfSeq
<1>12. c.kind \in {"text", "meta"} <=> c.kind # "document"
  BY <1>4
<1> SUFFICES ApplyChange(D, c) =
               IF c.kind \in {"text", "meta"} /\ c.id \notin IdsOf(d.blocks)
               THEN Error("UnknownBlock", c.id) ELSE E
  BY <1>12
<1> HIDE DEF D, E, c
<1>13. \A p \in 1..N : D.blocks[p] =
        [id |-> d.blocks[p].id, text |-> TextAfter(d.blocks[p], changes, k),
         meta |-> MetaAfter(d.blocks[p], changes, k)]
  BY <1>2 DEF FoldedBlock
<1>14. \A p \in 1..N : E.blocks[p] =
        [id |-> d.blocks[p].id,
         text |-> IF c.kind = "text" /\ c.id = d.blocks[p].id
                  THEN c.text ELSE TextAfter(d.blocks[p], changes, k),
         meta |-> IF c.kind = "meta" /\ c.id = d.blocks[p].id
                  THEN c.meta ELSE MetaAfter(d.blocks[p], changes, k)]
  BY <1>3, <1>11, FoldedStep DEF c
<1>15. E.meta = IF c.kind = "document" THEN c.meta ELSE D.meta
  BY <1>10, FoldedMetaStep DEF c
<1>16. CASE c.kind = "document"
  <2>1. ApplyChange(D, c) = [D EXCEPT !.meta = c.meta]
    BY <1>5, <1>16 DEF ApplyChange
  <2>2. E.meta = c.meta
    BY <1>15, <1>16
  <2>3. ASSUME NEW p \in 1..N
        PROVE  E.blocks[p] = D.blocks[p]
    BY <1>13, <1>14, <1>16
  <2>4. E.blocks = D.blocks
    BY <1>2, <1>3, <1>6, <2>3, SeqEqual
  <2> QED
    BY <1>6, <1>16, <2>1, <2>2, <2>4
<1>17. CASE c.kind \in {"text", "meta"} /\ c.id \notin IdsOf(d.blocks)
  <2>1. at = 0
    BY <1>6, <1>8, <1>17, IndexOfBlock
  <2>2. ApplyChange(D, c) = Error("UnknownBlock", c.id)
    BY <1>5, <1>17, <2>1 DEF ApplyChange
  <2> QED
    BY <1>17, <2>2
<1>18. CASE c.kind \in {"text", "meta"} /\ c.id \in IdsOf(d.blocks)
  <2>1. at \in 1..N /\ D.blocks[at].id = c.id
    BY <1>2, <1>6, <1>8, <1>18, IndexOfBlock
  <2>2. \A p \in 1..N : d.blocks[p].id = c.id <=> p = at
    BY <1>7, <1>9, <2>1
  <2>3. at # 0
    BY <1>1, <2>1
  <2> DEFINE b == IF c.kind = "text" THEN [D.blocks[at] EXCEPT !.text = c.text]
                  ELSE [D.blocks[at] EXCEPT !.meta = c.meta]
  <2>4. ApplyChange(D, c) = [D EXCEPT !.blocks = [D.blocks EXCEPT ![at] = b]]
    <3>1. CASE c.kind = "text"
      <4>1. ApplyChange(D, c) = [D EXCEPT !.blocks[at].text = c.text]
        BY <1>5, <2>3, <3>1 DEF ApplyChange
      <4> HIDE DEF at
      <4> QED
        BY <1>6, <3>1, <4>1
    <3>2. CASE c.kind = "meta"
      <4>1. ApplyChange(D, c) = [D EXCEPT !.blocks[at].meta = c.meta]
        BY <1>5, <2>3, <3>2 DEF ApplyChange
      <4> HIDE DEF at
      <4> QED
        BY <1>6, <3>2, <4>1
    <3> QED
      BY <1>18, <3>1, <3>2
  <2>5. E.meta = D.meta
    BY <1>15, <1>18
  <2> HIDE DEF at
  <2>6. ASSUME NEW p \in 1..N
        PROVE  E.blocks[p] = IF p = at THEN b ELSE D.blocks[p]
    <3>1. CASE p = at
      <4>1. d.blocks[p].id = c.id
        BY <2>2, <3>1
      <4>2. CASE c.kind = "text"
        <5>1. b = [D.blocks[p] EXCEPT !.text = c.text]
          BY <3>1, <4>2
        <5> HIDE DEF b
        <5>2. E.blocks[p] = [id |-> d.blocks[p].id, text |-> c.text, meta |-> MetaAfter(d.blocks[p], changes, k)]
          BY <1>14, <4>1, <4>2
        <5>3. D.blocks[p] =
                [id |-> d.blocks[p].id, text |-> TextAfter(d.blocks[p], changes, k),
                 meta |-> MetaAfter(d.blocks[p], changes, k)]
          BY <1>13
        <5>4. [D.blocks[p] EXCEPT !.text = c.text] =
                [id |-> d.blocks[p].id, text |-> c.text, meta |-> MetaAfter(d.blocks[p], changes, k)]
          BY <5>3
        <5> QED
          BY <3>1, <5>1, <5>2, <5>4
      <4>3. CASE c.kind = "meta"
        <5>1. b = [D.blocks[p] EXCEPT !.meta = c.meta]
          BY <3>1, <4>3
        <5> HIDE DEF b
        <5>2. E.blocks[p] = [id |-> d.blocks[p].id, text |-> TextAfter(d.blocks[p], changes, k), meta |-> c.meta]
          BY <1>14, <4>1, <4>3
        <5>3. D.blocks[p] =
                [id |-> d.blocks[p].id, text |-> TextAfter(d.blocks[p], changes, k),
                 meta |-> MetaAfter(d.blocks[p], changes, k)]
          BY <1>13
        <5>4. [D.blocks[p] EXCEPT !.meta = c.meta] =
                [id |-> d.blocks[p].id, text |-> TextAfter(d.blocks[p], changes, k), meta |-> c.meta]
          BY <5>3
        <5> QED
          BY <3>1, <5>1, <5>2, <5>4
      <4> QED
        BY <1>18, <4>2, <4>3
    <3>2. CASE p # at
      BY <1>13, <1>14, <2>2, <3>2
    <3> QED
      BY <3>1, <3>2
  <2>7. b \in Block
    <3>1. E.blocks[at] = b /\ Len(E.blocks) = N
      BY <1>3, <2>1, <2>6
    <3> HIDE DEF b
    <3> QED
      BY <1>6, <2>1, <3>1, ElementOfSeq
  <2> HIDE DEF b
  <2>8. E.blocks = [D.blocks EXCEPT ![at] = b]
    <3>1. /\ [D.blocks EXCEPT ![at] = b] \in Seq(Block)
          /\ Len([D.blocks EXCEPT ![at] = b]) = N
          /\ \A j \in 1..N : [D.blocks EXCEPT ![at] = b][j] = IF j = at THEN b ELSE D.blocks[j]
      BY <1>2, <1>6, <2>1, <2>7, ExceptSeq
    <3> QED
      BY SMTT(30), <1>3, <1>6, <2>6, <3>1, SeqEqual
  <2> QED
    BY <1>6, <1>18, <2>4, <2>5, <2>8
<1> QED
  BY <1>4, <1>16, <1>17, <1>18

(* A patch that moves no block, change by change: what validation makes of *)
(* the folded document, or the first change of an unknown block.           *)
LEMMA ApplyFolded ==
  ASSUME NEW d \in Documents, NEW changes \in Seq(Change), ~ Structural(changes)
  PROVE  ApplyChanges(d, changes) =
           IF UnknownUpTo(d, changes, Len(changes)) = {}
           THEN Validated(FoldedDocument(d, changes, Len(changes)))
           ELSE Error("UnknownBlock", changes[Min(UnknownUpTo(d, changes, Len(changes)))].id)
<1> DEFINE N == Len(changes)
           U(k) == UnknownUpTo(d, changes, k)
           Outcome(k) == IF U(k) = {} THEN FoldedDocument(d, changes, k)
                         ELSE Error("UnknownBlock", changes[Min(U(k))].id)
<1>1. /\ d \in Drafts /\ d.blocks \in Seq(Block) /\ Valid(d) /\ N \in Nat
      /\ d = [blocks |-> d.blocks, meta |-> d.meta]
  BY DocumentsAreValidDrafts, LenProperties DEF Drafts
<1>2. PICK g : AppliesTo(g, d, changes)
  BY <1>1, ApplyChangesPrefixes
<1>3. FoldedDocument(d, changes, 0) = d
  <2> DEFINE D == FoldedDocument(d, changes, 0)
  <2>1. 0 \in 0..N
    BY <1>1
  <2>2. /\ D \in Drafts /\ Len(D.blocks) = Len(d.blocks)
        /\ \A p \in 1..Len(d.blocks) : D.blocks[p] = FoldedBlock(d.blocks[p], changes, 0)
    BY <1>1, <2>1, FoldedDocumentType
  <2>3. 1..0 = {}
    OBVIOUS
  <2>4. ASSUME NEW p \in 1..Len(d.blocks)
        PROVE  FoldedBlock(d.blocks[p], changes, 0) = d.blocks[p]
    <3>1. d.blocks[p] \in Block
      BY <1>1, ElementOfSeq
    <3>2. /\ TextChanges(changes, d.blocks[p].id, 0) = {}
          /\ MetaChanges(changes, d.blocks[p].id, 0) = {}
      BY DEF TextChanges, MetaChanges
    <3> QED
      BY <3>1, <3>2 DEF FoldedBlock, TextAfter, MetaAfter, Block
  <2>5. D.meta = d.meta
    <3>1. DocumentChanges(changes, 0) = {}
      BY DEF DocumentChanges
    <3> QED
      BY <3>1 DEF FoldedDocument, DocumentMetaAfter
  <2> HIDE DEF D
  <2>6. D.blocks \in Seq(Block) /\ D = [blocks |-> D.blocks, meta |-> D.meta]
    BY <2>2 DEF Drafts
  <2>7. D.blocks = d.blocks
    BY <1>1, <2>2, <2>4, <2>6, SeqEqual
  <2>8. D = d
    BY <1>1, <2>5, <2>6, <2>7
  <2> QED
    BY <2>8 DEF D
<1>4. ASSUME NEW k \in 0..N, U(k) # {}
      PROVE  /\ Min(U(k)) \in 1..k /\ Error("UnknownBlock", changes[Min(U(k))].id) \in Errors
             /\ Min(U(k)) \in U(k) /\ \A i \in U(k) : Min(U(k)) <= i
  <2>1. U(k) \in SUBSET Nat /\ U(k) \subseteq 1..k
    BY DEF UnknownUpTo
  <2>2. Min(U(k)) \in U(k) /\ \A i \in U(k) : Min(U(k)) <= i
    BY <1>4, <2>1, MinOfNat
  <2> DEFINE i == Min(U(k))
  <2>3. i \in 1..k /\ i \in 1..N /\ changes[i].kind # "document"
    BY <1>1, <2>1, <2>2 DEF UnknownUpTo
  <2> HIDE DEF i
  <2>4. changes[i] \in Change /\ ~ ChangesStructure(changes[i])
    BY <1>1, <2>3, ElementOfSeq, LenProperties DEF Structural
  <2>5. changes[i].id \in Ids
    BY <2>3, <2>4 DEF Change, ChangesStructure
  <2> QED
    BY <2>2, <2>3, <2>5, ErrorTypes DEF i
<1>5. ASSUME NEW k \in 0..(N - 1), g[k] = Outcome(k)
      PROVE  g[k + 1] = Outcome(k + 1)
  <2>1. g[k + 1] = ApplyChange(g[k], changes[k + 1])
    BY <1>2 DEF AppliesTo
  <2>2. 1..(k + 1) = (1..k) \cup {k + 1} /\ k \in 0..N /\ k + 1 \in 0..N
    BY <1>1
  <2> DEFINE unknown == changes[k + 1].kind # "document" /\ changes[k + 1].id \notin IdsOf(d.blocks)
  <2>3. U(k + 1) = IF unknown THEN U(k) \cup {k + 1} ELSE U(k)
    BY <2>2 DEF UnknownUpTo
  <2>4. CASE U(k) = {}
    <3>1. g[k] = FoldedDocument(d, changes, k)
      BY <1>5, <2>4
    <3>2. ApplyChange(FoldedDocument(d, changes, k), changes[k + 1]) =
            IF unknown THEN Error("UnknownBlock", changes[k + 1].id)
            ELSE FoldedDocument(d, changes, k + 1)
      BY ApplyToFolded
    <3>3. unknown => U(k + 1) # {} /\ Min(U(k + 1)) = k + 1
      <4>1. unknown => U(k + 1) = {k + 1}
        BY <2>3, <2>4
      <4> HIDE DEF U, unknown
      <4> QED
        BY <1>4, <2>2, <4>1
    <3>4. ~ unknown => U(k + 1) = {}
      BY <2>3, <2>4
    <3> HIDE DEF U, unknown
    <3> QED
      BY <2>1, <3>1, <3>2, <3>3, <3>4
  <2>5. CASE U(k) # {}
    <3> HIDE DEF U, unknown
    <3>1. g[k] = Error("UnknownBlock", changes[Min(U(k))].id) /\ g[k] \in Errors
      BY <1>5, <1>4, <2>2, <2>5
    <3>2. g[k + 1] = g[k]
      BY <2>1, <3>1 DEF ApplyChange
    <3>3. U(k + 1) # {} /\ Min(U(k + 1)) = Min(U(k))
      <4>1. U(k + 1) # {}
        BY <2>3, <2>5
      <4>2. /\ Min(U(k)) \in 1..k /\ Min(U(k)) \in U(k + 1)
            /\ Min(U(k + 1)) \in 1..(k + 1) /\ Min(U(k + 1)) \in U(k + 1)
            /\ Min(U(k + 1)) <= Min(U(k)) /\ \A i \in U(k) : Min(U(k)) <= i
        BY <1>4, <2>2, <2>3, <2>5, <4>1
      <4>3. Min(U(k + 1)) # k + 1
        BY <4>2
      <4>4. Min(U(k + 1)) \in U(k)
        BY <2>3, <4>2, <4>3
      <4> QED
        BY <4>1, <4>2, <4>4
    <3> QED
      BY <3>1, <3>2, <3>3
  <2> QED
    BY <2>4, <2>5
<1>6. g[N] = Outcome(N)
  <2> DEFINE T == {k \in 0..N : g[k] = Outcome(k)}
  <2>1. 0 \in T
    <3>1. g[0] = d /\ U(0) = {}
      BY <1>2 DEF AppliesTo, UnknownUpTo
    <3> QED
      BY <1>1, <1>3, <3>1
  <2>2. \A k \in 0..(N - 1) : k \in T => k + 1 \in T
    <3> TAKE k \in 0..(N - 1)
    <3>1. k + 1 \in 0..N
      BY <1>1
    <3> HIDE DEF N, Outcome
    <3> QED
      BY <1>5, <3>1
  <2>3. 0..N \subseteq T
    <3> HIDE DEF T, N
    <3> QED
      BY <1>1, <2>1, <2>2, InductionUpTo
  <2>4. N \in 0..N
    BY <1>1
  <2> HIDE DEF N, Outcome
  <2> QED
    BY <2>3, <2>4
<1>7. ApplyChanges(d, changes) = IF g[N] \in Errors THEN g[N] ELSE Validated(g[N])
  BY <1>2 DEF AppliesTo
<1>8. FoldedDocument(d, changes, N) \notin Errors /\ N \in 0..N
  BY <1>1, FoldedDocumentType, DraftNotError
<1> HIDE DEF U
<1> QED
  BY <1>6, <1>7, <1>8, <1>4 DEF U

(* The abstract specification has its own copy of every operator of the    *)
(* document: they are the same.                                            *)
LEMMA SameCardinality == \A S : Abstract!Cardinality(S) = Cardinality(S)
BY DEF Cardinality, Abstract!Cardinality, IsFiniteSet, Abstract!IsFiniteSet

(* The abstract analysis adds up bytes as the incremental one does.        *)
LEMMA SameBytes == \A blocks : Abstract!BytesOf(blocks) = BytesOf(blocks)
BY DEF BytesOf, Abstract!BytesOf, FoldLeft, Abstract!FoldLeft,
       MapThenFoldSet, Abstract!MapThenFoldSet, Max, Abstract!Max

(* The abstract analysis accepts the same documents.                       *)
LEMMA SameValid == \A d : Abstract!Valid(d) = Valid(d)
<1>1. \A blocks : Abstract!DistinctIds(blocks) = DistinctIds(blocks)
  BY SameCardinality DEF DistinctIds, Abstract!DistinctIds, IdsOf, Abstract!IdsOf
<1> QED
  BY <1>1, SameBytes DEF Valid, Abstract!Valid, TooLarge, Abstract!TooLarge

(* The abstract analysis ranges over the same documents.                   *)
LEMMA SameDocuments == Abstract!Documents = Documents
<1> DEFINE D == [blocks : UNION {[1..n -> Block] : n \in 0..MaxBlocks}, meta : Metas]
<1>1. Abstract!Documents = {d \in D : Abstract!Valid(d)}
  BY DEF Abstract!Documents, Block, Abstract!Block
<1>2. Documents = {d \in D : Valid(d)}
  BY DEF Documents
<1> HIDE DEF D
<1> QED
  BY <1>1, <1>2, SameValid

(* The abstract analysis has the same errors.                              *)
LEMMA SameErrors ==
  /\ Abstract!Errors = Errors
  /\ Abstract!TooManyBlocks = TooManyBlocks /\ Abstract!DocumentTooLarge = DocumentTooLarge
  /\ \A error, id : Abstract!Error(error, id) = Error(error, id)
BY DEF Errors, Abstract!Errors, Error, Abstract!Error, TooManyBlocks, Abstract!TooManyBlocks,
       DocumentTooLarge, Abstract!DocumentTooLarge

(* Validation does the same in the abstract analysis.                      *)
LEMMA SameValidated == \A d : Abstract!Validated(d) = Validated(d)
<1>1. \A blocks, p : Abstract!Repeats(blocks, p) <=> Repeats(blocks, p)
  BY DEF Repeats, Abstract!Repeats
<1>2. \A text : Abstract!TooLarge(text) <=> TooLarge(text)
  BY DEF TooLarge, Abstract!TooLarge
<1>3. \A blocks, p : Abstract!Faulty(blocks, p) <=> Faulty(blocks, p)
  BY <1>1, <1>2, SameBytes DEF Faulty, Abstract!Faulty
<1>4. \A blocks, p : Abstract!FaultAt(blocks, p) = FaultAt(blocks, p)
  BY <1>1, <1>2, SameErrors DEF FaultAt, Abstract!FaultAt
<1> TAKE d
<1> DEFINE S == {p \in DOMAIN d.blocks : Faulty(d.blocks, p)}
           T == {p \in DOMAIN d.blocks : Abstract!Faulty(d.blocks, p)}
<1>5. S = T
  BY <1>3
<1>6. Abstract!Min(T) = Min(T)
  BY DEF Min, Abstract!Min
<1>7. Validated(d) = IF Valid(d) THEN d ELSE IF Len(d.blocks) > MaxBlocks THEN TooManyBlocks
                     ELSE FaultAt(d.blocks, Min(S))
  BY DEF Validated
<1>8. Abstract!Validated(d) =
        IF Abstract!Valid(d) THEN d
        ELSE IF Len(d.blocks) > MaxBlocks THEN Abstract!TooManyBlocks
        ELSE Abstract!FaultAt(d.blocks, Abstract!Min(T))
  BY DEF Abstract!Validated
<1> HIDE DEF S, T
<1> QED
  BY <1>4, <1>5, <1>6, <1>7, <1>8, SameValid, SameErrors

(* One change does the same in the abstract analysis.                      *)
LEMMA SameApply == \A d, c : Abstract!ApplyChange(d, c) = ApplyChange(d, c)
BY DEF ApplyChange, Abstract!ApplyChange, IndexOf, Abstract!IndexOf,
       SelectInSeq, Abstract!SelectInSeq, Min, Abstract!Min,
       RemoveAt, Abstract!RemoveAt, InsertAt, Abstract!InsertAt,
       IdsOf, Abstract!IdsOf, InsertionPoint, Abstract!InsertionPoint, Head0, Abstract!Head0,
       Errors, Abstract!Errors, Error, Abstract!Error

(* A whole patch does the same in the abstract analysis.                   *)
LEMMA SameApplyChanges == \A d, changes : Abstract!ApplyChanges(d, changes) = ApplyChanges(d, changes)
<1> TAKE d, changes
<1> DEFINE S == SUBSET (DOMAIN changes)
           Abs(iter, s) == IF s = {} THEN d ELSE Abstract!ApplyChange(iter[s \ {Max(s)}], changes[Max(s)])
           Con(iter, s) == IF s = {} THEN d ELSE ApplyChange(iter[s \ {Max(s)}], changes[Max(s)])
           a == (CHOOSE iter : iter = [s \in S |-> Abs(iter, s)])[DOMAIN changes]
           c == (CHOOSE iter : iter = [s \in S |-> Con(iter, s)])[DOMAIN changes]
<1>1. Abstract!ApplyChanges(d, changes) = IF a \in Abstract!Errors THEN a ELSE Abstract!Validated(a)
  BY DEF Abstract!ApplyChanges, Abstract!FoldLeft, Abstract!MapThenFoldSet, Max, Abstract!Max
<1>2. ApplyChanges(d, changes) = IF c \in Errors THEN c ELSE Validated(c)
  BY DEF ApplyChanges, FoldLeft, MapThenFoldSet, Max
<1>3. \A iter, s : Abs(iter, s) = Con(iter, s)
  BY SameApply
<1>4. a = c
  <2> HIDE DEF Abs, Con
  <2> QED
    BY <1>3
<1> HIDE DEF a, c
<1> QED
  BY <1>1, <1>2, <1>4, SameErrors, SameValidated

(* The rules and the windows they read are the same in the abstract        *)
(* analysis.                                                               *)
LEMMA SameRules ==
  /\ Abstract!MaxRadius = MaxRadius
  /\ \A s, p, r : Abstract!Before(s, p, r) = Before(s, p, r)
  /\ \A s, p, r : Abstract!After(s, p, r) = After(s, p, r)
  /\ \A before, block, after :
       Abstract!RuleFindings(before, block, after) = RuleFindings(before, block, after)
<1>1. Abstract!MaxRadius = MaxRadius
  BY DEF MaxRadius, Abstract!MaxRadius, LargestOf, Abstract!LargestOf
<1>2. \A s, p, r : Abstract!Before(s, p, r) = Before(s, p, r)
  BY DEF Before, Abstract!Before
<1>3. \A s, p, r : Abstract!After(s, p, r) = After(s, p, r)
  BY DEF After, Abstract!After
<1>4. ASSUME NEW before, NEW block, NEW after, NEW r
      PROVE  Abstract!NeighborhoodFindings(before, block, after, r)
               = NeighborhoodFindings(before, block, after, r)
  <2> DEFINE sb == Before(before, Len(before) + 1, r)
             sa == After(after, 0, r)
             loud == \E seen \in {block} \cup {sb[i] : i \in DOMAIN sb}
                                         \cup {sa[i] : i \in DOMAIN sa} :
                       seen.text \notin Quiet
             one == {[rule |-> r, before |-> sb, block |-> block, after |-> sa]}
  <2>1. NeighborhoodFindings(before, block, after, r) = IF loud THEN one ELSE {}
    BY DEF NeighborhoodFindings, Loud, ToSet
  <2>2. Abstract!Before(before, Len(before) + 1, r) = sb /\ Abstract!After(after, 0, r) = sa
    BY <1>2, <1>3
  <2>3. Abstract!NeighborhoodFindings(before, block, after, r) = IF loud THEN one ELSE {}
    <3> HIDE DEF sb, sa
    <3> QED
      BY <2>2 DEF Abstract!NeighborhoodFindings, Abstract!Loud, Abstract!ToSet
  <2> QED
    BY <2>1, <2>3
<1>5. \A block : Abstract!BlockFindings(block) = BlockFindings(block)
  BY DEF BlockFindings, Abstract!BlockFindings, Loud, Abstract!Loud
<1>6. ASSUME NEW before, NEW block, NEW after
      PROVE  Abstract!RuleFindings(before, block, after) = RuleFindings(before, block, after)
  BY <1>4, <1>5 DEF RuleFindings, Abstract!RuleFindings
<1> QED
  BY <1>1, <1>2, <1>3, <1>6

(* The batch analysis the abstract specification refers to is this one.    *)
LEMMA SameAnalysis == \A d : Abstract!BatchAnalysis(d) = BatchAnalysis(d)
<1> TAKE d
<1> DEFINE found == [p \in DOMAIN d.blocks |->
                       RuleFindings(Before(d.blocks, p, MaxRadius), d.blocks[p],
                                    After(d.blocks, p, MaxRadius))]
           Found == [p \in DOMAIN d.blocks |->
                       Abstract!RuleFindings(Abstract!Before(d.blocks, p, Abstract!MaxRadius),
                         d.blocks[p], Abstract!After(d.blocks, p, Abstract!MaxRadius))]
           counts == [p \in DOMAIN found |-> Cardinality(found[p])]
           Counts == [p \in DOMAIN Found |-> Abstract!Cardinality(Found[p])]
           Outcome(f, facts) ==
             IF \E p \in DOMAIN f : f[p] = Failed THEN Failed
             ELSE [local |-> [p \in {p \in DOMAIN f : f[p] # {}} |-> f[p]],
                   global |-> facts]
<1>1. found = Found
  BY SameRules
<1>2. Counts = [p \in DOMAIN Found |-> Cardinality(Found[p])]
  <2> HIDE DEF Found
  <2> QED
    BY SameCardinality
<1>3. counts = Counts
  <2> HIDE DEF found, Found
  <2> QED
    BY <1>1, <1>2
<1>4. BatchAnalysis(d) = Outcome(found, Facts(d.blocks, d.meta, counts))
  BY DEF BatchAnalysis
<1>5. Abstract!BatchAnalysis(d) = Outcome(Found, Abstract!Facts(d.blocks, d.meta, Counts))
  BY DEF Abstract!BatchAnalysis
<1>6. Abstract!Facts(d.blocks, d.meta, counts) = Facts(d.blocks, d.meta, counts)
  BY DEF Facts, Abstract!Facts
<1> HIDE DEF Outcome, counts, Counts, found, Found
<1> QED
  BY <1>1, <1>3, <1>4, <1>5, <1>6

(* The invariant                                                           *)

(* The document, and its size kept by differences.                         *)
DocumentInv ==
  /\ document \in Documents
  /\ textBytes = BytesOf(document.blocks)
  /\ revision \in 0..MaxRevision

(* What folding makes of the whole document is what the patch prepares.    *)
LEMMA PreparedIsFolded ==
  ASSUME DocumentInv, NEW changes \in Seq(Change)
  PROVE  Prepared(changes) = FoldedDocument(document, changes, Len(changes))
<1> DEFINE N == Len(changes)
           M == DocumentChanges(changes, N)
           meta == SelectLastInSeq(changes, LAMBDA c : c.kind = "document")
<1>1. document.blocks \in Seq(Block) /\ N \in Nat /\ document \in Drafts
  BY DocumentsAreValidDrafts, LenProperties DEF DocumentInv, Drafts
<1>2. DOMAIN document.blocks = 1..Len(document.blocks)
  BY <1>1, LenProperties
<1>3. meta = IF M # {} THEN Max(M) ELSE 0
  BY DEF SelectLastInSeq, DocumentChanges
<1>4. M # {} => Max(M) # 0
  <2>1. M \in SUBSET (1..N)
    BY DEF DocumentChanges
  <2> HIDE DEF M
  <2> SUFFICES ASSUME M # {} PROVE Max(M) # 0
    OBVIOUS
  <2>2. Max(M) \in M
    BY <1>1, <2>1, LastIsOne
  <2> QED
    BY <2>1, <2>2
<1>5. \A p \in DOMAIN document.blocks :
        Folded(document.blocks[p], changes) = FoldedBlock(document.blocks[p], changes, N)
  BY <1>1, <1>2, ElementOfSeq, FoldedWhole
<1>6. Prepared(changes) =
        [blocks |-> [p \in DOMAIN document.blocks |-> Folded(document.blocks[p], changes)],
         meta |-> IF meta = 0 THEN document.meta ELSE changes[meta].meta]
  BY DEF Prepared
<1>7. (IF meta = 0 THEN document.meta ELSE changes[meta].meta)
        = DocumentMetaAfter(document, changes, N)
  <2> HIDE DEF meta
  <2> QED
    BY <1>3, <1>4 DEF DocumentMetaAfter
<1> HIDE DEF meta
<1> QED
  BY <1>2, <1>5, <1>6, <1>7 DEF FoldedDocument

(* What a patch in place prepares is a draft of the same length, each      *)
(* block of it folded.                                                     *)
LEMMA PreparedType ==
  ASSUME DocumentInv, NEW changes \in Seq(Change)
  PROVE  /\ Prepared(changes) \in Drafts
         /\ Prepared(changes).blocks \in Seq(Block)
         /\ Len(Prepared(changes).blocks) = Len(document.blocks)
         /\ \A p \in 1..Len(document.blocks) :
              Prepared(changes).blocks[p] = Folded(document.blocks[p], changes)
<1>1. document.blocks \in Seq(Block) /\ Len(changes) \in 0..Len(changes) /\ document \in Drafts
  BY DocumentsAreValidDrafts, LenProperties DEF DocumentInv, Drafts
<1>2. DOMAIN document.blocks = 1..Len(document.blocks)
  BY <1>1, LenProperties
<1>3. /\ Prepared(changes) \in Drafts
      /\ Len(Prepared(changes).blocks) = Len(document.blocks)
  BY <1>1, PreparedIsFolded, FoldedDocumentType
<1>4. Prepared(changes).blocks \in Seq(Block)
  BY <1>3 DEF Drafts
<1>5. Prepared(changes).blocks = [p \in DOMAIN document.blocks |-> Folded(document.blocks[p], changes)]
  BY DEF Prepared
<1> QED
  BY <1>2, <1>3, <1>4, <1>5

(* The differences add up.                                                 *)
LEMMA BytesAfterIsSize ==
  ASSUME DocumentInv, NEW changes \in Seq(Change)
  PROVE  BytesAfter(changes) = BytesOf(Prepared(changes).blocks)
<1> DEFINE old == document.blocks
           new == Prepared(changes).blocks
           N == Len(old)
           D(p) == Size[new[p].text] - Size[old[p].text]
           ix == [p \in DOMAIN new |-> p]
           Def(iter, s) == IF s = {} THEN textBytes ELSE iter[s \ {Max(s)}] + D(ix[Max(s)])
           F == [x \in (1..N) \X Int |-> x[2] + D(x[1])]
           It == CHOOSE iter : iter = [s \in SUBSET (1..N) |-> Def(iter, s)]
<1>1. /\ old \in Seq(Block) /\ new \in Seq(Block) /\ N \in Nat /\ Len(new) = N
      /\ DOMAIN new = 1..N
  BY DocumentsAreValidDrafts, PreparedType, LenProperties DEF DocumentInv, Drafts
<1>2. \A p \in 1..N : Size[new[p].text] \in Nat /\ Size[old[p].text] \in Nat
  <2> HIDE DEF new
  <2>1. \A p \in 1..N : new[p] \in Block /\ old[p] \in Block
    BY <1>1, ElementOfSeq
  <2> QED
    BY <2>1, DocumentAssumption DEF Block
<1>3. \A p \in 1..N : D(p) \in Int
  <2> HIDE DEF new
  <2> QED
    BY <1>2
<1>4. PICK g : SumsTo(g, old)
  BY <1>1, BytesOfPrefixes
<1>5. PICK h : SumsTo(h, new)
  BY <1>1, BytesOfPrefixes
<1> HIDE DEF new, old
<1>6. textBytes = g[N] /\ \A k \in 0..N : g[k] \in Nat /\ h[k] \in Nat
  BY <1>1, <1>4, <1>5 DEF SumsTo, DocumentInv, old
<1>7. F \in [(1..N) \X Int -> Int]
  <2> HIDE DEF D
  <2> QED
    BY <1>3
<1>8. PICK iter \in [SUBSET (1..N) -> Int] : FoldsTo(iter, N, textBytes, F)
  <2>1. textBytes \in Int /\ N \in Nat
    BY <1>1, <1>6
  <2> HIDE DEF F, N
  <2> QED
    BY <1>7, <2>1, FoldExists DEF HasFold
<1>9. BytesAfter(changes) = It[1..N]
  <2>1. DOMAIN ix = 1..N
    BY <1>1
  <2>2. BytesAfter(changes) =
          (CHOOSE f : f = [s \in SUBSET (DOMAIN ix) |-> Def(f, s)])[DOMAIN ix]
    BY DEF BytesAfter, FoldLeft, MapThenFoldSet, new, old
  <2> HIDE DEF ix, Def
  <2> QED
    BY <2>1, <2>2
<1>10. ASSUME NEW s \in SUBSET (1..N), s # {}
       PROVE  Max(s) \in s
  BY <1>1, <1>10, LastIsOne
<1>11. \A p \in 1..N : ix[p] = p
  BY <1>1
<1> HIDE DEF ix
<1>12. iter = [s \in SUBSET (1..N) |-> Def(iter, s)]
  <2>1. ASSUME NEW s \in SUBSET (1..N)
        PROVE  iter[s] = Def(iter, s)
    <3>1. CASE s = {}
      BY <1>8, <3>1 DEF FoldsTo
    <3>2. CASE s # {}
      <4>1. Max(s) \in 1..N /\ s \ {Max(s)} \in SUBSET (1..N)
        BY <1>1, <1>10, <3>2
      <4>2. iter[s \ {Max(s)}] \in Int
        BY <1>8, <4>1
      <4>3. iter[s] = F[<<Max(s), iter[s \ {Max(s)}]>>]
        BY <1>8, <3>2 DEF FoldsTo
      <4> HIDE DEF N, D
      <4> QED
        BY <1>11, <3>2, <4>1, <4>2, <4>3
    <3> QED
      BY <3>1, <3>2
  <2> HIDE DEF Def
  <2> QED
    BY <1>8, <2>1
<1>13. It = [s \in SUBSET (1..N) |-> Def(It, s)]
  <2> HIDE DEF Def
  <2> QED
    BY <1>12
<1> DEFINE b == [k \in 0..N |-> It[1..k]]
<1>14. b[0] = textBytes
  <2>1. 1..0 \in SUBSET (1..N) /\ 1..0 = {} /\ b[0] = It[1..0]
    BY <1>1
  <2> HIDE DEF It, b
  <2> QED
    BY <1>13, <2>1, Zenon
<1>15. ASSUME NEW k \in 0..(N - 1)
       PROVE  b[k + 1] = b[k] + D(k + 1)
  <2>1. /\ 1..(k + 1) \in SUBSET (1..N) /\ k \in Nat /\ k + 1 \in 1..N
        /\ b[k] = It[1..k] /\ b[k + 1] = It[1..(k + 1)]
    BY <1>1
  <2>2. /\ 1..(k + 1) # {} /\ Max(1..(k + 1)) = k + 1
        /\ 1..(k + 1) \ {k + 1} = 1..k
    BY <2>1, IntervalsGrow
  <2>3. ix[k + 1] = k + 1
    BY <1>11, <2>1
  <2> HIDE DEF It, b, D
  <2>4. It[1..(k + 1)] = Def(It, 1..(k + 1))
    BY <1>13, <2>1, Zenon
  <2> QED
    BY <2>1, <2>2, <2>3, <2>4, Zenon
<1> HIDE DEF b
<1>16. ASSUME NEW k \in 0..(N - 1), b[k] = g[N] + (h[k] - g[k])
       PROVE  b[k + 1] = g[N] + (h[k + 1] - g[k + 1])
  <2>1. h[k + 1] = h[k] + Size[new[k + 1].text]
    BY <1>1, <1>5 DEF SumsTo
  <2>2. g[k + 1] = g[k] + Size[old[k + 1].text]
    BY <1>1, <1>4 DEF SumsTo
  <2>3. k + 1 \in 1..N /\ k \in 0..N /\ N \in 0..N
    BY <1>1
  <2>4. Size[new[k + 1].text] \in Nat /\ Size[old[k + 1].text] \in Nat
    BY <1>2, <2>3
  <2>5. g[N] \in Nat /\ h[k] \in Nat /\ g[k] \in Nat
    BY <1>6, <2>3
  <2>6. b[k + 1] = b[k] + (Size[new[k + 1].text] - Size[old[k + 1].text])
    BY <1>15
  <2> QED
    BY SMTT(30), <1>16, <2>1, <2>2, <2>4, <2>5, <2>6
<1>17. b[N] = g[N] + (h[N] - g[N])
  <2> DEFINE T == {k \in 0..N : b[k] = g[N] + (h[k] - g[k])}
  <2>1. 0 \in T
    <3>1. g[0] = 0 /\ h[0] = 0
      BY <1>4, <1>5 DEF SumsTo
    <3>2. N \in 0..N
      BY <1>1
    <3>3. g[N] \in Nat /\ 0 \in 0..N /\ b[0] = g[N]
      BY <1>1, <1>6, <1>14, <3>2
    <3>4. b[0] = g[N] + (h[0] - g[0])
      BY <3>1, <3>3
    <3> QED
      BY <3>3, <3>4
  <2>2. \A k \in 0..(N - 1) : k \in T => k + 1 \in T
    <3> TAKE k \in 0..(N - 1)
    <3>1. k + 1 \in 0..N
      BY <1>1
    <3> QED
      BY <1>16, <3>1
  <2>3. 0..N \subseteq T
    <3> HIDE DEF T, N
    <3> QED
      BY <1>1, <2>1, <2>2, InductionUpTo
  <2> QED
    BY <1>1, <2>3
<1>18. b[N] = It[1..N]
  BY <1>1 DEF b
<1>19. h[N] = BytesOf(new)
  BY <1>1, <1>5 DEF SumsTo
<1>20. g[N] \in Nat /\ h[N] \in Nat
  BY <1>1, <1>6
<1> HIDE DEF It
<1>21. BytesAfter(changes) = BytesOf(new)
  BY <1>9, <1>17, <1>18, <1>19, <1>20
<1> QED
  BY <1>21 DEF new

(* Every record leads to the block at its position, its links to the slots *)
(* around it, and the slots left behind are within the budget.             *)
RecordInv ==
  /\ inputs \in Seq(Block) /\ inputMeta = document.meta /\ allocated = Len(inputs)
  /\ Live = 1..Len(document.blocks)
  /\ \A p \in Live : records[p].slot \in 1..Len(inputs) /\ BlockAt(p) = document.blocks[p]
  /\ records = Linked([p \in Live |-> records[p].slot])
  /\ Len(inputs) - Len(document.blocks) <= RetiredLimit(Len(document.blocks))

(* What the proofs below use of a valid document.                          *)
LEMMA DocumentFacts ==
  ASSUME DocumentInv
  PROVE  /\ document \in Drafts /\ Valid(document) /\ document.meta \in Metas
         /\ document.blocks \in Seq(Block) /\ Len(document.blocks) \in Nat
         /\ DOMAIN document.blocks = 1..Len(document.blocks)
         /\ \A p \in 1..Len(document.blocks) : document.blocks[p] \in Block
         /\ \A p, q \in 1..Len(document.blocks) :
              document.blocks[p].id = document.blocks[q].id => p = q
         /\ document = [blocks |-> document.blocks, meta |-> document.meta]
         /\ document \notin Errors
<1>1. document \in Drafts /\ Valid(document)
  BY DocumentsAreValidDrafts DEF DocumentInv
<1>2. /\ document.blocks \in Seq(Block) /\ document.meta \in Metas
      /\ document = [blocks |-> document.blocks, meta |-> document.meta]
  BY <1>1 DEF Drafts
<1>3. /\ Len(document.blocks) \in Nat /\ DOMAIN document.blocks = 1..Len(document.blocks)
      /\ \A p \in 1..Len(document.blocks) : document.blocks[p] \in Block
  BY <1>2, LenProperties, ElementOfSeq
<1>4. \A p, q \in 1..Len(document.blocks) :
        document.blocks[p].id = document.blocks[q].id => p = q
  BY <1>1, <1>2, <1>3, DistinctIdsInjective DEF Valid
<1> QED
  BY <1>1, <1>2, <1>3, <1>4, DraftNotError

(* The database knows the blocks of the document.                          *)
LEMMA KnownBlocks ==
  ASSUME DocumentInv, RecordInv, NEW id
  PROVE  Known(id) <=> id \in IdsOf(document.blocks)
<1>1. DOMAIN document.blocks = Live
  BY DocumentFacts DEF RecordInv
<1>2. \A p \in Live : BlockAt(p) = document.blocks[p]
  BY DEF RecordInv
<1> QED
  BY <1>1, <1>2 DEF Known, IdsOf

(* The blocks a patch in place makes are those of the document but for     *)
(* their texts and metadata.                                               *)
LEMMA PreparedBlocks ==
  ASSUME DocumentInv, NEW changes \in Seq(Change)
  PROVE  /\ Prepared(changes) \in Drafts /\ Prepared(changes) \notin Errors
         /\ Len(Prepared(changes).blocks) = Len(document.blocks)
         /\ Len(Prepared(changes).blocks) <= MaxBlocks
         /\ \A p \in 1..Len(document.blocks) :
              /\ Prepared(changes).blocks[p].id = document.blocks[p].id
              /\ ~ Repeats(Prepared(changes).blocks, p)
         /\ DistinctIds(Prepared(changes).blocks)
<1> DEFINE next == Prepared(changes).blocks
           n == Len(document.blocks)
<1>1. Prepared(changes) \in Drafts /\ Prepared(changes) \notin Errors
  BY PreparedType, DraftNotError
<1>2. /\ next \in Seq(Block) /\ n \in Nat /\ DOMAIN document.blocks = 1..n
      /\ next = [p \in 1..n |-> Folded(document.blocks[p], changes)]
      /\ \A p \in 1..n : next[p].id = document.blocks[p].id
  <2>1. n \in Nat /\ DOMAIN document.blocks = 1..n
    BY DocumentFacts
  <2>2. next = [p \in 1..n |-> Folded(document.blocks[p], changes)]
    BY <2>1 DEF Prepared
  <2>3. \A p \in 1..n : document.blocks[p] \in Block
    BY DocumentFacts
  <2>4. \A p \in 1..n : next[p].id = document.blocks[p].id
    BY <2>2, <2>3 DEF Folded, Block
  <2> QED
    BY <1>1, <2>1, <2>2, <2>4 DEF Drafts
<1> HIDE DEF next
<1>3. Len(next) = n /\ DOMAIN next = 1..n
  BY <1>2, LenProperties
<1>4. Len(next) <= MaxBlocks
  BY <1>3, DocumentFacts DEF Valid
<1>5. \A p, q \in 1..n : next[p].id = next[q].id => p = q
  BY <1>2, DocumentFacts
<1>6. DistinctIds(next)
  BY <1>2, <1>3, <1>5, DistinctIdsInjective
<1>7. ASSUME NEW p \in 1..n
      PROVE  ~ Repeats(next, p)
  <2>1. \A q \in 1..(p - 1) : q \in 1..n /\ q # p
    BY <1>2
  <2> QED
    BY <1>5, <2>1 DEF Repeats
<1> QED
  BY <1>1, <1>2, <1>3, <1>4, <1>6, <1>7 DEF next

(* In place a patch has the outcome it has as a whole, but for which limit *)
(* is reported when a block and the document before it are both too large. *)
LEMMA InPlaceAsWhole ==
  ASSUME DocumentInv, RecordInv, NEW changes \in Seq(Change), ~ Structural(changes)
  PROVE  /\ \/ InPlace(changes) = ApplyChanges(document, changes)
            \/ /\ ApplyChanges(document, changes) = DocumentTooLarge
               /\ \E p \in Oversized(changes) :
                    InPlace(changes) = Error("BlockTooLarge", document.blocks[p].id)
         /\ InPlace(changes) \notin Errors =>
              InPlace(changes) = Prepared(changes) /\ InPlace(changes) = ApplyChanges(document, changes)
<1> DEFINE N == Len(changes)
           whole == Prepared(changes)
           next == Prepared(changes).blocks
           n == Len(document.blocks)
           U == Unknown(changes)
           O == Oversized(changes)
           q == Min({p \in DOMAIN next : Faulty(next, p)})
<1>1. DOMAIN changes = 1..N /\ document \in Documents
  BY LenProperties DEF DocumentInv
<1>2. ApplyChanges(document, changes) =
        IF U = {} THEN Validated(whole) ELSE Error("UnknownBlock", changes[Min(U)].id)
  <2>1. U = UnknownUpTo(document, changes, N)
    BY <1>1, KnownBlocks DEF Unknown, UnknownUpTo
  <2> QED
    BY <1>1, <2>1, PreparedIsFolded, ApplyFolded
<1>3. /\ n \in Nat /\ DOMAIN document.blocks = 1..n /\ n <= MaxBlocks
      /\ \A p \in 1..n : document.blocks[p].id \in Ids /\ ~ TooLarge(document.blocks[p].text)
  <2>1. /\ n \in Nat /\ DOMAIN document.blocks = 1..n /\ Valid(document)
        /\ \A p \in 1..n : document.blocks[p] \in Block
    BY DocumentFacts
  <2> QED
    BY <2>1 DEF Valid, Block
<1>4. /\ whole \in Drafts /\ whole \notin Errors /\ Len(next) = n /\ Len(next) <= MaxBlocks
      /\ \A p \in 1..n : next[p].id = document.blocks[p].id /\ ~ Repeats(next, p)
      /\ DistinctIds(next)
  BY PreparedBlocks
<1>5. next \in Seq(Block) /\ DOMAIN next = 1..n
  BY <1>4, LenProperties DEF Drafts
<1>6. O = {p \in 1..n : next[p].text # document.blocks[p].text /\ TooLarge(next[p].text)}
  BY <1>3 DEF Oversized
<1>7. \A p \in 1..n : TooLarge(next[p].text) <=> p \in O
  BY <1>3, <1>6
<1>8. BytesAfter(changes) = BytesOf(next)
  BY BytesAfterIsSize
<1>9. Valid(whole) <=> O = {} /\ ~ (BytesOf(next) > MaxBytes)
  <2>1. BytesOf(next) \in Nat
    <3>1. PICK g : SumsTo(g, next)
      BY <1>5, BytesOfPrefixes
    <3> QED
      BY <1>3, <1>4, <3>1 DEF SumsTo
  <2>2. Valid(whole) <=> (\A p \in 1..n : ~ TooLarge(next[p].text)) /\ BytesOf(next) <= MaxBytes
    BY <1>4, <1>5 DEF Valid
  <2>3. BytesOf(next) <= MaxBytes <=> ~ (BytesOf(next) > MaxBytes)
    BY <2>1, DocumentAssumption
  <2> QED
    BY <1>6, <1>7, <2>2, <2>3
<1>10. ASSUME ~ Valid(whole)
       PROVE  /\ q \in 1..n /\ \A p \in O : q <= p
              /\ Validated(whole) = IF q \in O THEN Error("BlockTooLarge", document.blocks[q].id)
                                    ELSE DocumentTooLarge
  <2>1. /\ q \in 1..Len(next)
        /\ \A p \in 1..Len(next) : Faulty(next, p) => q <= p
        /\ Validated(whole) = FaultAt(next, q)
    BY <1>4, <1>10, FirstFault
  <2> HIDE DEF q, O, next
  <2>2. \A p \in O : p \in 1..n /\ Faulty(next, p)
    BY <1>6, <1>7 DEF Faulty
  <2> QED
    BY <1>4, <1>7, <2>1, <2>2 DEF FaultAt
<1>11. InPlace(changes) =
         IF U # {} THEN Error("UnknownBlock", changes[Min(U)].id)
         ELSE IF O # {} THEN Error("BlockTooLarge", document.blocks[Min(O)].id)
         ELSE IF BytesOf(next) > MaxBytes THEN DocumentTooLarge ELSE whole
  BY <1>8 DEF InPlace
<1>12. O # {} => /\ Min(O) \in O /\ Min(O) \in 1..n /\ \A p \in O : Min(O) <= p
                 /\ Error("BlockTooLarge", document.blocks[Min(O)].id) \in Errors
  <2>1. O \in SUBSET Nat /\ O \subseteq 1..n
    BY <1>6
  <2> HIDE DEF O
  <2>2. O # {} => Min(O) \in O /\ Min(O) \in 1..n /\ \A p \in O : Min(O) <= p
    BY <2>1, MinOfNat
  <2> QED
    BY <1>3, <2>2, ErrorTypes
<1>13. ASSUME U # {}
       PROVE  InPlace(changes) = ApplyChanges(document, changes) /\ InPlace(changes) \in Errors
  <2>1. U \in SUBSET Nat /\ U \subseteq 1..N
    BY <1>1 DEF Unknown
  <2> DEFINE i == Min(U)
  <2>2. i \in U
    <3> HIDE DEF U
    <3> QED
      BY <1>13, <2>1, MinOfNat
  <2>3. i \in 1..N /\ changes[i].kind # "document"
    BY <1>1, <2>1, <2>2 DEF Unknown
  <2> HIDE DEF i
  <2>4. changes[i] \in Change /\ ~ ChangesStructure(changes[i])
    BY <1>1, <2>3, ElementOfSeq DEF Structural
  <2>5. changes[i].id \in Ids
    BY <2>3, <2>4 DEF Change, ChangesStructure
  <2> HIDE DEF U, O, next
  <2> QED
    BY <1>2, <1>11, <1>13, <2>5, ErrorTypes DEF i
<1>14. CASE U = {} /\ O = {}
  <2>1. BytesOf(next) > MaxBytes => Validated(whole) = DocumentTooLarge
    BY <1>9, <1>10, <1>14
  <2>2. ~ (BytesOf(next) > MaxBytes) => Validated(whole) = whole
    BY <1>9, <1>14 DEF Validated
  <2> QED
    BY <1>2, <1>4, <1>11, <1>14, <2>1, <2>2, ErrorTypes
<1>15. CASE U = {} /\ O # {}
  <2>1. /\ Validated(whole) = IF q \in O THEN Error("BlockTooLarge", document.blocks[q].id)
                              ELSE DocumentTooLarge
        /\ q \in 1..n /\ q <= Min(O)
    BY <1>9, <1>10, <1>12, <1>15
  <2> HIDE DEF q
  <2>2. q \in O => q = Min(O)
    BY <1>3, <1>12, <1>15, <2>1
  <2> QED
    BY <1>2, <1>11, <1>12, <1>15, <2>1, <2>2
<1> QED
  BY <1>11, <1>13, <1>14, <1>15

(* A patch is a list of changes.                                           *)
LEMMA PatchesAreChanges == \A changes \in Patches : changes \in Seq(Change)
BY IncrementalAssumption

(* The invariants give the property the runs check of patches in place.    *)
LEMMA PatchedAsWhole == DocumentInv /\ RecordInv => PatchedInPlaceAsWhole
BY PatchesAreChanges, InPlaceAsWhole DEF PatchedInPlaceAsWhole

(* What a patch in place makes of the document, when it is not refused.    *)
LEMMA PatchedInPlace ==
  ASSUME DocumentInv, RecordInv, NEW expected, NEW changes \in Seq(Change),
         PatchInPlace(expected, changes)
  PROVE  document' = Prepared(changes) /\ document' = ApplyChanges(document, changes)
BY InPlaceAsWhole DEF PatchInPlace

(* Both ways of patching leave a document of the right size.               *)
LEMMA PatchKeepsDocument ==
  ASSUME DocumentInv, RecordInv, NEW expected, NEW changes \in Seq(Change),
         PatchInPlace(expected, changes) \/ PatchStructure(expected, changes)
  PROVE  /\ DocumentInv'
         /\ document' = ApplyChanges(document, changes)
         /\ document' \notin Errors \cup {document}
<1>1. CASE PatchInPlace(expected, changes)
  <2>1. /\ document' = InPlace(changes) /\ InPlace(changes) \notin Errors \cup {document}
        /\ ~ Structural(changes) /\ textBytes' = BytesAfter(changes)
    BY <1>1 DEF PatchInPlace
  <2>2. document' = Prepared(changes) /\ document' = ApplyChanges(document, changes)
    BY <1>1, PatchedInPlace
  <2>3. document' \in Documents
    BY <2>1, <2>2, ApplyChangesType DEF DocumentInv
  <2>4. textBytes' = BytesOf(document'.blocks)
    BY <2>1, <2>2, BytesAfterIsSize
  <2>5. revision' \in 0..MaxRevision
    BY <1>1, DocumentAssumption DEF PatchInPlace, DocumentInv
  <2> QED
    BY <2>1, <2>2, <2>3, <2>4, <2>5 DEF DocumentInv
<1>2. CASE PatchStructure(expected, changes)
  <2>1. /\ document' = ApplyChanges(document, changes)
        /\ document' \notin Errors \cup {document}
        /\ textBytes' = BytesOf(document'.blocks)
    BY <1>2 DEF PatchStructure
  <2>2. document' \in Documents
    BY <2>1, ApplyChangesType DEF DocumentInv
  <2>3. revision' \in 0..MaxRevision
    BY <1>2, DocumentAssumption DEF PatchStructure, DocumentInv
  <2> QED
    BY <2>1, <2>2, <2>3 DEF DocumentInv
<1> QED
  BY <1>1, <1>2

(* Records linked from slots keep the slots, and linking is a function of  *)
(* the slots alone.                                                        *)
LEMMA LinkedFacts ==
  ASSUME NEW n \in Nat, NEW slots, DOMAIN slots = 1..n
  PROVE  /\ DOMAIN Linked(slots) = 1..n
         /\ \A p \in 1..n : Linked(slots)[p].slot = slots[p]
         /\ slots = [p \in 1..n |-> slots[p]] =>
              Linked([p \in 1..n |-> Linked(slots)[p].slot]) = Linked(slots)
<1>1. DOMAIN Linked(slots) = 1..n /\ \A p \in 1..n : Linked(slots)[p].slot = slots[p]
  BY DEF Linked
<1>2. [p \in 1..n |-> Linked(slots)[p].slot] = [p \in 1..n |-> slots[p]]
  BY <1>1
<1> QED
  BY <1>1, <1>2

(* How many retired slots the database keeps is a number.                  *)
LEMMA RetiredLimitNat == \A n \in Nat : RetiredLimit(n) \in Nat
BY IncrementalAssumption DEF RetiredLimit

(* A patch in place changes what the records lead to, not the records.     *)
LEMMA InPlaceKeepsRecords ==
  ASSUME DocumentInv, RecordInv, NEW expected, NEW changes \in Seq(Change),
         PatchInPlace(expected, changes)
  PROVE  RecordInv'
<1> DEFINE new == Prepared(changes)
           N == Len(document.blocks)
           updated == {records[p].slot : p \in Updates(changes)}
<1>1. /\ document' = new /\ inputMeta' = document'.meta
      /\ records' = records /\ allocated' = allocated
      /\ inputs' = [s \in DOMAIN inputs |->
                      IF s \in updated THEN Folded(inputs[s], changes) ELSE inputs[s]]
  BY PatchedInPlace DEF PatchInPlace
<1>2. /\ inputs \in Seq(Block) /\ Len(inputs) \in Nat /\ DOMAIN inputs = 1..Len(inputs)
      /\ \A s \in 1..Len(inputs) : inputs[s] \in Block
  BY LenProperties, ElementOfSeq DEF RecordInv
<1>3. \A b \in Block : Folded(b, changes) \in Block
  <2> TAKE b \in Block
  <2>1. Len(changes) \in 0..Len(changes)
    BY LenProperties
  <2> QED
    BY <2>1, FoldedWhole, FoldedBlockType
<1>4. inputs' \in Seq(Block) /\ Len(inputs') = Len(inputs)
  <2>1. inputs' \in [1..Len(inputs) -> Block]
    <3> HIDE DEF updated
    <3> QED
      BY <1>1, <1>2, <1>3
  <2> QED
    BY <1>2, <2>1, FunctionIsSeq
<1>5. Live = 1..N /\ N \in Nat /\ Len(document'.blocks) = N
  BY <1>1, PreparedType, DocumentFacts DEF RecordInv
<1>6. ASSUME NEW p \in 1..N
      PROVE  /\ records[p].slot \in 1..Len(inputs)
             /\ inputs'[records[p].slot] = new.blocks[p]
  <2>1. records[p].slot \in 1..Len(inputs) /\ inputs[records[p].slot] = document.blocks[p]
    BY <1>5 DEF RecordInv, BlockAt
  <2>2. new.blocks[p] = Folded(document.blocks[p], changes)
    BY PreparedType
  <2>3. records[p].slot \notin updated => new.blocks[p] = document.blocks[p]
    <3>1. p \in Updates(changes) <=> new.blocks[p] # document.blocks[p]
      BY DocumentFacts DEF Updates
    <3> QED
      BY <3>1
  <2> HIDE DEF updated, new
  <2> QED
    BY <1>1, <1>2, <2>1, <2>2, <2>3
<1>7. Live' = Live
  BY <1>1 DEF Live
<1>8. (\A p \in Live : records[p].slot \in 1..Len(inputs) /\ BlockAt(p) = document.blocks[p])'
  <2> HIDE DEF new
  <2> QED
    BY <1>1, <1>4, <1>5, <1>6, <1>7 DEF BlockAt
<1>9. (records = Linked([p \in Live |-> records[p].slot]))'
  BY <1>1, <1>7 DEF RecordInv, Linked
<1>10. (Len(inputs) - Len(document.blocks) <= RetiredLimit(Len(document.blocks)))'
  BY <1>4, <1>5 DEF RecordInv, RetiredLimit
<1> QED
  BY <1>1, <1>4, <1>5, <1>7, <1>8, <1>9, <1>10 DEF RecordInv

(* Reconciling the records with another document                           *)

(* What has no record among the first p blocks, and how many there are.    *)
Unrecorded(d, p) == {q \in 1..p : ~HasRecord(d.blocks[q].id)}

(* Blocks without a record are numbered in document order, each with a     *)
(* number of its own.                                                      *)
LEMMA Ranks ==
  ASSUME NEW d, NEW n \in Nat
  PROVE  /\ \A p \in 0..n : InsertedUpTo(d, p) \in 0..n /\ InsertedUpTo(d, p) <= p
         /\ \A p, q \in 0..n : p <= q => InsertedUpTo(d, p) <= InsertedUpTo(d, q)
         /\ \A p, q \in 0..n : p < q /\ q \in Unrecorded(d, n) =>
              InsertedUpTo(d, p) < InsertedUpTo(d, q)
<1>1. ASSUME NEW p \in 0..n
      PROVE  /\ IsFiniteSet(Unrecorded(d, p)) /\ InsertedUpTo(d, p) \in 0..n
             /\ InsertedUpTo(d, p) <= p
             /\ InsertedUpTo(d, p) = Cardinality(Unrecorded(d, p))
  <2>1. IsFiniteSet(1..p) /\ Cardinality(1..p) = p
    BY FS_Interval
  <2>2. Unrecorded(d, p) \in SUBSET (1..p)
    BY DEF Unrecorded
  <2>3. IsFiniteSet(Unrecorded(d, p)) /\ Cardinality(Unrecorded(d, p)) <= p
    BY <2>1, <2>2, FS_Subset
  <2>4. Cardinality(Unrecorded(d, p)) \in Nat
    BY <2>3, FS_CardinalityType
  <2> QED
    BY <2>3, <2>4 DEF InsertedUpTo, Unrecorded
<1>2. ASSUME NEW p \in 0..n, NEW q \in 0..n, p <= q
      PROVE  /\ InsertedUpTo(d, p) <= InsertedUpTo(d, q)
             /\ p < q /\ q \in Unrecorded(d, n) => InsertedUpTo(d, p) < InsertedUpTo(d, q)
  <2>1. Unrecorded(d, p) \in SUBSET Unrecorded(d, q)
    BY <1>2 DEF Unrecorded
  <2>2. /\ Cardinality(Unrecorded(d, p)) <= Cardinality(Unrecorded(d, q))
        /\ Cardinality(Unrecorded(d, p)) = Cardinality(Unrecorded(d, q)) =>
             Unrecorded(d, p) = Unrecorded(d, q)
    BY <1>1, <2>1, FS_Subset
  <2>3. p < q /\ q \in Unrecorded(d, n) => q \in Unrecorded(d, q) /\ q \notin Unrecorded(d, p)
    BY DEF Unrecorded
  <2>4. InsertedUpTo(d, p) \in Nat /\ InsertedUpTo(d, q) \in Nat
    BY <1>1
  <2> QED
    BY <1>1, <2>2, <2>3, <2>4
<1> QED
  BY <1>1, <1>2

(* The ranks of the blocks without a record are 1 to their number.         *)
LEMMA RanksCover ==
  ASSUME NEW d, NEW n \in Nat
  PROVE  /\ \A p \in Unrecorded(d, n) : InsertedUpTo(d, p) \in 1..InsertedUpTo(d, n)
         /\ \A k \in 1..InsertedUpTo(d, n) : \E p \in Unrecorded(d, n) : InsertedUpTo(d, p) = k
<1> DEFINE U == Unrecorded(d, n)
           M == InsertedUpTo(d, n)
           f == [p \in U |-> InsertedUpTo(d, p)]
<1>1. U \in SUBSET (1..n) /\ n \in 0..n /\ 0 \in 0..n /\ M = Cardinality(U)
  BY DEF Unrecorded, InsertedUpTo
<1>2. M \in Nat
  BY <1>1, Ranks
<1>3. ASSUME NEW p \in U
      PROVE  InsertedUpTo(d, p) \in 1..M
  <2>1. p \in 0..n /\ p - 1 \in 0..n /\ p - 1 < p /\ p <= n
    BY <1>1
  <2>2. InsertedUpTo(d, p) <= M /\ InsertedUpTo(d, p) \in Nat
    BY <1>1, <2>1, Ranks
  <2>3. InsertedUpTo(d, p - 1) < InsertedUpTo(d, p) /\ InsertedUpTo(d, p - 1) \in Nat
    <3> DEFINE q == p - 1
    <3>1. q \in 0..n /\ q < p
      BY <2>1
    <3> HIDE DEF q
    <3>2. InsertedUpTo(d, q) < InsertedUpTo(d, p) /\ InsertedUpTo(d, q) \in 0..n
      BY <2>1, <3>1, Ranks
    <3> QED
      BY <3>2 DEF q
  <2> QED
    BY <1>2, <2>2, <2>3
<1>4. f \in Injection(U, 1..M)
  <2>1. f \in [U -> 1..M]
    <3> HIDE DEF U, M
    <3> QED
      BY <1>3
  <2>2. ASSUME NEW p \in U, NEW q \in U, f[p] = f[q]
        PROVE  p = q
    <3>1. p \in 0..n /\ q \in 0..n
      BY <1>1
    <3>2. InsertedUpTo(d, p) = InsertedUpTo(d, q)
      BY <2>2
    <3>3. InsertedUpTo(d, p) \in Nat /\ InsertedUpTo(d, q) \in Nat
      BY <3>1, Ranks
    <3>4. ~ (p < q) /\ ~ (q < p)
      BY <3>1, <3>2, <3>3, Ranks
    <3> QED
      BY <3>1, <3>4
  <2> HIDE DEF f, U, M
  <2> QED
    BY <2>1, <2>2 DEF Injection, IsInjective
<1>5. f \in Surjection(U, 1..M)
  <2>1. IsFiniteSet(1..M) /\ Cardinality(1..M) = M
    BY <1>2, FS_Interval
  <2> HIDE DEF f, U, M
  <2> QED
    BY <1>1, <1>4, <2>1, FS_Injection
<1>6. \A k \in 1..M : \E p \in U : f[p] = k
  <2> HIDE DEF f, U, M
  <2> QED
    BY <1>5 DEF Surjection
<1> QED
  BY <1>3, <1>6

(* What reconciling achieves: RecordInv of the next state, for document d. *)
ReconciledTo(d) ==
  /\ inputs' \in Seq(Block) /\ allocated' = Len(inputs')
  /\ Live' = 1..Len(d.blocks)
  /\ \A p \in 1..Len(d.blocks) :
       records'[p].slot \in 1..Len(inputs') /\ inputs'[records'[p].slot] = d.blocks[p]
  /\ records' = Linked([p \in 1..Len(d.blocks) |-> records'[p].slot])

(* Rebuilding the database leaves records that lead to the new document.   *)
LEMMA RebuildReconciles ==
  ASSUME NEW d, d.blocks \in Seq(Block), Rebuild(d)
  PROVE  ReconciledTo(d) /\ Len(inputs') = Len(d.blocks)
<1> DEFINE n == Len(d.blocks)
           slots == [p \in DOMAIN d.blocks |-> p]
<1>1. n \in Nat /\ DOMAIN d.blocks = 1..n
  BY LenProperties
<1>2. inputs' = d.blocks /\ records' = Linked(slots) /\ allocated' = n
  BY DEF Rebuild
<1>3. DOMAIN slots = 1..n /\ slots = [p \in 1..n |-> slots[p]] /\ \A p \in 1..n : slots[p] = p
  BY <1>1
<1> HIDE DEF slots
<1>4. /\ DOMAIN records' = 1..n /\ \A p \in 1..n : records'[p].slot = p
      /\ Linked([p \in 1..n |-> records'[p].slot]) = records'
  <2>1. /\ DOMAIN Linked(slots) = 1..n /\ \A p \in 1..n : Linked(slots)[p].slot = slots[p]
        /\ Linked([p \in 1..n |-> Linked(slots)[p].slot]) = Linked(slots)
    <3> HIDE DEF n
    <3> QED
      BY <1>1, <1>3, LinkedFacts
  <2> QED
    BY <1>2, <1>3, <2>1
<1>5. Live' = DOMAIN records'
  BY DEF Live
<1> QED
  BY <1>1, <1>2, <1>4, <1>5 DEF ReconciledTo

(* Reusing records, and allocating slots at the end for new blocks, leaves *)
(* records that lead to the new document.                                  *)
LEMMA ReuseReconciles ==
  ASSUME DocumentInv, RecordInv, NEW d, d.blocks \in Seq(Block), DistinctIds(d.blocks), Reuse(d)
  PROVE  ReconciledTo(d) /\ Len(inputs') = Len(inputs) + Inserted(d)
<1> DEFINE n == Len(d.blocks)
           L == Len(inputs)
           M == Inserted(d)
           U == Unrecorded(d, n)
           slots == [p \in DOMAIN d.blocks |->
                      IF HasRecord(d.blocks[p].id) THEN SlotOf(d.blocks[p].id)
                      ELSE Len(inputs) + InsertedUpTo(d, p)]
           taker(s) == CHOOSE p \in DOMAIN slots : slots[p] = s
           updated == [s \in 1..(Len(inputs) + Inserted(d)) |->
                        IF \E p \in DOMAIN slots : slots[p] = s
                        THEN d.blocks[taker(s)] ELSE inputs[s]]
<1>1. n \in Nat /\ DOMAIN d.blocks = 1..n /\ \A p \in 1..n : d.blocks[p] \in Block
  BY LenProperties, ElementOfSeq
<1>2. \A p, q \in 1..n : d.blocks[p].id = d.blocks[q].id => p = q
  BY <1>1, DistinctIdsInjective
<1>3. /\ \A p \in 0..n : InsertedUpTo(d, p) \in Nat
      /\ \A p, q \in 0..n : p < q /\ q \in U => InsertedUpTo(d, p) < InsertedUpTo(d, q)
      /\ M = InsertedUpTo(d, n) /\ n \in 0..n /\ M \in Nat
  <2>1. M = InsertedUpTo(d, n) /\ n \in 0..n
    BY <1>1 DEF Inserted
  <2> HIDE DEF n, M
  <2>2. \A p \in 0..n : InsertedUpTo(d, p) \in 0..n
    BY <1>1, Ranks
  <2>3. \A p, q \in 0..n : p < q /\ q \in Unrecorded(d, n) => InsertedUpTo(d, p) < InsertedUpTo(d, q)
    BY <1>1, Ranks
  <2>4. InsertedUpTo(d, n) \in 0..n
    BY <2>1, <2>2
  <2>5. M \in Nat
    BY <2>1, <2>4
  <2> QED
    BY <2>1, <2>2, <2>3, <2>5
<1>4. L \in Nat /\ M \in Nat /\ \A s \in 1..L : inputs[s] \in Block
  <2>1. L \in Nat /\ \A s \in 1..L : inputs[s] \in Block
    BY LenProperties, ElementOfSeq DEF RecordInv
  <2> QED
    BY <1>3, <2>1
<1>5. inputs' = updated /\ records' = Linked(slots) /\ allocated' = allocated + M
  BY DEF Reuse
<1>6. ASSUME NEW p \in 1..n, p \notin U
      PROVE  slots[p] \in 1..L /\ inputs[slots[p]].id = d.blocks[p].id
  <2> DEFINE id == d.blocks[p].id
  <2>1. HasRecord(id)
    BY <1>6 DEF Unrecorded
  <2>2. slots[p] = SlotOf(id)
    BY <1>1, <2>1
  <2> HIDE DEF slots
  <2>3. \E q \in Live : BlockAt(q).id = id
    BY <2>1 DEF HasRecord
  <2>4. \E q \in Live : BlockAt(q).id = id /\ SlotOf(id) = records[q].slot
    BY <2>3 DEF SlotOf
  <2> QED
    BY <2>2, <2>4 DEF RecordInv, BlockAt
<1>7. ASSUME NEW p \in U
      PROVE  p \in 1..n /\ slots[p] = L + InsertedUpTo(d, p) /\ slots[p] \in (L + 1)..(L + M)
  <2>1. p \in 1..n /\ ~ HasRecord(d.blocks[p].id)
    BY DEF Unrecorded
  <2>2. InsertedUpTo(d, p) \in 1..M
    BY <1>1, RanksCover DEF Inserted
  <2>3. slots[p] = L + InsertedUpTo(d, p)
    BY <1>1, <2>1
  <2> QED
    BY <1>4, <2>1, <2>2, <2>3
<1>8. DOMAIN slots = 1..n /\ slots = [p \in 1..n |-> slots[p]]
  BY <1>1
<1> HIDE DEF slots
<1>9. \A p \in 1..n : slots[p] \in 1..(L + M)
  BY <1>4, <1>6, <1>7
<1>10. ASSUME NEW p \in 1..n, NEW q \in 1..n, slots[p] = slots[q]
      PROVE  p = q
  <2>1. CASE p \notin U /\ q \notin U
    <3>1. d.blocks[p].id = d.blocks[q].id
      BY <1>6, <1>10, <2>1
    <3> QED
      BY <1>2, <3>1
  <2>2. CASE p \in U /\ q \in U
    <3>1. p \in 0..n /\ q \in 0..n
      BY <1>1
    <3>2. InsertedUpTo(d, p) \in Nat /\ InsertedUpTo(d, q) \in Nat
      BY <1>3, <3>1
    <3>3. InsertedUpTo(d, p) = InsertedUpTo(d, q)
      BY <1>4, <1>7, <1>10, <2>2, <3>2
    <3>4. ~ (p < q) /\ ~ (q < p)
      BY <1>3, <2>2, <3>1, <3>2, <3>3
    <3> QED
      BY <3>1, <3>4
  <2>3. CASE p \in U /\ q \notin U
    BY <1>4, <1>6, <1>7, <1>10, <2>3
  <2>4. CASE p \notin U /\ q \in U
    BY <1>4, <1>6, <1>7, <1>10, <2>4
  <2> QED
    BY <2>1, <2>2, <2>3, <2>4
<1>11. \A p \in 1..n : taker(slots[p]) = p
  <2> TAKE p \in 1..n
  <2>1. taker(slots[p]) \in 1..n /\ slots[taker(slots[p])] = slots[p]
    BY <1>8
  <2> HIDE DEF taker
  <2> QED
    BY <1>10, <2>1
<1>12. \A p \in 1..n : updated[slots[p]] = d.blocks[p]
  <2> TAKE p \in 1..n
  <2>1. /\ slots[p] \in 1..(Len(inputs) + Inserted(d))
        /\ \E q \in DOMAIN slots : slots[q] = slots[p]
        /\ taker(slots[p]) = p
    BY <1>8, <1>9, <1>11
  <2> HIDE DEF taker
  <2> QED
    BY <2>1
<1>13. ASSUME NEW s \in 1..(L + M)
       PROVE  updated[s] \in Block
  <2>1. CASE \E p \in 1..n : slots[p] = s
    <3>1. PICK p \in 1..n : slots[p] = s
      BY <2>1
    <3> HIDE DEF updated
    <3> QED
      BY <1>1, <1>12, <3>1
  <2>2. CASE ~ \E p \in 1..n : slots[p] = s
    <3>1. s \in 1..L
      <4>1. SUFFICES ASSUME s \notin 1..L PROVE FALSE
        OBVIOUS
      <4>2. s - L \in 1..M
        BY <1>4, <4>1
      <4>3. PICK p \in U : InsertedUpTo(d, p) = s - L
        BY <1>1, <4>2, RanksCover DEF Inserted
      <4>4. p \in 1..n /\ slots[p] = s
        BY <1>4, <1>7, <4>3
      <4> QED
        BY <2>2, <4>4
    <3>2. updated[s] = inputs[s]
      BY <1>8, <2>2
    <3> HIDE DEF updated
    <3> QED
      BY <1>4, <3>1, <3>2
  <2> QED
    BY <2>1, <2>2
<1>14. inputs' \in Seq(Block) /\ Len(inputs') = L + M
  <2>1. L + M \in Nat
    BY <1>4
  <2>2. updated \in [1..(L + M) -> Block]
    <3>1. updated = [s \in 1..(L + M) |-> updated[s]]
      OBVIOUS
    <3> HIDE DEF updated
    <3> QED
      BY <1>13, <3>1
  <2> HIDE DEF updated
  <2> QED
    BY <1>5, <2>1, <2>2, FunctionIsSeq
<1> HIDE DEF updated
<1>15. /\ DOMAIN records' = 1..n /\ \A p \in 1..n : records'[p].slot = slots[p]
       /\ Linked([p \in 1..n |-> records'[p].slot]) = records'
  BY <1>1, <1>5, <1>8, LinkedFacts
<1>16. Live' = DOMAIN records'
  BY DEF Live
<1>17. allocated' = L + M
  BY <1>5 DEF RecordInv
<1> QED
  BY <1>5, <1>9, <1>12, <1>14, <1>15, <1>16, <1>17 DEF ReconciledTo

(* Reconciling leaves no more slots behind than the budget allows.         *)
LEMMA Reconciles ==
  ASSUME DocumentInv, RecordInv, NEW d, d.blocks \in Seq(Block), DistinctIds(d.blocks),
         ReconcileInputs(d)
  PROVE  /\ ReconciledTo(d) /\ inputMeta' = d.meta
         /\ Len(inputs') - Len(d.blocks) <= RetiredLimit(Len(d.blocks))
<1> DEFINE n == Len(d.blocks)
<1>1. n \in Nat /\ allocated \in Nat /\ allocated = Len(inputs)
  BY LenProperties DEF RecordInv
<1>2. inputMeta' = d.meta
  BY DEF ReconcileInputs
<1>3. Inserted(d) \in Nat
  <2>1. n \in 0..n /\ Inserted(d) = InsertedUpTo(d, n)
    BY <1>1 DEF Inserted
  <2> HIDE DEF n
  <2>2. InsertedUpTo(d, n) \in 0..n
    BY <1>1, <2>1, Ranks
  <2> QED
    BY <1>1, <2>1, <2>2
<1>4. IF (allocated + Inserted(d)) - n > RetiredLimit(n) THEN Rebuild(d) ELSE Reuse(d)
  BY DEF ReconcileInputs
<1>5. RetiredLimit(n) \in Nat
  BY <1>1, RetiredLimitNat
<1>6. CASE Rebuild(d)
  <2>1. ReconciledTo(d) /\ Len(inputs') = n
    BY <1>6, RebuildReconciles
  <2> HIDE DEF n
  <2>2. Len(inputs') - n <= RetiredLimit(n)
    BY <1>1, <1>5, <2>1
  <2> QED
    BY <1>2, <2>1, <2>2 DEF n
<1>7. CASE Reuse(d) /\ ~ ((allocated + Inserted(d)) - n > RetiredLimit(n))
  <2>1. ReconciledTo(d) /\ Len(inputs') = Len(inputs) + Inserted(d)
    BY <1>7, ReuseReconciles
  <2> HIDE DEF n
  <2>2. Len(inputs') - n <= RetiredLimit(n)
    BY <1>1, <1>3, <1>5, <1>7, <2>1
  <2> QED
    BY <1>2, <2>1, <2>2 DEF n
<1> QED
  BY <1>4, <1>6, <1>7, Zenon

(* So a structural patch leaves records of the new document.               *)
LEMMA StructureKeepsRecords ==
  ASSUME DocumentInv, RecordInv, DocumentInv', NEW expected, NEW changes \in Seq(Change),
         PatchStructure(expected, changes)
  PROVE  RecordInv'
<1>1. ReconcileInputs(document')
  BY DEF PatchStructure
<1>2. document' \in Documents
  BY DEF DocumentInv
<1>3. document'.blocks \in Seq(Block) /\ DistinctIds(document'.blocks)
  BY <1>2, DocumentsAreValidDrafts DEF Valid, Drafts
<1>4. /\ ReconciledTo(document') /\ inputMeta' = document'.meta
      /\ Len(inputs') - Len(document'.blocks) <= RetiredLimit(Len(document'.blocks))
  BY <1>1, <1>3, Reconciles
<1>5. (Live = 1..Len(document.blocks))'
  BY <1>4 DEF ReconciledTo
<1>6. (\A p \in Live : records[p].slot \in 1..Len(inputs) /\ BlockAt(p) = document.blocks[p])'
  BY <1>4 DEF ReconciledTo, BlockAt
<1>7. (records = Linked([p \in Live |-> records[p].slot]))'
  BY <1>4 DEF ReconciledTo
<1>8. (Len(inputs) - Len(document.blocks) <= RetiredLimit(Len(document.blocks)))'
  BY <1>4 DEF RetiredLimit
<1> QED
  BY <1>4, <1>5, <1>6, <1>7, <1>8 DEF RecordInv, ReconciledTo

(* Windows                                                                 *)

(* A finite set of numbers that is not empty has a largest one.            *)
LEMMA LargestExists ==
  ASSUME NEW S \in SUBSET Nat, IsFiniteSet(S), S # {}
  PROVE  LargestOf(S) \in S /\ \A m \in S : m <= LargestOf(S)
<1>1. Cardinality(S) \in Nat /\ ExistsBijection(1..Cardinality(S), S)
  BY FS_CardinalityType
<1> DEFINE N == Cardinality(S)
<1>2. PICK f \in [1..N -> S] : \A s \in S : \E k \in 1..N : f[k] = s
  <2>1. PICK f \in Bijection(1..N, S) : TRUE
    BY <1>1 DEF ExistsBijection
  <2>2. f \in [1..N -> S] /\ \A s \in S : \E k \in 1..N : f[k] = s
    BY <2>1 DEF Bijection, Surjection
  <2> QED
    BY <2>2
<1> DEFINE T == {k \in 0..N : k = 0 \/ \E i \in 1..k : \A j \in 1..k : f[j] <= f[i]}
<1> HIDE DEF N
<1>3. 0 \in T
  BY <1>1 DEF N
<1>4. ASSUME NEW k \in 0..(N - 1), k \in T
      PROVE  k + 1 \in T
  <2>1. /\ k + 1 \in 0..N /\ 1..(k + 1) = (1..k) \cup {k + 1} /\ k + 1 \in 1..N
        /\ \A i \in 1..k : i \in 1..N
    BY <1>1 DEF N
  <2>2. \A i \in 1..N : f[i] \in Nat
    BY <1>2
  <2>3. CASE k = 0
    <3>1. \A j \in 1..(k + 1) : j = k + 1
      BY <2>3
    <3>2. k + 1 \in 1..(k + 1) /\ f[k + 1] \in Nat
      BY <2>1, <2>2
    <3>3. \A j \in 1..(k + 1) : f[j] <= f[k + 1]
      BY <3>1, <3>2
    <3> QED
      BY <2>1, <3>2, <3>3
  <2>4. CASE k # 0
    <3>1. PICK i \in 1..k : \A j \in 1..k : f[j] <= f[i]
      BY <1>4, <2>4
    <3> DEFINE best == IF f[k + 1] <= f[i] THEN i ELSE k + 1
    <3>2. best \in 1..(k + 1) /\ \A j \in 1..(k + 1) : f[j] <= f[best]
      BY SMTT(30), <2>1, <2>2, <3>1
    <3> HIDE DEF best
    <3> QED
      BY <2>1, <3>2
  <2> QED
    BY <2>3, <2>4
<1>5. 0..N \subseteq T
  <2>1. N \in Nat
    BY <1>1 DEF N
  <2> HIDE DEF T
  <2> QED
    BY <1>3, <1>4, <2>1, InductionUpTo
<1>6. N \in Nat /\ N # 0
  <2>1. PICK s \in S : TRUE
    OBVIOUS
  <2>2. PICK k \in 1..N : f[k] = s
    BY <1>2
  <2> QED
    BY <1>1, <2>2 DEF N
<1>7. PICK i \in 1..N : \A j \in 1..N : f[j] <= f[i]
  <2>1. N \in T
    <3>1. N \in 0..N
      BY <1>6
    <3> HIDE DEF T
    <3> QED
      BY <1>5, <3>1
  <2> QED
    BY <1>6, <2>1
<1>8. f[i] \in S /\ \A m \in S : m <= f[i]
  BY <1>2, <1>7
<1> QED
  BY <1>8 DEF LargestOf

(* The widest radius of a rule is a number.                                *)
LEMMA MaxRadiusNat == MaxRadius \in Nat
<1>1. CASE Radii = {}
  BY <1>1 DEF MaxRadius
<1>2. CASE Radii # {}
  <2>1. LargestOf(Radii) \in Radii
    <3>1. Radii \in SUBSET Nat /\ IsFiniteSet(Radii)
      BY DocumentAssumption
    <3> QED
      BY <1>2, <3>1, LargestExists
  <2> QED
    BY <1>2, <2>1, DocumentAssumption DEF MaxRadius
<1> QED
  BY <1>1, <1>2

(* A window shows the same blocks when the sequences agree on it.          *)
LEMMA SameWindow ==
  ASSUME NEW a \in Seq(Block), NEW b \in Seq(Block), NEW m \in Nat, NEW n \in Nat,
         m # 0, n <= Len(a), n <= Len(b), \A j \in m..n : a[j] = b[j]
  PROVE  SubSeq(a, m, n) = SubSeq(b, m, n)
<1>1. \A i \in m..n : a[i] \in Block /\ b[i] \in Block
  <2> TAKE i \in m..n
  <2>1. i \in 1..Len(a) /\ i \in 1..Len(b)
    BY LenProperties
  <2> QED
    BY <2>1, ElementOfSeq
<1>2. /\ SubSeq(a, m, n) \in Seq(Block) /\ SubSeq(b, m, n) \in Seq(Block)
      /\ Len(SubSeq(a, m, n)) = IF m <= n THEN n - m + 1 ELSE 0
      /\ Len(SubSeq(b, m, n)) = IF m <= n THEN n - m + 1 ELSE 0
      /\ \A i \in 1..(n - m + 1) : SubSeq(a, m, n)[i] = a[m + i - 1]
      /\ \A i \in 1..(n - m + 1) : SubSeq(b, m, n)[i] = b[m + i - 1]
  BY <1>1, SubSeqProperties
<1>3. ASSUME NEW i \in 1..Len(SubSeq(a, m, n))
      PROVE  SubSeq(a, m, n)[i] = SubSeq(b, m, n)[i]
  <2>1. i \in 1..(n - m + 1) /\ m + i - 1 \in m..n
    BY <1>2
  <2> QED
    BY <1>2, <2>1
<1> QED
  BY <1>2, <1>3, SeqEqual

(* A window of slots leads to the window of their blocks.                  *)
LEMMA WindowOfSlots ==
  ASSUME NEW b \in Seq(Block), NEW slots, NEW f, NEW m \in Nat, NEW n \in Nat,
         m # 0, n <= Len(b), \A j \in 1..Len(b) : f[slots[j]] = b[j]
  PROVE  [i \in DOMAIN SubSeq(slots, m, n) |-> f[SubSeq(slots, m, n)[i]]] = SubSeq(b, m, n)
<1> DEFINE S == {slots[j] : j \in m..n}
           w == SubSeq(slots, m, n)
           v == [i \in DOMAIN w |-> f[w[i]]]
<1>1. \A i \in m..n : slots[i] \in S /\ b[i] \in Block /\ i \in 1..Len(b)
  <2> TAKE i \in m..n
  <2>1. i \in 1..Len(b)
    BY LenProperties
  <2> QED
    BY <2>1, ElementOfSeq
<1>2. /\ w \in Seq(S) /\ Len(w) = IF m <= n THEN n - m + 1 ELSE 0
      /\ \A i \in 1..(n - m + 1) : w[i] = slots[m + i - 1]
  <2> HIDE DEF S
  <2> QED
    BY <1>1, SubSeqProperties
<1>3. /\ SubSeq(b, m, n) \in Seq(Block)
      /\ Len(SubSeq(b, m, n)) = IF m <= n THEN n - m + 1 ELSE 0
      /\ \A i \in 1..(n - m + 1) : SubSeq(b, m, n)[i] = b[m + i - 1]
  BY <1>1, SubSeqProperties
<1>4. DOMAIN w = 1..Len(w) /\ Len(w) \in Nat
  BY <1>2, LenProperties
<1> HIDE DEF w
<1>5. ASSUME NEW i \in 1..Len(w)
      PROVE  f[w[i]] = SubSeq(b, m, n)[i] /\ SubSeq(b, m, n)[i] \in Block
  <2>1. i \in 1..(n - m + 1) /\ m + i - 1 \in m..n
    BY <1>2
  <2>2. w[i] = slots[m + i - 1] /\ SubSeq(b, m, n)[i] = b[m + i - 1]
    BY <1>2, <1>3, <2>1
  <2> QED
    BY <1>1, <2>1, <2>2
<1>6. v \in [1..Len(w) -> Block] /\ \A i \in 1..Len(w) : v[i] = f[w[i]]
  BY <1>4, <1>5
<1> HIDE DEF v
<1>7. v \in Seq(Block) /\ Len(v) = Len(w)
  BY <1>4, <1>6, FunctionIsSeq
<1>8. v = SubSeq(b, m, n)
  <2>1. Len(v) = Len(SubSeq(b, m, n)) /\ \A i \in 1..Len(v) : v[i] = SubSeq(b, m, n)[i]
    BY <1>2, <1>3, <1>5, <1>6, <1>7
  <2> QED
    BY <1>3, <1>7, <2>1, SeqEqual
<1> QED
  BY <1>8 DEF v, w

(* The cache                                                               *)

(* What the rules would find now around position p.                        *)
Now(d, p) == RuleFindings(Before(d.blocks, p, MaxRadius), d.blocks[p],
                          After(d.blocks, p, MaxRadius))

(* The windows of neighborhood_bounds end within the document.             *)
LEMMA Windows ==
  ASSUME NEW s, Len(s) \in Nat, NEW p \in 1..Len(s)
  PROVE  \E m, n \in Nat :
           /\ Before(s, p, MaxRadius) = SubSeq(s, m, p - 1) /\ m # 0 /\ p - 1 \in Nat
           /\ p - MaxRadius <= m
           /\ After(s, p, MaxRadius) = SubSeq(s, p + 1, n)
           /\ n <= Len(s) /\ n <= p + MaxRadius
           /\ \A t : Len(t) = Len(s) =>
                /\ Before(t, p, MaxRadius) = SubSeq(t, m, p - 1)
                /\ After(t, p, MaxRadius) = SubSeq(t, p + 1, n)
<1> DEFINE m == IF MaxRadius < p THEN p - MaxRadius ELSE 1
           n == IF p + MaxRadius < Len(s) THEN p + MaxRadius ELSE Len(s)
<1>1. MaxRadius \in Nat
  BY MaxRadiusNat
<1>2. /\ m \in Nat /\ n \in Nat /\ m # 0 /\ p - 1 \in Nat
      /\ p - MaxRadius <= m /\ n <= Len(s) /\ n <= p + MaxRadius
  BY <1>1
<1>3. \A t : Len(t) = Len(s) =>
        /\ Before(t, p, MaxRadius) = SubSeq(t, m, p - 1)
        /\ After(t, p, MaxRadius) = SubSeq(t, p + 1, n)
  BY DEF Before, After
<1> HIDE DEF m, n
<1> QED
  BY <1>2, <1>3

(* What a record is refreshed to is what the rules find in the document.   *)
LEMMA RefreshedIsNow ==
  ASSUME DocumentInv, RecordInv, NEW p \in Live
  PROVE  Refreshed(p) = Now(document, p)
<1> DEFINE b == document.blocks
           slots == [q \in Live |-> records[q].slot]
<1>1. /\ b \in Seq(Block) /\ Len(b) \in Nat /\ Live = 1..Len(b) /\ p \in 1..Len(b)
  BY DocumentFacts DEF RecordInv
<1>2. slots \in [1..Len(b) -> 1..Len(inputs)] /\ \A j \in 1..Len(b) : inputs[slots[j]] = b[j]
  BY <1>1 DEF RecordInv, BlockAt
<1>3. Len(slots) = Len(b) /\ DOMAIN slots = 1..Len(b)
  <2> HIDE DEF slots, b
  <2> QED
    BY <1>1, <1>2, FunctionIsSeq
<1>4. records[p] = [slot |-> slots[p], before |-> Before(slots, p, MaxRadius),
                    after |-> After(slots, p, MaxRadius)]
  <2>1. records = Linked(slots)
    BY DEF RecordInv
  <2> HIDE DEF slots
  <2> QED
    BY <1>1, <1>3, <2>1 DEF Linked
<1> HIDE DEF slots, b
<1>5. PICK m, n \in Nat :
        /\ Before(b, p, MaxRadius) = SubSeq(b, m, p - 1) /\ m # 0 /\ p - 1 \in Nat
        /\ After(b, p, MaxRadius) = SubSeq(b, p + 1, n) /\ n <= Len(b)
        /\ Before(slots, p, MaxRadius) = SubSeq(slots, m, p - 1)
        /\ After(slots, p, MaxRadius) = SubSeq(slots, p + 1, n)
  <2>1. \E m, n \in Nat :
           /\ Before(b, p, MaxRadius) = SubSeq(b, m, p - 1) /\ m # 0 /\ p - 1 \in Nat
           /\ p - MaxRadius <= m
           /\ After(b, p, MaxRadius) = SubSeq(b, p + 1, n)
           /\ n <= Len(b) /\ n <= p + MaxRadius
           /\ \A t : Len(t) = Len(b) =>
                /\ Before(t, p, MaxRadius) = SubSeq(t, m, p - 1)
                /\ After(t, p, MaxRadius) = SubSeq(t, p + 1, n)
    BY <1>1, Windows
  <2> QED
    BY <1>3, <2>1
<1>6. [i \in DOMAIN Before(slots, p, MaxRadius) |-> inputs[Before(slots, p, MaxRadius)[i]]]
        = Before(b, p, MaxRadius)
  <2>1. p - 1 <= Len(b)
    BY <1>1
  <2>2. [i \in DOMAIN SubSeq(slots, m, p - 1) |-> inputs[SubSeq(slots, m, p - 1)[i]]]
          = SubSeq(b, m, p - 1)
    BY SMTT(30), <1>1, <1>2, <1>5, <2>1, WindowOfSlots
  <2> QED
    BY <1>5, <2>2
<1>7. [i \in DOMAIN After(slots, p, MaxRadius) |-> inputs[After(slots, p, MaxRadius)[i]]]
        = After(b, p, MaxRadius)
  <2> DEFINE k == p + 1
  <2>1. k \in Nat /\ k # 0 /\ After(slots, p, MaxRadius) = SubSeq(slots, k, n)
        /\ After(b, p, MaxRadius) = SubSeq(b, k, n)
    BY <1>1, <1>5
  <2> HIDE DEF k
  <2>2. [i \in DOMAIN SubSeq(slots, k, n) |-> inputs[SubSeq(slots, k, n)[i]]]
          = SubSeq(b, k, n)
    BY SMTT(30), <1>1, <1>2, <1>5, <2>1, WindowOfSlots
  <2> QED
    BY <2>1, <2>2
<1>8. BlockAt(p) = b[p]
  BY DEF RecordInv, b
<1>9. Refreshed(p) = RuleFindings(Before(b, p, MaxRadius), b[p], After(b, p, MaxRadius))
  <2>1. records[p].before = Before(slots, p, MaxRadius) /\ records[p].after = After(slots, p, MaxRadius)
    BY <1>4
  <2> QED
    BY <1>6, <1>7, <1>8, <2>1 DEF Refreshed
<1> QED
  BY <1>9 DEF Now, b

(* Where no block within the widest radius differs, the rules find the     *)
(* same.                                                                   *)
LEMMA NowIsLocal ==
  ASSUME NEW d, NEW e, d.blocks \in Seq(Block), e.blocks \in Seq(Block),
         Len(d.blocks) = Len(e.blocks), NEW q \in 1..Len(d.blocks),
         \A p \in 1..Len(d.blocks) :
           d.blocks[p] # e.blocks[p] => ~ (q \in (p - MaxRadius)..(p + MaxRadius))
  PROVE  Now(d, q) = Now(e, q)
<1> DEFINE a == d.blocks
           b == e.blocks
<1>1. MaxRadius \in Nat /\ Len(a) \in Nat
  BY MaxRadiusNat, LenProperties
<1>2. a[q] = b[q]
  <2>1. q \in (q - MaxRadius)..(q + MaxRadius)
    BY <1>1
  <2> QED
    BY <2>1
<1>3. \E m, n \in Nat :
        /\ Before(a, q, MaxRadius) = SubSeq(a, m, q - 1) /\ m # 0 /\ q - 1 \in Nat
        /\ q - MaxRadius <= m
        /\ After(a, q, MaxRadius) = SubSeq(a, q + 1, n)
        /\ n <= Len(a) /\ n <= q + MaxRadius
        /\ \A t : Len(t) = Len(a) =>
             /\ Before(t, q, MaxRadius) = SubSeq(t, m, q - 1)
             /\ After(t, q, MaxRadius) = SubSeq(t, q + 1, n)
  <2> HIDE DEF a
  <2>1. q \in 1..Len(a)
    BY DEF a
  <2> QED
    BY <1>1, <2>1, Windows
<1>4. PICK m, n \in Nat :
        /\ m # 0 /\ q - 1 \in Nat /\ q - MaxRadius <= m /\ n <= Len(a) /\ n <= q + MaxRadius
        /\ Before(a, q, MaxRadius) = SubSeq(a, m, q - 1)
        /\ After(a, q, MaxRadius) = SubSeq(a, q + 1, n)
        /\ Before(b, q, MaxRadius) = SubSeq(b, m, q - 1)
        /\ After(b, q, MaxRadius) = SubSeq(b, q + 1, n)
  BY <1>3
<1>5. SubSeq(a, m, q - 1) = SubSeq(b, m, q - 1)
  <2>1. \A j \in m..(q - 1) : a[j] = b[j]
    <3> TAKE j \in m..(q - 1)
    <3>1. j \in 1..Len(a) /\ q \in (j - MaxRadius)..(j + MaxRadius)
      BY <1>1, <1>4
    <3> QED
      BY <3>1
  <2>2. q - 1 <= Len(a) /\ q - 1 <= Len(b)
    BY <1>1
  <2> HIDE DEF a, b
  <2> QED
    BY <1>4, <2>1, <2>2, SameWindow DEF a, b
<1>6. SubSeq(a, q + 1, n) = SubSeq(b, q + 1, n)
  <2>1. \A j \in (q + 1)..n : a[j] = b[j]
    <3> TAKE j \in (q + 1)..n
    <3>1. j \in 1..Len(a) /\ q \in (j - MaxRadius)..(j + MaxRadius)
      BY <1>1, <1>4
    <3> QED
      BY <3>1
  <2>2. q + 1 \in Nat /\ q + 1 # 0 /\ n <= Len(b)
    BY SMTT(30), <1>1, <1>4
  <2> QED
    BY <1>4, <2>1, <2>2, SameWindow
<1> QED
  BY <1>2, <1>4, <1>5, <1>6 DEF Now

(* What the cache holds for a position that is not dirty is what the rules *)
(* would find now, and it holds nothing for a position without findings.   *)
CacheInv ==
  /\ cache = [initialized |-> cache.initialized, byPosition |-> cache.byPosition,
              dirty |-> cache.dirty]
  /\ cache.initialized \in BOOLEAN
  /\ cache.dirty \subseteq Live /\ DOMAIN cache.byPosition \subseteq Live
  /\ cache.initialized =>
       \A p \in Live \ cache.dirty :
         IF p \in DOMAIN cache.byPosition
         THEN cache.byPosition[p] = Now(document, p) /\ Now(document, p) # {}
         ELSE Now(document, p) = {}

(* A cleared cache claims nothing.                                         *)
LEMMA ClearedCacheHolds == cache = ClearedCache => CacheInv
BY DEF CacheInv, ClearedCache, NoFindings

(* A patch in place dirties every block whose window it touched, so what   *)
(* the cache still claims is still so.                                     *)
LEMMA InPlaceKeepsCache ==
  ASSUME DocumentInv, RecordInv, CacheInv, NEW expected, NEW changes \in Seq(Change),
         PatchInPlace(expected, changes), RecordInv'
  PROVE  CacheInv'
<1> DEFINE new == Prepared(changes)
           N == Len(document.blocks)
           near == {q \in Live : \E p \in Updates(changes) : q \in (p - MaxRadius)..(p + MaxRadius)}
<1>1. document' = new /\ records' = records /\ cache' = InvalidatedAround(Updates(changes))
  BY PatchedInPlace DEF PatchInPlace
<1>2. Live' = Live /\ Live = 1..N
  BY <1>1 DEF Live, RecordInv
<1>3. cache' = IF ~ cache.initialized THEN cache
               ELSE [initialized |-> cache.initialized, byPosition |-> cache.byPosition,
                     dirty |-> cache.dirty \cup near]
  <2>1. cache' = IF ~ cache.initialized THEN cache
                 ELSE [cache EXCEPT !.dirty = @ \cup near]
    BY <1>1 DEF InvalidatedAround
  <2>2. \E i, b, d : cache = [initialized |-> i, byPosition |-> b, dirty |-> d]
    BY DEF CacheInv
  <2>3. PICK i, b, d : cache = [initialized |-> i, byPosition |-> b, dirty |-> d]
    BY <2>2
  <2> HIDE DEF near
  <2> DEFINE D == d \cup near
  <2>4. [cache EXCEPT !.dirty = @ \cup near] =
          [initialized |-> i, byPosition |-> b, dirty |-> D]
    <3>1. cache.dirty = d
      BY <2>3
    <3>2. [cache EXCEPT !.dirty = @ \cup near] = [cache EXCEPT !.dirty = D]
      BY <3>1
    <3> HIDE DEF D
    <3> QED
      BY <2>3, <3>2
  <2>5. i = cache.initialized /\ b = cache.byPosition /\ d = cache.dirty
    BY <2>3
  <2> QED
    BY <2>1, <2>4, <2>5
<1>4. /\ document.blocks \in Seq(Block) /\ new.blocks \in Seq(Block) /\ Len(new.blocks) = N
      /\ \A p \in 1..N : p \in Updates(changes) <=> new.blocks[p] # document.blocks[p]
  <2>1. DOMAIN document.blocks = 1..N
    BY DocumentFacts
  <2> QED
    BY <2>1, PreparedType, DocumentFacts DEF Updates
<1> HIDE DEF new
<1>5. ASSUME NEW q \in Live, q \notin near
      PROVE  Now(document, q) = Now(new, q)
  <2>1. \A p \in 1..N :
          document.blocks[p] # new.blocks[p] => ~ (q \in (p - MaxRadius)..(p + MaxRadius))
    BY <1>4, <1>5
  <2>2. q \in 1..Len(document.blocks)
    BY <1>2
  <2> QED
    BY <1>4, <2>1, <2>2, NowIsLocal
<1> HIDE DEF near
<1>6. near \subseteq Live
  BY DEF near
<1>7. CASE ~ cache.initialized
  BY <1>1, <1>2, <1>3, <1>7 DEF CacheInv
<1>8. CASE cache.initialized
  <2>1. cache' = [initialized |-> cache.initialized, byPosition |-> cache.byPosition,
                  dirty |-> cache.dirty \cup near]
    BY <1>3, <1>8
  <2>2. /\ cache'.initialized = cache.initialized /\ cache'.byPosition = cache.byPosition
        /\ cache'.dirty = cache.dirty \cup near
    BY <2>1
  <2>3. cache' = [initialized |-> cache'.initialized, byPosition |-> cache'.byPosition,
                  dirty |-> cache'.dirty]
    BY <2>1, <2>2
  <2>4. cache'.dirty \subseteq Live' /\ DOMAIN cache'.byPosition \subseteq Live'
    BY <1>2, <1>6, <2>2 DEF CacheInv
  <2>5. ASSUME NEW p \in Live' \ cache'.dirty
        PROVE  IF p \in DOMAIN cache'.byPosition
               THEN cache'.byPosition[p] = Now(document', p) /\ Now(document', p) # {}
               ELSE Now(document', p) = {}
    <3>1. p \in Live \ cache.dirty /\ p \notin near
      BY <1>2, <2>2
    <3>2. Now(document', p) = Now(document, p)
      BY <1>1, <1>5, <3>1
    <3> QED
      BY <1>8, <2>2, <3>1, <3>2 DEF CacheInv
  <2> QED
    BY <1>8, <2>2, <2>3, <2>4, <2>5 DEF CacheInv
<1> QED
  BY <1>7, <1>8

(* Every finding is one of the block it was found for.                     *)
LEMMA FindingsAreLocal ==
  ASSUME NEW before, NEW block, NEW after,
         RuleFindings(before, block, after) # Failed,
         NEW f \in RuleFindings(before, block, after)
  PROVE  f.block = block
<1>1. RuleFindings(before, block, after) =
        BlockFindings(block) \cup UNION {NeighborhoodFindings(before, block, after, r) : r \in Radii}
  BY DEF RuleFindings
<1>2. CASE f \in BlockFindings(block)
  BY <1>2 DEF BlockFindings
<1>3. ASSUME NEW r \in Radii, f \in NeighborhoodFindings(before, block, after, r)
      PROVE  f.block = block
  BY <1>3 DEF NeighborhoodFindings
<1> QED
  BY <1>1, <1>2, <1>3

(* What an analysis collects, when no rule fails.                          *)
LEMMA MergedIsCurrent ==
  ASSUME DocumentInv, RecordInv, CacheInv
  PROVE  /\ DOMAIN Merged = {p \in Live : Now(document, p) # {}}
         /\ \A p \in DOMAIN Merged : Merged[p] = Now(document, p)
<1> DEFINE kept == IF CollectsAll THEN {} ELSE DOMAIN cache.byPosition \ ToRefresh
           found == {p \in ToRefresh : Refreshed(p) # {}}
<1>1. Merged = [p \in kept \cup found |-> IF p \in found THEN Refreshed(p) ELSE cache.byPosition[p]]
  BY DEF Merged
<1>2. ToRefresh \subseteq Live
  BY DEF ToRefresh, CacheInv
<1>3. \A p \in ToRefresh : Refreshed(p) = Now(document, p)
  BY <1>2, RefreshedIsNow
<1>4. found = {p \in ToRefresh : Now(document, p) # {}}
  BY <1>3
<1>5. \A p \in kept : p \in Live /\ p \notin ToRefresh /\ cache.byPosition[p] = Now(document, p)
                      /\ Now(document, p) # {}
  BY DEF CollectsAll, ToRefresh, CacheInv
<1>6. \A p \in Live \ ToRefresh : Now(document, p) # {} => p \in kept
  BY DEF CollectsAll, ToRefresh, CacheInv
<1> HIDE DEF kept, found
<1>7. DOMAIN Merged = kept \cup found
  BY <1>1
<1>8. kept \cup found = {p \in Live : Now(document, p) # {}}
  BY <1>2, <1>4, <1>5, <1>6
<1>9. ASSUME NEW p \in kept \cup found
      PROVE  Merged[p] = Now(document, p)
  <2>1. Merged[p] = IF p \in found THEN Refreshed(p) ELSE cache.byPosition[p]
    BY <1>1
  <2> QED
    BY <1>3, <1>4, <1>5, <2>1
<1> QED
  BY <1>7, <1>8, <1>9

(* An analysis leaves the cache as it was when a rule fails, and current   *)
(* for every block when none does.                                         *)
LEMMA AnalyzeKeepsCache ==
  ASSUME DocumentInv, RecordInv, CacheInv, Analyze
  PROVE  CacheInv'
<1>1. cache' = Collected /\ UNCHANGED <<document, records>>
  BY DEF Analyze, databaseVars
<1>2. Live' = Live
  BY <1>1 DEF Live
<1>3. CASE \E p \in ToRefresh : Refreshed(p) = Failed
  <2>1. cache' = cache
    BY <1>1, <1>3 DEF Collected
  <2> QED
    BY <1>1, <1>2, <2>1 DEF CacheInv
<1>4. CASE ~ \E p \in ToRefresh : Refreshed(p) = Failed
  <2>1. cache' = [initialized |-> TRUE, byPosition |-> Merged, dirty |-> {}]
    BY <1>1, <1>4 DEF Collected
  <2>2. /\ cache'.initialized = TRUE /\ cache'.byPosition = Merged /\ cache'.dirty = {}
    BY <2>1
  <2>3. cache' = [initialized |-> cache'.initialized, byPosition |-> cache'.byPosition,
                  dirty |-> cache'.dirty]
    BY <2>1, <2>2
  <2>4. /\ DOMAIN Merged = {p \in Live : Now(document, p) # {}}
        /\ \A p \in DOMAIN Merged : Merged[p] = Now(document, p)
    BY MergedIsCurrent
  <2>5. ASSUME NEW p \in Live'
        PROVE  IF p \in DOMAIN cache'.byPosition
               THEN cache'.byPosition[p] = Now(document', p) /\ Now(document', p) # {}
               ELSE Now(document', p) = {}
    BY <1>1, <1>2, <2>2, <2>4
  <2> QED
    BY <1>2, <2>2, <2>3, <2>4, <2>5 DEF CacheInv
<1> QED
  BY <1>3, <1>4

(* Analyzing what changed gives the analysis of the whole document.        *)
LEMMA SnapshotIsBatch ==
  ASSUME DocumentInv, RecordInv, CacheInv
  PROVE  Snapshot = BatchAnalysis(document)
<1> DEFINE b == document.blocks
           found == [p \in DOMAIN b |->
                       RuleFindings(Before(b, p, MaxRadius), b[p], After(b, p, MaxRadius))]
           counts == [p \in DOMAIN found |-> Cardinality(found[p])]
           Counts == [p \in Live |-> Cardinality(Refreshed(p))]
           fails == \E p \in DOMAIN found : found[p] = Failed
           loc == [p \in {p \in DOMAIN found : found[p] # {}} |-> found[p]]
           strays == \E p \in DOMAIN Merged : \E f \in Merged[p] : ~ Located(f)
<1>1. Live = DOMAIN b /\ b \in Seq(Block) /\ b = [p \in DOMAIN b |-> b[p]]
  <2>1. /\ document.blocks \in Seq(Block) /\ Live = 1..Len(document.blocks)
        /\ DOMAIN document.blocks = 1..Len(document.blocks)
    BY DocumentFacts DEF RecordInv
  <2>2. document.blocks \in [1..Len(document.blocks) -> Block]
    BY <2>1, LenProperties
  <2> QED
    BY <2>1, <2>2
<1>2. \A p \in Live : Refreshed(p) = Now(document, p) /\ BlockAt(p) = b[p]
  BY RefreshedIsNow DEF RecordInv
<1>3. DOMAIN found = Live /\ \A p \in Live : found[p] = Now(document, p)
  BY <1>1 DEF Now
<1>4. (\E p \in Live : Refreshed(p) = Failed) <=> fails
  <2> HIDE DEF found
  <2> QED
    BY <1>2, <1>3
<1>5. /\ DOMAIN Merged = {p \in Live : Now(document, p) # {}}
      /\ \A p \in DOMAIN Merged : Merged[p] = Now(document, p)
      /\ Merged = [p \in DOMAIN Merged |-> Merged[p]]
  <2>1. Merged = [p \in DOMAIN Merged |-> Merged[p]]
    BY DEF Merged
  <2> QED
    BY <2>1, MergedIsCurrent
<1>6. Merged = loc
  <2>1. {p \in DOMAIN found : found[p] # {}} = DOMAIN Merged
    <3> HIDE DEF found
    <3> QED
      BY <1>3, <1>5
  <2> HIDE DEF found
  <2> QED
    BY <1>3, <1>5, <2>1
<1>7. Counts = counts
  <2> HIDE DEF found
  <2> QED
    BY <1>2, <1>3
<1>8. InputFacts = Facts(b, document.meta, counts)
  <2>1. [p \in Live |-> BlockAt(p)] = b
    BY <1>1, <1>2
  <2>2. inputMeta = document.meta
    BY DEF RecordInv
  <2>3. InputFacts = Facts([p \in Live |-> BlockAt(p)], inputMeta, Counts)
    BY DEF InputFacts
  <2> HIDE DEF counts, Counts
  <2> QED
    BY <1>7, <2>1, <2>2, <2>3
<1>9. ASSUME ~ fails
      PROVE  ~ strays
  <2> SUFFICES ASSUME NEW p \in DOMAIN Merged, NEW f \in Merged[p]
               PROVE  Located(f)
    OBVIOUS
  <2>1. p \in Live /\ f \in Now(document, p) /\ Now(document, p) # Failed
    <3> HIDE DEF found
    <3> QED
      BY <1>3, <1>5, <1>9
  <2>2. f.block = b[p]
    BY <2>1, FindingsAreLocal DEF Now
  <2>3. Size[b[p].text] \in Nat
    <3>1. b[p] \in Block
      BY <1>1, <2>1, DocumentFacts
    <3> QED
      BY <3>1, DocumentAssumption DEF Block
  <2> QED
    BY <1>1, <1>2, <2>1, <2>2, <2>3 DEF Located
<1>10. Snapshot = IF fails \/ strays THEN Failed ELSE [local |-> Merged, global |-> InputFacts]
  BY <1>4 DEF Snapshot
<1>11. BatchAnalysis(document) =
         IF fails THEN Failed ELSE [local |-> loc, global |-> Facts(b, document.meta, counts)]
  BY DEF BatchAnalysis
<1> HIDE DEF fails, strays, loc, counts
<1> QED
  BY <1>6, <1>8, <1>9, <1>10, <1>11

(* The theorems                                                            *)

Inv == DocumentInv /\ RecordInv /\ CacheInv

(* The invariant holds when a session is opened.                           *)
LEMMA InitInv == Init => Inv
<1> SUFFICES ASSUME Init PROVE Inv
  OBVIOUS
<1> DEFINE n == Len(document.blocks)
           slots == [p \in DOMAIN document.blocks |-> p]
<1>1. DocumentInv
  BY DocumentAssumption DEF Init, DocumentInv
<1>2. /\ n \in Nat /\ DOMAIN document.blocks = 1..n /\ document.blocks \in Seq(Block)
  BY <1>1, DocumentFacts
<1>3. inputs = document.blocks /\ records = Linked(slots) /\ allocated = n
      /\ inputMeta = document.meta
  BY DEF Init
<1>4. DOMAIN slots = 1..n /\ slots = [p \in 1..n |-> slots[p]] /\ \A p \in 1..n : slots[p] = p
  BY <1>2
<1> HIDE DEF slots
<1>5. /\ Live = 1..n /\ \A p \in 1..n : records[p].slot = p
      /\ Linked([p \in 1..n |-> records[p].slot]) = records
  <2>1. DOMAIN records = 1..n /\ \A p \in 1..n : records[p].slot = slots[p]
    BY <1>2, <1>3, <1>4, LinkedFacts
  <2>2. \A p \in 1..n : records[p].slot = p
    BY <1>4, <2>1
  <2>3. [p \in 1..n |-> records[p].slot] = slots
    BY <1>4, <2>1
  <2> QED
    BY <1>3, <2>1, <2>2, <2>3 DEF Live
<1>6. Len(inputs) - n <= RetiredLimit(n)
  BY <1>2, <1>3, RetiredLimitNat
<1>7. RecordInv
  BY <1>2, <1>3, <1>5, <1>6 DEF RecordInv, BlockAt
<1>8. CacheInv
  BY ClearedCacheHolds DEF Init
<1> QED
  BY <1>1, <1>7, <1>8 DEF Inv

(* Every step keeps the invariant.                                         *)
LEMMA NextInv == Inv /\ [Next]_vars => Inv'
<1> SUFFICES ASSUME Inv, [Next]_vars PROVE Inv'
  OBVIOUS
<1>1. ASSUME NEW expected \in 0..MaxRevision, NEW changes \in Patches,
             PatchInPlace(expected, changes)
      PROVE  Inv'
  <2>1. changes \in Seq(Change)
    BY PatchesAreChanges
  <2>2. DocumentInv'
    BY <1>1, <2>1, PatchKeepsDocument DEF Inv
  <2>3. RecordInv'
    BY <1>1, <2>1, InPlaceKeepsRecords DEF Inv
  <2>4. CacheInv'
    BY <1>1, <2>1, <2>3, InPlaceKeepsCache DEF Inv
  <2> QED
    BY <2>2, <2>3, <2>4 DEF Inv
<1>2. ASSUME NEW expected \in 0..MaxRevision, NEW changes \in Patches,
             PatchStructure(expected, changes)
      PROVE  Inv'
  <2>1. changes \in Seq(Change)
    BY PatchesAreChanges
  <2>2. DocumentInv'
    BY <1>2, <2>1, PatchKeepsDocument DEF Inv
  <2>3. RecordInv'
    BY <1>2, <2>1, <2>2, StructureKeepsRecords DEF Inv
  <2>4. cache' = ClearedCache
    BY <1>2 DEF PatchStructure
  <2>5. CacheInv'
    BY <2>4 DEF CacheInv, ClearedCache, NoFindings
  <2> QED
    BY <2>2, <2>3, <2>5 DEF Inv
<1>3. CASE Analyze
  <2>1. UNCHANGED <<document, textBytes, revision, inputs, records, inputMeta, allocated>>
    BY <1>3 DEF Analyze, databaseVars
  <2>2. DocumentInv' /\ RecordInv'
    BY <2>1 DEF Inv, DocumentInv, RecordInv, Live, BlockAt
  <2>3. CacheInv'
    BY <1>3, AnalyzeKeepsCache DEF Inv
  <2> QED
    BY <2>2, <2>3 DEF Inv
<1>4. CASE UNCHANGED vars
  <2>1. UNCHANGED <<document, textBytes, revision, inputs, records, inputMeta, allocated, cache>>
    BY <1>4 DEF vars, databaseVars
  <2> QED
    BY <2>1 DEF Inv, DocumentInv, RecordInv, CacheInv, Live, BlockAt
<1>5. CASE RefusePatch
  <2>1. UNCHANGED vars
    BY <1>5 DEF RefusePatch
  <2> QED
    BY <1>4, <2>1
<1> QED
  BY <1>1, <1>2, <1>3, <1>4, <1>5 DEF Next

(* In every reachable state the document is valid and its size is the one  *)
(* kept, the records lead to its blocks, and every position the cache does *)
(* not call dirty has the findings a whole analysis would give it: the     *)
(* inductive invariant of the incremental session.                         *)
THEOREM Inductive == Spec => []Inv
<1> QED
  BY InitInv, NextInv, PTL DEF Spec

(* The four copies of the document agree in every reachable state.         *)
THEOREM CopiesAgree == Spec => []RecordsMatchDocument
<1>1. ASSUME Inv PROVE RecordsMatchDocument
  <2>1. DocumentInv /\ RecordInv /\ CacheInv
    BY <1>1 DEF Inv
  <2>2. Live = 1..Len(document.blocks) /\ Len(document.blocks) \in Nat
        /\ DOMAIN document.blocks = 1..Len(document.blocks)
    BY <2>1, DocumentFacts DEF RecordInv
  <2>3. Len(records) = Len(document.blocks)
    <3> DEFINE S == {records[p] : p \in Live}
    <3>1. records \in [1..Len(document.blocks) -> S]
      <4>1. records = [p \in 1..Len(document.blocks) |-> records[p]]
        BY <2>1, <2>2 DEF RecordInv, Linked, Live
      <4> QED
        BY <2>2, <4>1
    <3> HIDE DEF S
    <3> QED
      BY <2>2, <3>1, FunctionIsSeq
  <2>4. DOMAIN records = DOMAIN document.blocks
    BY <2>2 DEF Live
  <2> QED
    BY <2>1, <2>3, <2>4 DEF RecordsMatchDocument, DocumentInv, RecordInv, CacheInv
<1> QED
  BY <1>1, Inductive, PTL

(* What the cache would serve is what the rules would find now.            *)
THEOREM CacheIsCurrent == Spec => []CacheHoldsCurrentFindings
<1>1. Inv => CacheHoldsCurrentFindings
  BY DEF Inv, CacheInv, CacheHoldsCurrentFindings, Now
<1> QED
  BY <1>1, Inductive, PTL

(* A patch in place has the outcome of the patch as a whole: the same      *)
(* document or the same error, except that a block over its limit goes     *)
(* before a document over its own.                                         *)
THEOREM InPlaceIsWhole == Spec => []PatchedInPlaceAsWhole
<1>1. Inv => PatchedInPlaceAsWhole
  BY PatchedAsWhole DEF Inv
<1> QED
  BY <1>1, Inductive, PTL

(* The session implements the analysis of whole documents.                 *)
THEOREM SessionImplementsAnalysis == Spec => ImplementsAnalysis
<1>1. Init => Abstract!Init
  BY SameDocuments DEF Init, Abstract!Init
<1>2. Inv /\ [Next]_vars => [Abstract!Next]_(Abstract!analysisVars)
  <2> SUFFICES ASSUME Inv, [Next]_vars
               PROVE  Abstract!Next \/ UNCHANGED Abstract!analysisVars
    OBVIOUS
  <2>1. ASSUME NEW expected \in 0..MaxRevision, NEW changes \in Patches,
               PatchInPlace(expected, changes) \/ PatchStructure(expected, changes)
        PROVE  Abstract!Next
    <3>1. changes \in Seq(Change)
      BY PatchesAreChanges
    <3>2. document' = ApplyChanges(document, changes) /\ document' \notin Errors \cup {document}
      BY <2>1, <3>1, PatchKeepsDocument DEF Inv
    <3>3. revision < MaxRevision /\ revision' = revision + 1 /\ report' = NoReport
      BY <2>1 DEF PatchInPlace, PatchStructure
    <3>4. Abstract!Patch(revision, changes)
      BY <3>2, <3>3, SameApplyChanges, SameErrors DEF Abstract!Patch
    <3> QED
      BY <3>4 DEF Abstract!Next
  <2>2. CASE Analyze
    <3>1. /\ report' = [revision |-> revision, findings |-> Snapshot]
          /\ UNCHANGED <<document, revision>>
      BY <2>2 DEF Analyze
    <3>2. Snapshot = Abstract!BatchAnalysis(document)
      BY SnapshotIsBatch, SameAnalysis DEF Inv
    <3> QED
      BY <3>1, <3>2 DEF Abstract!Next, Abstract!Analyze
  <2>3. CASE RefusePatch \/ UNCHANGED vars
    BY <2>3 DEF RefusePatch, vars, Abstract!analysisVars
  <2> QED
    BY <2>1, <2>2, <2>3 DEF Next
<1> QED
  BY <1>1, <1>2, Inductive, PTL DEF Spec, ImplementsAnalysis, Abstract!Spec

=================================================================================
