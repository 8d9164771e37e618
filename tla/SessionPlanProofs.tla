------------------------ MODULE SessionPlanProofs ------------------------
(***************************************************************************)
(* What holds of SessionPlan for any batches, limits and number of plans.  *)
(*                                                                         *)
(* The folds of the model (a document over its mentions, a batch over its  *)
(* documents, a request over its inputs, a total) are first laid out as    *)
(* runs: g[0] is the start, g[k + 1] what the next element makes of g[k],  *)
(* and g[Len] the fold.  What a fold promises is then shown up to each k   *)
(* (Induction).  On top of it the inductive invariant, IInv: the session   *)
(* is sound, every plan still holds what its batch makes of the session it *)
(* was planned on, and what was published restores.                        *)
(***************************************************************************)
EXTENDS SessionPlan, Induction, SequenceTheorems, TLAPS

-----------------------------------------------------------------------------
(* No two entities share a pseudonym, and pseudonyms are numbered from 1.  *)
Sound(s) ==
  /\ s \in Sessions
  /\ \A x \in Named(s) : s.names[x] \in 1..Cardinality(Named(s))
  /\ \A x, y \in Named(s) : s.names[x] = s.names[y] => x = y

(* What a redaction leaves as it was.                                      *)
Extends(s, t) ==
  /\ Named(s) \subseteq Named(t) /\ t.deleted = s.deleted
  /\ \A x \in Named(s) : t.names[x] = s.names[x]

(* The sessions a redaction can be in, and the error.                      *)
Outcomes == {s \in Sessions : Sound(s)} \cup {Failed}

(* A session is sound when it is created and when it is deleted.           *)
LEMMA NewIsSound ==
  ASSUME NEW deleted \in BOOLEAN
  PROVE  Sound([NewSession EXCEPT !.deleted = deleted]) /\ Sound(NewSession)
<1>1. /\ NewSession.deleted = FALSE /\ NewSession = [names |-> NewSession.names, deleted |-> FALSE]
      /\ NewSession.names \in [{} -> Nat] /\ {} \in SUBSET Identities
  BY DEF NewSession
<1> DEFINE s == [NewSession EXCEPT !.deleted = deleted]
<1>2. s \in Sessions /\ NewSession \in Sessions
  <2>1. s = [names |-> NewSession.names, deleted |-> deleted]
    BY <1>1
  <2> QED
    BY <1>1, <2>1 DEF Sessions
<1>3. DOMAIN s.names = {} /\ DOMAIN NewSession.names = {}
  BY <1>1
<1> QED
  BY <1>2, <1>3 DEF Sound, Named

(* A sound session in its parts.                                           *)
LEMMA SessionFacts ==
  ASSUME NEW s, Sound(s)
  PROVE  /\ s = [names |-> s.names, deleted |-> s.deleted] /\ s.deleted \in BOOLEAN
         /\ s.names \in [Named(s) -> Nat] /\ Named(s) \in SUBSET Identities
         /\ IsFiniteSet(Named(s)) /\ Cardinality(Named(s)) \in Nat
<1>1. s \in Sessions
  BY DEF Sound
<1>2. /\ s = [names |-> s.names, deleted |-> s.deleted] /\ s.deleted \in BOOLEAN
      /\ s.names \in UNION {[S -> Nat] : S \in SUBSET Identities}
  BY <1>1 DEF Sessions
<1>3. PICK S \in SUBSET Identities : s.names \in [S -> Nat]
  BY <1>2
<1>4. Named(s) = S
  BY <1>3 DEF Named
<1>5. IsFiniteSet(S) /\ Cardinality(S) \in Nat
  BY BatchAssumption, FS_Subset, FS_CardinalityType
<1> QED
  BY <1>2, <1>3, <1>4, <1>5

(* A mention is named at the end, and nobody else's name changes.          *)
LEMMA MentionExtends ==
  ASSUME NEW s, Sound(s), NEW x \in Identities, WithMention(s, x) # Failed
  PROVE  /\ Sound(WithMention(s, x)) /\ Extends(s, WithMention(s, x))
         /\ x \in Named(WithMention(s, x))
<1>1. s # Failed
  BY DEF WithMention
<1>2. CASE x \in Named(s)
  <2>1. WithMention(s, x) = s
    BY <1>1, <1>2 DEF WithMention
  <2> QED
    BY <1>2, <2>1 DEF Extends
<1>3. CASE x \notin Named(s)
  <2> DEFINE n == Cardinality(Named(s)) + 1
             names == [y \in Named(s) \cup {x} |-> IF y = x THEN n ELSE s.names[y]]
             t == [s EXCEPT !.names = names]
  <2>1. WithMention(s, x) = t
    BY <1>1, <1>3 DEF WithMention
  <2>2. /\ s = [names |-> s.names, deleted |-> s.deleted] /\ s.deleted \in BOOLEAN
        /\ s.names \in [Named(s) -> Nat] /\ Named(s) \in SUBSET Identities
        /\ IsFiniteSet(Named(s)) /\ Cardinality(Named(s)) \in Nat
    BY SessionFacts
  <2>3. n \in Nat /\ n # 0 /\ Cardinality(Named(s) \cup {x}) = n
    <3>1. Cardinality(Named(s) \cup {x}) = Cardinality(Named(s)) + 1
      BY <1>3, <2>2, FS_AddElement
    <3> QED
      BY <2>2, <3>1
  <2>4. /\ names \in [Named(s) \cup {x} -> Nat] /\ DOMAIN names = Named(s) \cup {x}
        /\ names[x] = n /\ \A y \in Named(s) : names[y] = s.names[y]
    BY <1>3, <2>2, <2>3
  <2>5. \A y \in Named(s) : s.names[y] \in 1..Cardinality(Named(s))
    BY DEF Sound
  <2>6. t = [names |-> names, deleted |-> s.deleted]
    BY <2>2
  <2> HIDE DEF names, n
  <2>7. t.names = names /\ t.deleted = s.deleted /\ Named(t) = Named(s) \cup {x}
    BY <2>4, <2>6 DEF Named
  <2>8. t \in Sessions
    <3>1. Named(s) \cup {x} \in SUBSET Identities
      BY <2>2
    <3> QED
      BY <2>2, <2>4, <2>6, <3>1 DEF Sessions
  <2> HIDE DEF t
  <2>9. \A y \in Named(t) : t.names[y] \in 1..Cardinality(Named(t))
    <3>1. \A y \in Named(s) : names[y] \in 1..n
      BY <2>2, <2>3, <2>4, <2>5 DEF n
    <3> QED
      BY <2>3, <2>4, <2>7, <3>1
  <2>10. \A y, z \in Named(t) : t.names[y] = t.names[z] => y = z
    <3>1. \A y \in Named(s) : names[y] # n
      BY <2>2, <2>4, <2>5 DEF n
    <3>2. \A y, z \in Named(s) : names[y] = names[z] => y = z
      BY <2>4 DEF Sound
    <3> QED
      BY <2>4, <2>7, <3>1, <3>2
  <2>11. Sound(t)
    BY <2>8, <2>9, <2>10 DEF Sound
  <2>12. Extends(s, t)
    BY <2>4, <2>7 DEF Extends
  <2> QED
    BY <2>1, <2>7, <2>11, <2>12
<1> QED
  BY <1>2, <1>3

(* One more mention, and what came before it stays.                        *)
LEMMA ExtendsTransitive ==
  ASSUME NEW s, NEW t, NEW u, Extends(s, t), Extends(t, u)
  PROVE  Extends(s, u)
BY DEF Extends

-----------------------------------------------------------------------------
(* What one mention makes of an outcome is an outcome.                     *)
LEMMA MentionOutcome ==
  ASSUME NEW v \in Outcomes, NEW x \in Identities
  PROVE  WithMention(v, x) \in Outcomes
<1>1. CASE v = Failed
  BY <1>1 DEF WithMention, Outcomes
<1>2. CASE v # Failed /\ WithMention(v, x) = Failed
  BY <1>2 DEF Outcomes
<1>3. CASE v # Failed /\ WithMention(v, x) # Failed
  <2>1. Sound(v)
    BY <1>3 DEF Outcomes
  <2>2. Sound(WithMention(v, x))
    BY <1>3, <2>1, MentionExtends
  <2> QED
    BY <2>2 DEF Outcomes, Sound
<1> QED
  BY <1>1, <1>2, <1>3

(* A redaction of a document goes from mention to mention.                 *)
Mentions(g, s, mentions) ==
  /\ g[0] = s /\ g[Len(mentions)] = FoldLeft(WithMention, s, mentions)
  /\ \A k \in 0..(Len(mentions) - 1) : g[k + 1] = WithMention(g[k], mentions[k + 1])

(* Such a run exists for every document.                                   *)
LEMMA MentionsFold ==
  ASSUME NEW s, Sound(s), NEW mentions \in Seq(Identities)
  PROVE  \E g : Mentions(g, s, mentions)
<1> DEFINE N == Len(mentions)
           Def(f, S) == IF S = {} THEN s ELSE WithMention(f[S \ {Max(S)}], mentions[Max(S)])
           F == [x \in (1..N) \X Outcomes |-> WithMention(x[2], mentions[x[1]])]
           It == CHOOSE f : f = [S \in SUBSET (1..N) |-> Def(f, S)]
<1>1. N \in Nat /\ DOMAIN mentions = 1..N /\ \A i \in 1..N : mentions[i] \in Identities
  BY LenProperties, ElementOfSeq
<1>2. F \in [(1..N) \X Outcomes -> Outcomes]
  <2>1. \A v \in Outcomes, i \in 1..N : WithMention(v, mentions[i]) \in Outcomes
    BY <1>1, MentionOutcome
  <2> HIDE DEF N
  <2> QED
    BY <2>1
<1>3. s \in Outcomes
  BY DEF Outcomes, Sound
<1>4. FoldLeft(WithMention, s, mentions) = It[1..N]
  BY <1>1 DEF FoldLeft, MapThenFoldSet
<1>5. PICK iter \in [SUBSET (1..N) -> Outcomes] : FoldsTo(iter, N, s, F)
  <2> HIDE DEF F, N
  <2> QED
    BY <1>1, <1>2, <1>3, FoldExists DEF HasFold
<1>6. ASSUME NEW S \in SUBSET (1..N), S # {}
      PROVE  Max(S) \in 1..N /\ S \ {Max(S)} \in SUBSET (1..N)
  <2>1. S \in SUBSET (0..N)
    OBVIOUS
  <2>2. Max(S) \in S
    BY <1>1, <1>6, <2>1, MaxUpTo
  <2> QED
    BY <2>2
<1>7. iter = [S \in SUBSET (1..N) |-> Def(iter, S)]
  <2>1. ASSUME NEW S \in SUBSET (1..N)
        PROVE  iter[S] = Def(iter, S)
    <3>1. CASE S = {}
      BY <1>5, <3>1 DEF FoldsTo
    <3>2. CASE S # {}
      <4>1. Max(S) \in 1..N /\ S \ {Max(S)} \in SUBSET (1..N)
        BY <1>6, <3>2
      <4> HIDE DEF N
      <4>2. iter[S \ {Max(S)}] \in Outcomes
        BY <1>5, <4>1
      <4>3. iter[S] = F[<<Max(S), iter[S \ {Max(S)}]>>]
        <5> HIDE DEF F
        <5> QED
          BY <1>5, <3>2 DEF FoldsTo
      <4> QED
        BY <3>2, <4>1, <4>2, <4>3
    <3> QED
      BY <3>1, <3>2
  <2> HIDE DEF Def
  <2> QED
    BY <1>5, <2>1
<1>8. It = [S \in SUBSET (1..N) |-> Def(It, S)]
  <2> HIDE DEF Def
  <2> QED
    BY <1>7
<1>9. FoldsWithin(It, N, Outcomes, s, F)
  <2> HIDE DEF It
  <2>1. ASSUME NEW S \in SUBSET (1..N)
        PROVE  /\ S = {} => It[S] = s
               /\ S # {} /\ It[S \ {Max(S)}] \in Outcomes =>
                    It[S] = F[<<Max(S), It[S \ {Max(S)}]>>]
    <3>1. It[S] = Def(It, S)
      <4> HIDE DEF Def
      <4> QED
        BY <1>8
    <3>2. ASSUME S # {}, It[S \ {Max(S)}] \in Outcomes
          PROVE  It[S] = F[<<Max(S), It[S \ {Max(S)}]>>]
      <4>1. Max(S) \in 1..N
        BY <1>6, <3>2
      <4> HIDE DEF N
      <4> QED
        BY <3>1, <3>2, <4>1
    <3> QED
      BY <3>1, <3>2
  <2> HIDE DEF F, N
  <2> QED
    BY <2>1 DEF FoldsWithin
<1>10. PICK g : Runs(g, N, Outcomes, s, F) /\ g[N] = It[1..N]
  <2> HIDE DEF It, F, N
  <2>1. N \in Nat
    BY <1>1
  <2>2. HasRun(It, N, Outcomes, s, F)
    BY <1>2, <1>3, <1>9, <2>1, FoldRuns
  <2> QED
    BY <2>2 DEF HasRun
<1>11. Mentions(g, s, mentions)
  <2>1. ASSUME NEW k \in 0..(N - 1)
        PROVE  g[k + 1] = WithMention(g[k], mentions[k + 1])
    <3>1. k + 1 \in 1..N /\ k \in 0..N
      BY <1>1
    <3> HIDE DEF It, N
    <3>2. g[k] \in Outcomes /\ g[k + 1] = F[<<k + 1, g[k]>>]
      <4> HIDE DEF F
      <4> QED
        BY <1>10, <3>1 DEF Runs
    <3> QED
      BY <3>1, <3>2
  <2> HIDE DEF It
  <2> QED
    BY <1>4, <1>10, <2>1 DEF Mentions, Runs
<1> QED
  BY <1>11

-----------------------------------------------------------------------------
(* A redaction that ends has named all of its mentions and left the rest   *)
(* as it was.                                                              *)
LEMMA MentionsExtend ==
  ASSUME NEW s, Sound(s), NEW mentions \in Seq(Identities),
         FoldLeft(WithMention, s, mentions) # Failed
  PROVE  /\ Sound(FoldLeft(WithMention, s, mentions))
         /\ Extends(s, FoldLeft(WithMention, s, mentions))
         /\ ToSet(mentions) \subseteq Named(FoldLeft(WithMention, s, mentions))
<1> DEFINE N == Len(mentions)
           t == FoldLeft(WithMention, s, mentions)
<1>1. N \in Nat /\ DOMAIN mentions = 1..N /\ \A i \in 1..N : mentions[i] \in Identities
  BY LenProperties, ElementOfSeq
<1>2. PICK g : Mentions(g, s, mentions)
  BY MentionsFold
<1> DEFINE Good(k) == /\ Sound(g[k]) /\ Extends(s, g[k])
                      /\ \A i \in 1..k : mentions[i] \in Named(g[k])
           T == {k \in 0..N : g[k] # Failed => Good(k)}
<1>3. 0 \in T
  <2>1. g[0] = s /\ 1..0 = {}
    BY <1>2 DEF Mentions
  <2>2. Extends(s, s)
    BY DEF Extends
  <2> QED
    BY <1>1, <2>1, <2>2
<1>4. ASSUME NEW k \in 0..(N - 1), k \in T
      PROVE  k + 1 \in T
  <2> SUFFICES ASSUME g[k + 1] # Failed
               PROVE  Good(k + 1)
    BY <1>1
  <2> DEFINE x == mentions[k + 1]
  <2>1. k + 1 \in 1..N /\ 1..(k + 1) = (1..k) \cup {k + 1}
    BY <1>1
  <2>2. x \in Identities
    BY <1>1, <2>1
  <2>3. g[k + 1] = WithMention(g[k], x)
    BY <1>1, <1>2 DEF Mentions
  <2>4. g[k] # Failed
    BY <2>3 DEF WithMention
  <2>5. Good(k)
    BY <1>4, <2>4
  <2> HIDE DEF x
  <2>6. Sound(g[k + 1]) /\ Extends(g[k], g[k + 1]) /\ x \in Named(g[k + 1])
    <3>1. Sound(g[k]) /\ WithMention(g[k], x) # Failed
      BY <2>3, <2>5
    <3> QED
      BY <2>2, <2>3, <3>1, MentionExtends
  <2>7. Extends(s, g[k + 1])
    BY <2>5, <2>6, ExtendsTransitive
  <2>8. \A i \in 1..(k + 1) : mentions[i] \in Named(g[k + 1])
    <3>1. ASSUME NEW i \in 1..k
          PROVE  mentions[i] \in Named(g[k + 1])
      BY <2>5, <2>6 DEF Extends
    <3>2. mentions[k + 1] \in Named(g[k + 1])
      BY <2>6 DEF x
    <3> QED
      BY <2>1, <3>1, <3>2
  <2> QED
    BY <2>6, <2>7, <2>8
<1>5. N \in T
  <2> HIDE DEF T, N
  <2>1. 0..N \subseteq T
    BY <1>1, <1>3, <1>4, InductionUpTo
  <2> QED
    BY <1>1, <2>1
<1>6. t = g[N]
  BY <1>2 DEF Mentions
<1>7. Good(N)
  BY <1>5, <1>6
<1>8. ToSet(mentions) = {mentions[i] : i \in 1..N}
  BY <1>1 DEF ToSet
<1> HIDE DEF t, N
<1> QED
  BY <1>6, <1>7, <1>8 DEF t

(* The same of a document: only a session that is not deleted takes one.   *)
LEMMA DocumentExtends ==
  ASSUME NEW s, Sound(s), NEW input \in Input, WithDocument(s, input) # Failed
  PROVE  /\ Sound(WithDocument(s, input)) /\ Extends(s, WithDocument(s, input))
         /\ ToSet(input.mentions) \subseteq Named(WithDocument(s, input))
<1>1. WithDocument(s, input) = FoldLeft(WithMention, s, input.mentions)
  BY DEF WithDocument
<1>2. input.mentions \in Seq(Identities)
  BY DEF Input
<1> QED
  BY <1>1, <1>2, MentionsExtend

(* What one document makes of an outcome is an outcome.                    *)
LEMMA DocumentOutcome ==
  ASSUME NEW v \in Outcomes, NEW input \in Input
  PROVE  WithDocument(v, input) \in Outcomes
<1>1. CASE WithDocument(v, input) = Failed
  BY <1>1 DEF Outcomes
<1>2. CASE WithDocument(v, input) # Failed
  <2>1. Sound(v)
    BY <1>2 DEF Outcomes, WithDocument
  <2>2. Sound(WithDocument(v, input))
    BY <1>2, <2>1, DocumentExtends
  <2> QED
    BY <2>2 DEF Outcomes, Sound
<1> QED
  BY <1>1, <1>2

-----------------------------------------------------------------------------
(* A redaction of a batch goes from document to document.                  *)
Documents(g, s, batch) ==
  /\ g[0] = s /\ g[Len(batch)] = WithBatch(s, batch)
  /\ \A k \in 0..(Len(batch) - 1) : g[k + 1] = WithDocument(g[k], batch[k + 1])

(* Such a run exists for every batch.                                      *)
LEMMA DocumentsFold ==
  ASSUME NEW s, Sound(s), NEW batch \in Seq(Input)
  PROVE  \E g : Documents(g, s, batch)
<1> DEFINE N == Len(batch)
           Def(f, S) == IF S = {} THEN s ELSE WithDocument(f[S \ {Max(S)}], batch[Max(S)])
           F == [x \in (1..N) \X Outcomes |-> WithDocument(x[2], batch[x[1]])]
           It == CHOOSE f : f = [S \in SUBSET (1..N) |-> Def(f, S)]
<1>1. N \in Nat /\ DOMAIN batch = 1..N /\ \A i \in 1..N : batch[i] \in Input
  BY LenProperties, ElementOfSeq
<1>2. F \in [(1..N) \X Outcomes -> Outcomes]
  <2>1. \A v \in Outcomes, i \in 1..N : WithDocument(v, batch[i]) \in Outcomes
    BY <1>1, DocumentOutcome
  <2> HIDE DEF N
  <2> QED
    BY <2>1
<1>3. s \in Outcomes
  BY DEF Outcomes, Sound
<1>4. WithBatch(s, batch) = It[1..N]
  BY <1>1 DEF WithBatch, FoldLeft, MapThenFoldSet
<1>5. PICK iter \in [SUBSET (1..N) -> Outcomes] : FoldsTo(iter, N, s, F)
  <2> HIDE DEF F, N
  <2> QED
    BY <1>1, <1>2, <1>3, FoldExists DEF HasFold
<1>6. ASSUME NEW S \in SUBSET (1..N), S # {}
      PROVE  Max(S) \in 1..N /\ S \ {Max(S)} \in SUBSET (1..N)
  <2>1. S \in SUBSET (0..N)
    OBVIOUS
  <2>2. Max(S) \in S
    BY <1>1, <1>6, <2>1, MaxUpTo
  <2> QED
    BY <2>2
<1>7. iter = [S \in SUBSET (1..N) |-> Def(iter, S)]
  <2>1. ASSUME NEW S \in SUBSET (1..N)
        PROVE  iter[S] = Def(iter, S)
    <3>1. CASE S = {}
      BY <1>5, <3>1 DEF FoldsTo
    <3>2. CASE S # {}
      <4>1. Max(S) \in 1..N /\ S \ {Max(S)} \in SUBSET (1..N)
        BY <1>6, <3>2
      <4> HIDE DEF N
      <4>2. iter[S \ {Max(S)}] \in Outcomes
        BY <1>5, <4>1
      <4>3. iter[S] = F[<<Max(S), iter[S \ {Max(S)}]>>]
        <5> HIDE DEF F
        <5> QED
          BY <1>5, <3>2 DEF FoldsTo
      <4> QED
        BY <3>2, <4>1, <4>2, <4>3
    <3> QED
      BY <3>1, <3>2
  <2> HIDE DEF Def
  <2> QED
    BY <1>5, <2>1
<1>8. It = [S \in SUBSET (1..N) |-> Def(It, S)]
  <2> HIDE DEF Def
  <2> QED
    BY <1>7
<1>9. FoldsWithin(It, N, Outcomes, s, F)
  <2> HIDE DEF It
  <2>1. ASSUME NEW S \in SUBSET (1..N)
        PROVE  /\ S = {} => It[S] = s
               /\ S # {} /\ It[S \ {Max(S)}] \in Outcomes =>
                    It[S] = F[<<Max(S), It[S \ {Max(S)}]>>]
    <3>1. It[S] = Def(It, S)
      <4> HIDE DEF Def
      <4> QED
        BY <1>8
    <3>2. ASSUME S # {}, It[S \ {Max(S)}] \in Outcomes
          PROVE  It[S] = F[<<Max(S), It[S \ {Max(S)}]>>]
      <4>1. Max(S) \in 1..N
        BY <1>6, <3>2
      <4> HIDE DEF N
      <4> QED
        BY <3>1, <3>2, <4>1
    <3> QED
      BY <3>1, <3>2
  <2> HIDE DEF F, N
  <2> QED
    BY <2>1 DEF FoldsWithin
<1>10. PICK g : Runs(g, N, Outcomes, s, F) /\ g[N] = It[1..N]
  <2> HIDE DEF It, F, N
  <2>1. N \in Nat
    BY <1>1
  <2>2. HasRun(It, N, Outcomes, s, F)
    BY <1>2, <1>3, <1>9, <2>1, FoldRuns
  <2> QED
    BY <2>2 DEF HasRun
<1>11. Documents(g, s, batch)
  <2>1. ASSUME NEW k \in 0..(N - 1)
        PROVE  g[k + 1] = WithDocument(g[k], batch[k + 1])
    <3>1. k + 1 \in 1..N /\ k \in 0..N
      BY <1>1
    <3> HIDE DEF It, N
    <3>2. g[k] \in Outcomes /\ g[k + 1] = F[<<k + 1, g[k]>>]
      <4> HIDE DEF F
      <4> QED
        BY <1>10, <3>1 DEF Runs
    <3> QED
      BY <3>1, <3>2
  <2> HIDE DEF It
  <2> QED
    BY <1>4, <1>10, <2>1 DEF Documents, Runs
<1> QED
  BY <1>11

(* A batch that is redacted as a whole extends the session by the mentions *)
(* of all of its documents.                                                *)
LEMMA BatchExtends ==
  ASSUME NEW s, Sound(s), NEW batch \in Seq(Input),
         WithBatch(s, batch) # Failed
  PROVE  /\ Sound(WithBatch(s, batch))
         /\ Extends(s, WithBatch(s, batch))
         /\ \A i \in 1..Len(batch) : ToSet(batch[i].mentions) \subseteq Named(WithBatch(s, batch))
<1> DEFINE N == Len(batch)
           t == WithBatch(s, batch)
<1>1. N \in Nat /\ DOMAIN batch = 1..N /\ \A i \in 1..N : batch[i] \in Input
  BY LenProperties, ElementOfSeq
<1>2. PICK g : Documents(g, s, batch)
  BY DocumentsFold
<1> DEFINE Good(k) == /\ Sound(g[k]) /\ Extends(s, g[k])
                      /\ \A i \in 1..k : ToSet(batch[i].mentions) \subseteq Named(g[k])
           T == {k \in 0..N : g[k] # Failed => Good(k)}
<1>3. 0 \in T
  <2>1. g[0] = s /\ 1..0 = {}
    BY <1>2 DEF Documents
  <2>2. Extends(s, s)
    BY DEF Extends
  <2> QED
    BY <1>1, <2>1, <2>2
<1>4. ASSUME NEW k \in 0..(N - 1), k \in T
      PROVE  k + 1 \in T
  <2> SUFFICES ASSUME g[k + 1] # Failed
               PROVE  Good(k + 1)
    BY <1>1
  <2> DEFINE x == batch[k + 1]
  <2>1. k + 1 \in 1..N /\ 1..(k + 1) = (1..k) \cup {k + 1}
    BY <1>1
  <2>2. x \in Input
    BY <1>1, <2>1
  <2>3. g[k + 1] = WithDocument(g[k], x)
    BY <1>1, <1>2 DEF Documents
  <2>4. g[k] # Failed
    BY <2>3 DEF WithDocument
  <2>5. Good(k)
    BY <1>4, <2>4
  <2> HIDE DEF x
  <2>6. Sound(g[k + 1]) /\ Extends(g[k], g[k + 1]) /\ ToSet(x.mentions) \subseteq Named(g[k + 1])
    <3>1. Sound(g[k]) /\ WithDocument(g[k], x) # Failed
      BY <2>3, <2>5
    <3> QED
      BY <2>2, <2>3, <3>1, DocumentExtends
  <2>7. Extends(s, g[k + 1])
    BY <2>5, <2>6, ExtendsTransitive
  <2>8. \A i \in 1..(k + 1) : ToSet(batch[i].mentions) \subseteq Named(g[k + 1])
    <3>1. ASSUME NEW i \in 1..k
          PROVE  ToSet(batch[i].mentions) \subseteq Named(g[k + 1])
      BY <2>5, <2>6 DEF Extends
    <3>2. ToSet(batch[k + 1].mentions) \subseteq Named(g[k + 1])
      BY <2>6 DEF x
    <3> QED
      BY <2>1, <3>1, <3>2
  <2> QED
    BY <2>6, <2>7, <2>8
<1>5. N \in T
  <2> HIDE DEF T, N
  <2>1. 0..N \subseteq T
    BY <1>1, <1>3, <1>4, InductionUpTo
  <2> QED
    BY <1>1, <2>1
<1>6. t = g[N]
  BY <1>2 DEF Documents
<1>7. Good(N)
  BY <1>5, <1>6
<1> HIDE DEF t, N
<1> QED
  BY <1>6, <1>7 DEF t, N

-----------------------------------------------------------------------------
(* How far a request is counted, or that a limit was passed.               *)
Requests == [inputs : Seq(Input), detections : Nat, text : Nat, encoded : Nat]
Counts == Requests \cup {Failed}

(* What one input adds to a count.                                         *)
LEMMA PushedAdds ==
  ASSUME NEW r \in Requests, NEW input \in Input, Pushed(r, input) # Failed
  PROVE  /\ Pushed(r, input) \in Requests
         /\ Len(Pushed(r, input).inputs) = Len(r.inputs) + 1
         /\ Pushed(r, input).detections = r.detections + input.detections
         /\ Pushed(r, input).text = r.text + input.text
         /\ Pushed(r, input).encoded =
              r.encoded + input.json + IF Len(r.inputs) = 0 THEN 0 ELSE 1
         /\ Within(Pushed(r, input))
<1> DEFINE separator == IF r.inputs = <<>> THEN 0 ELSE 1
           next == [inputs |-> Append(r.inputs, input), text |-> r.text + input.text,
                    detections |-> r.detections + input.detections,
                    encoded |-> r.encoded + input.json + separator]
<1>1. /\ r = [inputs |-> r.inputs, detections |-> r.detections, text |-> r.text,
             encoded |-> r.encoded]
      /\ r.inputs \in Seq(Input) /\ r.detections \in Nat /\ r.text \in Nat /\ r.encoded \in Nat
  BY DEF Requests
<1>2. input.detections \in Nat /\ input.text \in Nat /\ input.json \in Nat
  BY DEF Input
<1>3. Pushed(r, input) = next /\ Within(next)
  BY DEF Pushed
<1>4. separator = (IF Len(r.inputs) = 0 THEN 0 ELSE 1) /\ separator \in Nat
  BY <1>1, EmptySeq
<1>5. Append(r.inputs, input) \in Seq(Input) /\ Len(Append(r.inputs, input)) = Len(r.inputs) + 1
  BY <1>1, AppendProperties
<1> HIDE DEF separator
<1>6. next.inputs = Append(r.inputs, input) /\ next.detections = r.detections + input.detections
      /\ next.text = r.text + input.text /\ next.encoded = r.encoded + input.json + separator
  OBVIOUS
<1>7. next \in Requests
  BY <1>1, <1>2, <1>4, <1>5 DEF Requests
<1> HIDE DEF next
<1>8. /\ Pushed(r, input).inputs = Append(r.inputs, input)
      /\ Pushed(r, input).encoded = r.encoded + input.json + separator
  BY <1>3, <1>6
<1>9. Pushed(r, input).encoded = r.encoded + input.json + IF Len(r.inputs) = 0 THEN 0 ELSE 1
  BY <1>4, <1>8
<1> QED
  BY <1>3, <1>5, <1>6, <1>7, <1>8, <1>9

(* One more input is counted, or it is one too many.                       *)
LEMMA PushedCount ==
  ASSUME NEW v \in Counts, NEW input \in Input
  PROVE  Pushed(v, input) \in Counts
<1>1. CASE v = Failed
  BY <1>1 DEF Pushed, Counts
<1>2. CASE v # Failed /\ Pushed(v, input) = Failed
  BY <1>2 DEF Counts
<1>3. CASE v # Failed /\ Pushed(v, input) # Failed
  BY <1>3, PushedAdds DEF Counts
<1> QED
  BY <1>1, <1>2, <1>3

(* A request is counted input by input.                                    *)
Pushes(g, batch) ==
  /\ g[0] = NoInputs /\ g[Len(batch)] = FoldLeft(Pushed, NoInputs, batch)
  /\ \A k \in 0..(Len(batch) - 1) : g[k + 1] = Pushed(g[k], batch[k + 1])

(* Such a run exists for every request.                                    *)
LEMMA PushesFold ==
  ASSUME NEW batch \in Seq(Input)
  PROVE  \E g : Pushes(g, batch)
<1> DEFINE N == Len(batch)
           Def(f, S) == IF S = {} THEN NoInputs ELSE Pushed(f[S \ {Max(S)}], batch[Max(S)])
           F == [x \in (1..N) \X Counts |-> Pushed(x[2], batch[x[1]])]
           It == CHOOSE f : f = [S \in SUBSET (1..N) |-> Def(f, S)]
<1>1. N \in Nat /\ DOMAIN batch = 1..N /\ \A i \in 1..N : batch[i] \in Input
  BY LenProperties, ElementOfSeq
<1>2. F \in [(1..N) \X Counts -> Counts]
  <2>1. \A v \in Counts, i \in 1..N : Pushed(v, batch[i]) \in Counts
    BY <1>1, PushedCount
  <2> HIDE DEF N
  <2> QED
    BY <2>1
<1>3. NoInputs \in Counts
  BY DEF NoInputs, Counts, Requests
<1>4. FoldLeft(Pushed, NoInputs, batch) = It[1..N]
  BY <1>1 DEF FoldLeft, MapThenFoldSet
<1>5. PICK iter \in [SUBSET (1..N) -> Counts] : FoldsTo(iter, N, NoInputs, F)
  <2> HIDE DEF F, N
  <2> QED
    BY <1>1, <1>2, <1>3, FoldExists DEF HasFold
<1>6. ASSUME NEW S \in SUBSET (1..N), S # {}
      PROVE  Max(S) \in 1..N /\ S \ {Max(S)} \in SUBSET (1..N)
  <2>1. S \in SUBSET (0..N)
    OBVIOUS
  <2>2. Max(S) \in S
    BY <1>1, <1>6, <2>1, MaxUpTo
  <2> QED
    BY <2>2
<1>7. iter = [S \in SUBSET (1..N) |-> Def(iter, S)]
  <2>1. ASSUME NEW S \in SUBSET (1..N)
        PROVE  iter[S] = Def(iter, S)
    <3>1. CASE S = {}
      BY <1>5, <3>1 DEF FoldsTo
    <3>2. CASE S # {}
      <4>1. Max(S) \in 1..N /\ S \ {Max(S)} \in SUBSET (1..N)
        BY <1>6, <3>2
      <4> HIDE DEF N
      <4>2. iter[S \ {Max(S)}] \in Counts
        BY <1>5, <4>1
      <4>3. iter[S] = F[<<Max(S), iter[S \ {Max(S)}]>>]
        <5> HIDE DEF F
        <5> QED
          BY <1>5, <3>2 DEF FoldsTo
      <4> QED
        BY <3>2, <4>1, <4>2, <4>3
    <3> QED
      BY <3>1, <3>2
  <2> HIDE DEF Def
  <2> QED
    BY <1>5, <2>1
<1>8. It = [S \in SUBSET (1..N) |-> Def(It, S)]
  <2> HIDE DEF Def
  <2> QED
    BY <1>7
<1>9. FoldsWithin(It, N, Counts, NoInputs, F)
  <2> HIDE DEF It
  <2>1. ASSUME NEW S \in SUBSET (1..N)
        PROVE  /\ S = {} => It[S] = NoInputs
               /\ S # {} /\ It[S \ {Max(S)}] \in Counts =>
                    It[S] = F[<<Max(S), It[S \ {Max(S)}]>>]
    <3>1. It[S] = Def(It, S)
      <4> HIDE DEF Def
      <4> QED
        BY <1>8
    <3>2. ASSUME S # {}, It[S \ {Max(S)}] \in Counts
          PROVE  It[S] = F[<<Max(S), It[S \ {Max(S)}]>>]
      <4>1. Max(S) \in 1..N
        BY <1>6, <3>2
      <4> HIDE DEF N
      <4> QED
        BY <3>1, <3>2, <4>1
    <3> QED
      BY <3>1, <3>2
  <2> HIDE DEF F, N
  <2> QED
    BY <2>1 DEF FoldsWithin
<1>10. PICK g : Runs(g, N, Counts, NoInputs, F) /\ g[N] = It[1..N]
  <2> HIDE DEF It, F, N
  <2>1. N \in Nat
    BY <1>1
  <2>2. HasRun(It, N, Counts, NoInputs, F)
    BY <1>2, <1>3, <1>9, <2>1, FoldRuns
  <2> QED
    BY <2>2 DEF HasRun
<1>11. Pushes(g, batch)
  <2>1. ASSUME NEW k \in 0..(N - 1)
        PROVE  g[k + 1] = Pushed(g[k], batch[k + 1])
    <3>1. k + 1 \in 1..N /\ k \in 0..N
      BY <1>1
    <3> HIDE DEF It, N
    <3>2. g[k] \in Counts /\ g[k + 1] = F[<<k + 1, g[k]>>]
      <4> HIDE DEF F
      <4> QED
        BY <1>10, <3>1 DEF Runs
    <3> QED
      BY <3>1, <3>2
  <2> HIDE DEF It
  <2> QED
    BY <1>4, <1>10, <2>1 DEF Pushes, Runs
<1> QED
  BY <1>11

(* A total of a batch is a sum over its inputs.                            *)
Sums(g, batch, field) ==
  /\ g[0] = 0 /\ g[Len(batch)] = Total(batch, field)
  /\ \A k \in 0..(Len(batch) - 1) : g[k + 1] = g[k] + batch[k + 1][field]

(* Such a run exists for each of the three totals.                         *)
LEMMA SumsFold ==
  ASSUME NEW batch \in Seq(Input), NEW field \in {"detections", "text", "json"}
  PROVE  \E g : Sums(g, batch, field)
<1> DEFINE N == Len(batch)
           Def(f, S) == IF S = {} THEN 0 ELSE f[S \ {Max(S)}] + batch[Max(S)][field]
           F == [x \in (1..N) \X Nat |-> x[2] + batch[x[1]][field]]
           It == CHOOSE f : f = [S \in SUBSET (1..N) |-> Def(f, S)]
<1>1. N \in Nat /\ DOMAIN batch = 1..N /\ \A i \in 1..N : batch[i][field] \in Nat
  <2>1. N \in Nat /\ DOMAIN batch = 1..N /\ \A i \in 1..N : batch[i] \in Input
    BY LenProperties, ElementOfSeq
  <2>2. ASSUME NEW i \in Input
        PROVE  i[field] \in Nat
    <3>1. CASE field = "detections"
      BY <3>1 DEF Input
    <3>2. CASE field = "text"
      BY <3>2 DEF Input
    <3>3. CASE field = "json"
      BY <3>3 DEF Input
    <3> QED
      BY <3>1, <3>2, <3>3
  <2> HIDE DEF N
  <2> QED
    BY <2>1, <2>2
<1>2. F \in [(1..N) \X Nat -> Nat]
  <2>1. \A v \in Nat, i \in 1..N : v + batch[i][field] \in Nat
    BY <1>1
  <2> HIDE DEF N
  <2> QED
    BY <2>1
<1>3. 0 \in Nat
  OBVIOUS
<1>4. Total(batch, field) = It[1..N]
  BY <1>1 DEF Total, FoldLeft, MapThenFoldSet
<1>5. PICK iter \in [SUBSET (1..N) -> Nat] : FoldsTo(iter, N, 0, F)
  <2> HIDE DEF F, N
  <2> QED
    BY <1>1, <1>2, <1>3, FoldExists DEF HasFold
<1>6. ASSUME NEW S \in SUBSET (1..N), S # {}
      PROVE  Max(S) \in 1..N /\ S \ {Max(S)} \in SUBSET (1..N)
  <2>1. S \in SUBSET (0..N)
    OBVIOUS
  <2>2. Max(S) \in S
    BY <1>1, <1>6, <2>1, MaxUpTo
  <2> QED
    BY <2>2
<1>7. iter = [S \in SUBSET (1..N) |-> Def(iter, S)]
  <2>1. ASSUME NEW S \in SUBSET (1..N)
        PROVE  iter[S] = Def(iter, S)
    <3>1. CASE S = {}
      BY <1>5, <3>1 DEF FoldsTo
    <3>2. CASE S # {}
      <4>1. Max(S) \in 1..N /\ S \ {Max(S)} \in SUBSET (1..N)
        BY <1>6, <3>2
      <4> HIDE DEF N
      <4>2. iter[S \ {Max(S)}] \in Nat
        BY <1>5, <4>1
      <4>3. iter[S] = F[<<Max(S), iter[S \ {Max(S)}]>>]
        <5> HIDE DEF F
        <5> QED
          BY <1>5, <3>2 DEF FoldsTo
      <4> QED
        BY <3>2, <4>1, <4>2, <4>3
    <3> QED
      BY <3>1, <3>2
  <2> HIDE DEF Def
  <2> QED
    BY <1>5, <2>1
<1>8. It = [S \in SUBSET (1..N) |-> Def(It, S)]
  <2> HIDE DEF Def
  <2> QED
    BY <1>7
<1>9. FoldsWithin(It, N, Nat, 0, F)
  <2> HIDE DEF It
  <2>1. ASSUME NEW S \in SUBSET (1..N)
        PROVE  /\ S = {} => It[S] = 0
               /\ S # {} /\ It[S \ {Max(S)}] \in Nat =>
                    It[S] = F[<<Max(S), It[S \ {Max(S)}]>>]
    <3>1. It[S] = Def(It, S)
      <4> HIDE DEF Def
      <4> QED
        BY <1>8
    <3>2. ASSUME S # {}, It[S \ {Max(S)}] \in Nat
          PROVE  It[S] = F[<<Max(S), It[S \ {Max(S)}]>>]
      <4>1. Max(S) \in 1..N
        BY <1>6, <3>2
      <4> HIDE DEF N
      <4> QED
        BY <3>1, <3>2, <4>1
    <3> QED
      BY <3>1, <3>2
  <2> HIDE DEF F, N
  <2> QED
    BY <2>1 DEF FoldsWithin
<1>10. PICK g : Runs(g, N, Nat, 0, F) /\ g[N] = It[1..N]
  <2> HIDE DEF It, F, N
  <2>1. N \in Nat
    BY <1>1
  <2>2. HasRun(It, N, Nat, 0, F)
    BY <1>2, <1>3, <1>9, <2>1, FoldRuns
  <2> QED
    BY <2>2 DEF HasRun
<1>11. Sums(g, batch, field)
  <2>1. ASSUME NEW k \in 0..(N - 1)
        PROVE  g[k + 1] = g[k] + batch[k + 1][field]
    <3>1. k + 1 \in 1..N /\ k \in 0..N
      BY <1>1
    <3> HIDE DEF It, N
    <3>2. g[k] \in Nat /\ g[k + 1] = F[<<k + 1, g[k]>>]
      <4> HIDE DEF F
      <4> QED
        BY <1>10, <3>1 DEF Runs
    <3> QED
      BY <3>1, <3>2
  <2> HIDE DEF It
  <2> QED
    BY <1>4, <1>10, <2>1 DEF Sums, Runs
<1> QED
  BY <1>11

-----------------------------------------------------------------------------
(* A batch within the limits of a request.                                 *)
Fits(batch) ==
  /\ Len(batch) <= MaxInputs
  /\ 2 + Total(batch, "json") + Len(batch) - 1 <= MaxEncoded
  /\ Total(batch, "detections") <= MaxDetections
  /\ Total(batch, "text") <= MaxText

(* The commas of an array of n inputs.                                     *)
Commas(n) == IF n = 0 THEN 0 ELSE n - 1

(* What has been counted after n inputs, given what they add up to.        *)
Counted(r, n, detections, text, json) ==
  /\ r \in Requests /\ Len(r.inputs) = n
  /\ r.detections = detections /\ r.text = text
  /\ r.encoded = 2 + json + Commas(n)
  /\ n # 0 => Within(r)

(* Before the first input nothing has been counted but the two brackets.   *)
LEMMA CountedOnce ==
  Counted(NoInputs, 0, 0, 0, 0)
<1>1. /\ NoInputs.inputs = <<>> /\ NoInputs.detections = 0 /\ NoInputs.text = 0
      /\ NoInputs.encoded = 2 /\ NoInputs \in Requests
  BY DEF NoInputs, Requests
<1>2. Len(NoInputs.inputs) = 0
  BY <1>1
<1> QED
  BY <1>1, <1>2 DEF Counted, Commas

(* One more input is counted in full, with the comma before it when it is  *)
(* not the first.                                                          *)
LEMMA CountedNext ==
  ASSUME NEW r, NEW n \in Nat, NEW d \in Nat, NEW t \in Nat, NEW j \in Nat,
         Counted(r, n, d, t, j), NEW input \in Input, Pushed(r, input) # Failed
  PROVE  Counted(Pushed(r, input), n + 1, d + input.detections, t + input.text, j + input.json)
<1>1. /\ r \in Requests /\ Len(r.inputs) = n /\ r.detections = d /\ r.text = t
      /\ r.encoded = 2 + j + Commas(n)
  BY DEF Counted
<1>2. /\ Pushed(r, input) \in Requests
      /\ Len(Pushed(r, input).inputs) = Len(r.inputs) + 1
      /\ Pushed(r, input).detections = r.detections + input.detections
      /\ Pushed(r, input).text = r.text + input.text
      /\ Pushed(r, input).encoded =
           r.encoded + input.json + IF Len(r.inputs) = 0 THEN 0 ELSE 1
      /\ Within(Pushed(r, input))
  BY <1>1, PushedAdds
<1>3. input.json \in Nat
  BY DEF Input
<1> DEFINE q == Pushed(r, input)
           e == r.encoded
           c == q.encoded
           m == input.json
<1>4. c = 2 + (j + m) + Commas(n + 1)
  <2>1. c = e + m + (IF n = 0 THEN 0 ELSE 1) /\ e = 2 + j + Commas(n) /\ m \in Nat
    BY <1>1, <1>2, <1>3
  <2> HIDE DEF c, e, m
  <2>2. CASE n = 0
    BY <2>1, <2>2 DEF Commas
  <2>3. CASE n # 0
    BY <2>1, <2>3 DEF Commas
  <2> QED
    BY <2>2, <2>3
<1>5. q \in Requests /\ Len(q.inputs) = n + 1 /\ q.detections = d + input.detections
      /\ q.text = t + input.text /\ Within(q)
  BY <1>1, <1>2
<1> DEFINE dd == d + input.detections
           tt == t + input.text
           jj == j + m
<1>6. Counted(q, n + 1, dd, tt, jj)
  <2>1. q.detections = dd /\ q.text = tt /\ q.encoded = 2 + jj + Commas(n + 1)
    BY <1>4, <1>5
  <2> HIDE DEF q, dd, tt, jj
  <2> QED
    BY <1>5, <2>1 DEF Counted
<1> QED
  BY <1>6

(* A request that is decoded to its end is within the limits.              *)
LEMMA DecodedFits ==
  ASSUME NEW batch \in Seq(Input), Decoded(batch) # Failed
  PROVE  Fits(batch)
<1> DEFINE N == Len(batch)
<1>1. N \in Nat /\ DOMAIN batch = 1..N /\ \A i \in 1..N : batch[i] \in Input
  BY LenProperties, ElementOfSeq
<1>2. N <= MaxInputs /\ FoldLeft(Pushed, NoInputs, batch) # Failed
  <2>1. MaxInputs \in Nat
    BY PlanAssumption
  <2> QED
    BY <1>1, <2>1 DEF Decoded
<1>3. PICK g : Pushes(g, batch)
  BY PushesFold
<1>4. PICK D : Sums(D, batch, "detections")
  BY SumsFold
<1>5. PICK X : Sums(X, batch, "text")
  BY SumsFold
<1>6. PICK J : Sums(J, batch, "json")
  BY SumsFold
<1> DEFINE Good(k) == Counted(g[k], k, D[k], X[k], J[k])
           T == {k \in 0..N : /\ D[k] \in Nat /\ X[k] \in Nat /\ J[k] \in Nat
                              /\ g[k] # Failed => Good(k)}
<1>7. 0 \in T
  <2>1. g[0] = NoInputs /\ D[0] = 0 /\ X[0] = 0 /\ J[0] = 0
    BY <1>3, <1>4, <1>5, <1>6 DEF Pushes, Sums
  <2> QED
    BY <1>1, <2>1, CountedOnce
<1>8. ASSUME NEW k \in 0..(N - 1), k \in T
      PROVE  k + 1 \in T
  <2> DEFINE x == batch[k + 1]
  <2>1. k + 1 \in 1..N /\ k + 1 \in 0..N /\ k \in Nat
    BY <1>1
  <2>2. x \in Input
    BY <1>1, <2>1
  <2>3. /\ g[k + 1] = Pushed(g[k], x) /\ D[k + 1] = D[k] + x.detections
        /\ X[k + 1] = X[k] + x.text /\ J[k + 1] = J[k] + x.json
    BY <1>3, <1>4, <1>5, <1>6 DEF Pushes, Sums
  <2>4. D[k] \in Nat /\ X[k] \in Nat /\ J[k] \in Nat
    BY <1>8
  <2>5. x.detections \in Nat /\ x.text \in Nat /\ x.json \in Nat
    BY <2>2 DEF Input
  <2>6. D[k + 1] \in Nat /\ X[k + 1] \in Nat /\ J[k + 1] \in Nat
    <3> DEFINE dk == D[k]
               tk == X[k]
               jk == J[k]
               dx == D[k + 1]
               xx == X[k + 1]
               jx == J[k + 1]
               xd == x.detections
               xt == x.text
               xj == x.json
    <3>1. dx = dk + xd /\ xx = tk + xt /\ jx = jk + xj
      BY <2>3
    <3>2. /\ xd \in Nat /\ xt \in Nat /\ xj \in Nat
          /\ dk \in Nat /\ tk \in Nat /\ jk \in Nat
      BY <2>4, <2>5
    <3> HIDE DEF dk, tk, jk, dx, xx, jx, xd, xt, xj
    <3>3. dx \in Nat /\ xx \in Nat /\ jx \in Nat
      BY <3>1, <3>2
    <3> QED
      BY <3>3 DEF dx, xx, jx
  <2>7. ASSUME g[k + 1] # Failed
        PROVE  Good(k + 1)
    <3>1. g[k] # Failed
      BY <2>3, <2>7 DEF Pushed
    <3>2. Good(k)
      BY <1>8, <3>1
    <3> HIDE DEF x
    <3>3. Pushed(g[k], x) # Failed
      BY <2>3, <2>7
    <3>4. Counted(Pushed(g[k], x), k + 1, D[k] + x.detections, X[k] + x.text, J[k] + x.json)
      BY <2>1, <2>2, <2>4, <3>2, <3>3, CountedNext
    <3> QED
      BY <2>3, <3>4
  <2> HIDE DEF Good
  <2> QED
    BY <2>1, <2>6, <2>7
<1>9. N \in T
  <2> HIDE DEF T, N
  <2>1. 0..N \subseteq T
    BY <1>1, <1>7, <1>8, InductionUpTo
  <2> QED
    BY <1>1, <2>1
<1>10. Good(N) /\ D[N] \in Nat /\ X[N] \in Nat /\ J[N] \in Nat
  <2>1. g[N] # Failed
    BY <1>2, <1>3 DEF Pushes
  <2> HIDE DEF Good
  <2> QED
    BY <1>9, <2>1
<1>11. D[N] = Total(batch, "detections") /\ X[N] = Total(batch, "text")
       /\ J[N] = Total(batch, "json")
  BY <1>4, <1>5, <1>6 DEF Sums
<1> DEFINE r == g[N]
           d == Total(batch, "detections")
           t == Total(batch, "text")
           j == Total(batch, "json")
<1>12. Counted(r, N, d, t, j) /\ d \in Nat /\ t \in Nat /\ j \in Nat
  BY <1>10, <1>11
<1> SUFFICES 2 + j + N - 1 <= MaxEncoded /\ d <= MaxDetections /\ t <= MaxText
  BY <1>2 DEF Fits
<1> HIDE DEF r, d, t, j, N
<1>13. MaxEncoded \in Nat /\ MaxDetections \in Nat /\ MaxText \in Nat /\ 2 <= MaxEncoded
  BY PlanAssumption
<1>14. r.detections = d /\ r.text = t /\ r.encoded = 2 + j + Commas(N) /\ (N # 0 => Within(r))
  BY <1>12 DEF Counted
<1>15. CASE N # 0
  <2>1. r.detections <= MaxDetections /\ r.text <= MaxText /\ r.encoded <= MaxEncoded
    BY <1>14, <1>15 DEF Within
  <2> QED
    BY <1>1, <1>12, <1>13, <1>14, <1>15, <2>1 DEF Commas
<1>16. CASE N = 0
  <2>1. d = 0 /\ t = 0 /\ j = 0
    BY <1>4, <1>5, <1>6, <1>16 DEF Sums, d, t, j, N
  <2> QED
    BY <1>13, <1>16, <2>1
<1> QED
  BY <1>15, <1>16

-----------------------------------------------------------------------------
(* The serial session redacts as the planned one does.                     *)
LEMMA SameMention ==
  \A s, x : Serial!WithMention(s, x) = WithMention(s, x)
<1>1. \A S : Serial!Cardinality(S) = Cardinality(S)
  BY DEF Cardinality, Serial!Cardinality
<1>2. \A s : Serial!Named(s) = Named(s)
  BY DEF Named, Serial!Named
<1> QED
  BY <1>1, <1>2 DEF WithMention, Serial!WithMention

(* So for a whole document: the two folds have the same body.              *)
LEMMA SameDocument ==
  \A s, input : Serial!WithDocument(s, input) = WithDocument(s, input)
<1> TAKE s, input
<1> DEFINE m == input.mentions
           S == SUBSET (DOMAIN m)
           Abs(iter, u) == IF u = {} THEN s ELSE Serial!WithMention(iter[u \ {Max(u)}], m[Max(u)])
           Con(iter, u) == IF u = {} THEN s ELSE WithMention(iter[u \ {Max(u)}], m[Max(u)])
           a == (CHOOSE iter : iter = [u \in S |-> Abs(iter, u)])[DOMAIN m]
           c == (CHOOSE iter : iter = [u \in S |-> Con(iter, u)])[DOMAIN m]
           refused == s = Failed \/ (s # Failed /\ s.deleted)
<1>1. Serial!WithDocument(s, input) = IF refused THEN Failed ELSE a
  BY DEF Serial!WithDocument, Serial!FoldLeft, Serial!MapThenFoldSet, Max, Serial!Max
<1>2. WithDocument(s, input) = IF refused THEN Failed ELSE c
  BY DEF WithDocument, FoldLeft, MapThenFoldSet, Max
<1>3. \A iter, u : Abs(iter, u) = Con(iter, u)
  BY SameMention
<1>4. a = c
  <2> HIDE DEF Abs, Con
  <2> QED
    BY <1>3
<1> HIDE DEF a, c
<1> QED
  BY <1>1, <1>2, <1>4

(* And for a whole batch.                                                  *)
LEMMA SameBatch ==
  \A s, batch : Serial!WithBatch(s, batch) = WithBatch(s, batch)
<1> TAKE s, batch
<1> DEFINE S == SUBSET (DOMAIN batch)
           Abs(iter, u) == IF u = {} THEN s
                           ELSE Serial!WithDocument(iter[u \ {Max(u)}], batch[Max(u)])
           Con(iter, u) == IF u = {} THEN s ELSE WithDocument(iter[u \ {Max(u)}], batch[Max(u)])
           a == (CHOOSE iter : iter = [u \in S |-> Abs(iter, u)])[DOMAIN batch]
           c == (CHOOSE iter : iter = [u \in S |-> Con(iter, u)])[DOMAIN batch]
<1>1. Serial!WithBatch(s, batch) = a
  BY DEF Serial!WithBatch, Serial!FoldLeft, Serial!MapThenFoldSet, Max, Serial!Max
<1>2. WithBatch(s, batch) = c
  BY DEF WithBatch, FoldLeft, MapThenFoldSet, Max
<1>3. \A iter, u : Abs(iter, u) = Con(iter, u)
  BY SameDocument
<1>4. a = c
  <2> HIDE DEF Abs, Con
  <2> QED
    BY <1>3
<1> HIDE DEF a, c
<1> QED
  BY <1>1, <1>2, <1>4

(* It starts and ends as the planned session, and results show the same.   *)
LEMMA SameResults ==
  /\ Serial!NewSession = NewSession
  /\ \A s, batch : Serial!ResultsOf(s, batch) = ResultsOf(s, batch)
<1>1. Serial!NewSession = NewSession
  BY DEF NewSession, Serial!NewSession
<1>2. \A s, input : Serial!ResultOf(s, input) = ResultOf(s, input)
  BY DEF ResultOf, Serial!ResultOf, ToSet, Serial!ToSet
<1>3. \A s, batch : Serial!ResultsOf(s, batch) = ResultsOf(s, batch)
  BY <1>2 DEF ResultsOf, Serial!ResultsOf
<1> QED
  BY <1>1, <1>3

-----------------------------------------------------------------------------
(* What a plan holds: an accepted batch, the session it was planned on, and *)
(* until the commit takes it what the batch makes of that session.          *)
PlanOk(plan) ==
  /\ plan = [base |-> plan.base, planned |-> plan.planned, batch |-> plan.batch]
  /\ plan.batch \in Batches /\ Fits(plan.batch) /\ Sound(plan.base)
  /\ plan.planned # Taken =>
       plan.planned = WithBatch(plan.base, plan.batch) /\ plan.planned # Failed

(* Every handle that holds a plan holds such a one.                        *)
PlansInv ==
  /\ plans \in [Plans -> {plans[p] : p \in Plans}]
  /\ \A p \in Plans : plans[p] # NoPlan => PlanOk(plans[p])

(* A result restores from a session.                                       *)
Restores(result, s) ==
  \A x \in DOMAIN result : x \in Named(s) /\ s.names[x] = result[x]

(* Until the deletion everything published restores.                       *)
PublishedInv == ~target.deleted => \A result \in published : Restores(result, target)

(* The inductive invariant.  PlansAreSound alone is not inductive: what a  *)
(* commit installs is only known to extend the session because the plan    *)
(* remembers the session it was made from, and is the batch applied to it. *)
IInv == Sound(target) /\ PlansInv /\ PublishedInv

(* What restored from a session restores from every extension of it.       *)
LEMMA RestoresOn ==
  ASSUME NEW result, NEW s, NEW t, Restores(result, s), Extends(s, t)
  PROVE  Restores(result, t)
BY DEF Restores, Extends

(* A result restores from the session that has named its mentions.         *)
LEMMA ResultRestores ==
  ASSUME NEW s, NEW input, ToSet(input.mentions) \subseteq Named(s)
  PROVE  Restores(ResultOf(s, input), s)
BY DEF Restores, ResultOf

(* A batch redacted keeps what was published and restores what it adds.    *)
LEMMA BatchPublishes ==
  ASSUME Sound(target), PublishedInv, NEW batch \in Seq(Input), NEW t,
         t = WithBatch(target, batch), t # Failed
  PROVE  /\ Sound(t) /\ Extends(target, t)
         /\ ~t.deleted => \A result \in published \cup ResultsOf(t, batch) : Restores(result, t)
<1>1. /\ Sound(t) /\ Extends(target, t)
      /\ \A i \in 1..Len(batch) : ToSet(batch[i].mentions) \subseteq Named(t)
  BY BatchExtends
<1>2. ASSUME ~t.deleted, NEW result \in published
      PROVE  Restores(result, t)
  <2>1. ~target.deleted
    BY <1>1, <1>2 DEF Extends
  <2>2. Restores(result, target)
    BY <1>2, <2>1 DEF PublishedInv
  <2> QED
    BY <1>1, <2>2, RestoresOn
<1>3. ASSUME NEW result \in ResultsOf(t, batch)
      PROVE  Restores(result, t)
  <2>1. DOMAIN batch = 1..Len(batch)
    BY LenProperties
  <2>2. PICK i \in DOMAIN batch : result = ResultOf(t, batch[i])
    BY <1>3 DEF ResultsOf
  <2>3. ToSet(batch[i].mentions) \subseteq Named(t)
    BY <1>1, <2>1
  <2> QED
    BY <2>2, <2>3, ResultRestores
<1> QED
  BY <1>1, <1>2, <1>3

(* A single document is a batch of one.                                    *)
LEMMA SingleBatch ==
  ASSUME NEW s, Sound(s), NEW batch \in Seq(Input), Len(batch) = 1
  PROVE  /\ WithBatch(s, batch) = WithDocument(s, batch[1])
         /\ \A t : ResultsOf(t, batch) = {ResultOf(t, batch[1])}
<1>1. PICK g : Documents(g, s, batch)
  BY DocumentsFold
<1>2. g[0] = s /\ g[1] = WithBatch(s, batch) /\ g[0 + 1] = WithDocument(g[0], batch[0 + 1])
  BY <1>1 DEF Documents
<1>3. DOMAIN batch = {1}
  <2>1. DOMAIN batch = 1..1
    BY LenProperties
  <2> QED
    BY <2>1
<1>4. \A t : ResultsOf(t, batch) = {ResultOf(t, batch[1])}
  BY <1>3 DEF ResultsOf
<1> QED
  BY <1>2, <1>4

(* A session that was just created satisfies the invariant.                *)
LEMMA InitInductive == Init => IInv
<1> SUFFICES ASSUME Init PROVE IInv
  OBVIOUS
<1>1. Sound(target)
  BY NewIsSound DEF Init
<1>2. PlansInv
  BY DEF Init, PlansInv
<1>3. PublishedInv
  BY DEF Init, PublishedInv
<1> QED
  BY <1>1, <1>2, <1>3 DEF IInv

(* A plan put into a handle leaves the others as they are.                 *)
LEMMA PlansWith ==
  ASSUME PlansInv, NEW p \in Plans, NEW plan, plan # NoPlan => PlanOk(plan),
         plans' = [plans EXCEPT ![p] = plan]
  PROVE  PlansInv'
<1>1. \A q \in Plans : plans'[q] = IF q = p THEN plan ELSE plans[q]
  BY DEF PlansInv
<1>2. plans' \in [Plans -> {plans'[q] : q \in Plans}]
  <2>1. plans' = [q \in Plans |-> plans'[q]]
    BY DEF PlansInv
  <2> QED
    BY <2>1
<1>3. ASSUME NEW q \in Plans, plans'[q] # NoPlan
      PROVE  PlanOk(plans'[q])
  BY <1>1, <1>3 DEF PlansInv
<1> QED
  BY <1>2, <1>3 DEF PlansInv, PlanOk

(* Planning, committing, dropping, a direct redaction and a deletion each  *)
(* keep the invariant.                                                     *)
LEMMA StepInductive == IInv /\ [Next]_vars => IInv'
<1> SUFFICES ASSUME IInv, [Next]_vars PROVE IInv'
  OBVIOUS
<1>0. Sound(target) /\ PlansInv /\ PublishedInv
  BY DEF IInv
<1>1. ASSUME NEW p \in Plans, NEW batch \in Batches, PlanBatch(p, batch)
      PROVE  IInv'
  <2> DEFINE plan == [base |-> target, batch |-> batch, planned |-> WithBatch(target, batch)]
  <2>1. /\ plans' = [plans EXCEPT ![p] = plan] /\ UNCHANGED <<target, published>>
        /\ Decoded(batch) # Failed /\ WithBatch(target, batch) # Failed
    BY <1>1 DEF PlanBatch
  <2>2. batch \in Seq(Input)
    BY PlanAssumption
  <2>3. Fits(batch)
    BY <2>1, <2>2, DecodedFits
  <2>4. PlanOk(plan)
    BY <1>0, <2>1, <2>3 DEF PlanOk
  <2>5. PlansInv'
    <3> HIDE DEF plan
    <3> QED
      BY <1>0, <2>1, <2>4, PlansWith
  <2>6. Sound(target)' /\ PublishedInv'
    BY <1>0, <2>1 DEF PublishedInv, Sound, Restores, Named
  <2> QED
    BY <2>5, <2>6 DEF IInv
<1>2. ASSUME NEW p \in Plans, Commit(p)
      PROVE  IInv'
  <2> DEFINE plan == plans[p]
             taken == [plan EXCEPT !.planned = Taken]
  <2>1. /\ plan # NoPlan /\ plan.planned # Taken /\ target = plan.base
        /\ target' = plan.planned /\ plans' = [plans EXCEPT ![p] = taken]
        /\ published' = published \cup ResultsOf(target', plan.batch)
    BY <1>2 DEF Commit
  <2>2. PlanOk(plan)
    BY <1>0, <2>1 DEF PlansInv
  <2>3. /\ plan.batch \in Seq(Input) /\ target' = WithBatch(target, plan.batch)
        /\ target' # Failed
    BY <2>1, <2>2, PlanAssumption DEF PlanOk
  <2>4. PlanOk(taken)
    <3> HIDE DEF plan
    <3>1. PICK b, c, d : plan = [base |-> b, planned |-> c, batch |-> d]
      BY <2>2 DEF PlanOk
    <3>2. plan.base = b /\ plan.planned = c /\ plan.batch = d
      BY <3>1
    <3>3. taken = [base |-> b, planned |-> Taken, batch |-> d]
      BY <3>1
    <3> QED
      BY <2>2, <3>2, <3>3 DEF PlanOk
  <2>5. PlansInv'
    <3> HIDE DEF taken
    <3> QED
      BY <1>0, <2>1, <2>4, PlansWith
  <2> HIDE DEF plan
  <2>6. /\ Sound(target')
        /\ ~target'.deleted =>
             \A result \in published \cup ResultsOf(target', plan.batch) : Restores(result, target')
    BY <1>0, <2>3, BatchPublishes
  <2>7. PublishedInv'
    BY <2>1, <2>6 DEF PublishedInv, Restores, Named
  <2>8. Sound(target)'
    BY <2>6 DEF Sound, Named
  <2> QED
    BY <2>5, <2>7, <2>8 DEF IInv
<1>3. ASSUME NEW p \in Plans, Drop(p)
      PROVE  IInv'
  <2>1. plans' = [plans EXCEPT ![p] = NoPlan] /\ UNCHANGED <<target, published>>
    BY <1>3 DEF Drop
  <2>2. PlansInv'
    BY <1>0, <2>1, PlansWith
  <2>3. Sound(target)' /\ PublishedInv'
    BY <1>0, <2>1 DEF PublishedInv, Sound, Restores, Named
  <2> QED
    BY <2>2, <2>3 DEF IInv
<1>4. ASSUME NEW batch \in Batches, Len(batch) = 1, Redact(batch[1])
      PROVE  IInv'
  <2>1. /\ WithDocument(target, batch[1]) # Failed
        /\ target' = WithDocument(target, batch[1])
        /\ published' = published \cup {ResultOf(target', batch[1])}
        /\ UNCHANGED plans
    BY <1>4 DEF Redact
  <2>2. batch \in Seq(Input)
    BY PlanAssumption
  <2>3. /\ WithBatch(target, batch) = WithDocument(target, batch[1])
        /\ ResultsOf(target', batch) = {ResultOf(target', batch[1])}
    BY <1>0, <1>4, <2>2, SingleBatch
  <2>4. target' = WithBatch(target, batch) /\ target' # Failed
    BY <2>1, <2>3
  <2>5. /\ Sound(target')
        /\ ~target'.deleted =>
             \A result \in published \cup ResultsOf(target', batch) : Restores(result, target')
    BY <1>0, <2>2, <2>4, BatchPublishes
  <2>6. PublishedInv'
    BY <2>1, <2>3, <2>5 DEF PublishedInv, Restores, Named
  <2>7. Sound(target)'
    BY <2>5 DEF Sound, Named
  <2>8. PlansInv'
    BY <1>0, <2>1 DEF PlansInv, PlanOk
  <2> QED
    BY <2>6, <2>7, <2>8 DEF IInv
<1>5. CASE Delete
  <2>1. target' = [NewSession EXCEPT !.deleted = TRUE] /\ UNCHANGED <<plans, published>>
    BY <1>5 DEF Delete
  <2>2. Sound(target')
    BY <2>1, NewIsSound
  <2>3. target'.deleted
    BY <2>1 DEF NewSession
  <2>4. PublishedInv'
    BY <2>3 DEF PublishedInv
  <2>5. Sound(target)'
    BY <2>2 DEF Sound, Named
  <2>6. PlansInv'
    BY <1>0, <2>1 DEF PlansInv, PlanOk
  <2> QED
    BY <2>4, <2>5, <2>6 DEF IInv
<1>6. CASE UNCHANGED vars
  <2>1. UNCHANGED <<target, plans, published>>
    BY <1>6 DEF vars
  <2>2. PlansInv'
    BY <1>0, <2>1 DEF PlansInv, PlanOk
  <2>3. Sound(target)' /\ PublishedInv'
    BY <1>0, <2>1 DEF PublishedInv, Sound, Restores, Named
  <2> QED
    BY <2>2, <2>3 DEF IInv
<1> QED
  BY <1>1, <1>2, <1>3, <1>4, <1>5, <1>6 DEF Next, RefuseCommit

(* The inductive invariant holds throughout.                               *)
THEOREM PlansInductive == Spec => []IInv
<1> QED
  BY InitInductive, StepInductive, PTL DEF Spec

(* The invariant is stronger than the property the runs check.             *)
LEMMA IInvPlansAreSound == IInv => PlansAreSound
<1> SUFFICES ASSUME IInv PROVE PlansAreSound
  OBVIOUS
<1>1. AcceptedBatchesFit
  BY DEF IInv, PlansInv, PlanOk, Fits, AcceptedBatchesFit
<1>2. PublishedRestore
  BY DEF IInv, PublishedInv, Restores, Sound, PublishedRestore
<1> QED
  BY <1>1, <1>2 DEF PlansAreSound

(* Whatever the order of plans, commits, direct redactions and deletions:  *)
(* an accepted request is within the four limits of the decoder, counted   *)
(* as a whole, and what a commit or a direct redaction published restores  *)
(* until the session is deleted.                                           *)
THEOREM PlansSound == Spec => []PlansAreSound
<1> QED
  BY PlansInductive, IInvPlansAreSound, PTL

(* A commit that finds the session equal to the one its plan was made from *)
(* has the effect of redacting the batch at that moment: plans implement   *)
(* the serial session (plan_session_redactions and                         *)
(* PreparedSessionPlan::commit).                                           *)
THEOREM SerialImplemented == Spec => ImplementsSerial
<1>1. Init => Serial!Init
  BY SameResults DEF Init, Serial!Init
<1>2. IInv /\ [Next]_vars => [Serial!Next]_(Serial!serialVars)
  <2> SUFFICES ASSUME IInv, [Next]_vars, ~ UNCHANGED <<target, published>>
               PROVE  Serial!Next
    BY DEF Serial!serialVars
  <2>0. Sound(target) /\ PlansInv /\ Serial!serialVars' # Serial!serialVars
    BY DEF IInv, Serial!serialVars
  <2>1. ASSUME NEW p \in Plans, Commit(p)
        PROVE  Serial!Next
    <3> DEFINE batch == plans[p].batch
    <3>1. /\ plans[p] # NoPlan /\ plans[p].planned # Taken /\ target = plans[p].base
          /\ target' = plans[p].planned /\ published' = published \cup ResultsOf(target', batch)
      BY <2>1 DEF Commit
    <3>2. PlanOk(plans[p])
      BY <2>0, <3>1 DEF PlansInv
    <3>3. batch \in Batches /\ WithBatch(target, batch) # Failed /\ target' = WithBatch(target, batch)
      BY <3>1, <3>2 DEF PlanOk
    <3> HIDE DEF batch
    <3>4. Serial!Redact(batch)
      BY <3>1, <3>3, SameBatch, SameResults DEF Serial!Redact
    <3> QED
      BY <2>0, <3>3, <3>4 DEF Serial!Next
  <2>2. ASSUME NEW batch \in Batches, Len(batch) = 1, Redact(batch[1])
        PROVE  Serial!Next
    <3>1. batch \in Seq(Input)
      BY PlanAssumption
    <3>2. /\ WithBatch(target, batch) = WithDocument(target, batch[1])
          /\ ResultsOf(target', batch) = {ResultOf(target', batch[1])}
      BY <2>0, <2>2, <3>1, SingleBatch
    <3>3. /\ WithBatch(target, batch) # Failed /\ target' = WithBatch(target, batch)
          /\ published' = published \cup ResultsOf(target', batch)
      BY <2>2, <3>2 DEF Redact
    <3>4. Serial!Redact(batch)
      BY <3>3, SameBatch, SameResults DEF Serial!Redact
    <3> QED
      BY <2>0, <3>4 DEF Serial!Next
  <2>3. CASE Delete
    <3>1. Serial!Delete
      BY <2>3, SameResults DEF Delete, Serial!Delete
    <3> QED
      BY <2>0, <3>1 DEF Serial!Next
  <2>4. ASSUME NEW p \in Plans, NEW batch \in Batches, PlanBatch(p, batch)
        PROVE  FALSE
    BY <2>4 DEF PlanBatch
  <2>5. ASSUME NEW p \in Plans, RefuseCommit(p) \/ Drop(p)
        PROVE  FALSE
    BY <2>5 DEF RefuseCommit, Drop, vars
  <2>6. ~ UNCHANGED vars
    BY DEF vars
  <2> QED
    BY <2>1, <2>2, <2>3, <2>4, <2>5, <2>6 DEF Next
<1> QED
  BY <1>1, <1>2, PlansInductive, PTL DEF Spec, ImplementsSerial, Serial!Spec

=============================================================================
