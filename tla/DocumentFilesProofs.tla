-------------------------- MODULE DocumentFilesProofs --------------------------
(***************************************************************************)
(* What holds of the command line's files for any processes, documents,    *)
(* users and pages: of the archive workflow, of `anonymize pdf' and of a   *)
(* key beside its text.  Each part has an inductive invariant of its own,  *)
(* ArchiveInv, PdfInv and KeyInv, and the parts share no variable.         *)
(***************************************************************************)
EXTENDS MCDocumentFiles, Induction, SequenceTheorems, TLAPS

-----------------------------------------------------------------------------
(* Sessions: a redaction names every mention and changes nobody's name.    *)

(* No two entities share a pseudonym, and pseudonyms are numbered from 1.  *)
Sound(s) ==
  /\ s \in Sessions
  /\ \A e \in Named(s) : s.names[e] \in 1..Cardinality(Named(s))
  /\ \A e, d \in Named(s) : s.names[e] = s.names[d] => e = d

(* What a redaction leaves as it was.                                      *)
Extends(s, t) ==
  /\ Named(s) \subseteq Named(t) /\ t.deleted = s.deleted
  /\ \A e \in Named(s) : t.names[e] = s.names[e]

(* The sessions a redaction can be in, and the error.                      *)
Outcomes == {s \in Sessions : Sound(s)} \cup {Failed}

(* A session is sound when it is created and when it is deleted.           *)
LEMMA NewIsSound ==
  ASSUME NEW deleted \in BOOLEAN
  PROVE  Sound([NewSession EXCEPT !.deleted = deleted]) /\ Sound(NewSession)
<1>1. /\ NewSession.deleted = FALSE /\ NewSession = [names |-> NewSession.names, deleted |-> FALSE]
      /\ NewSession.names \in [{} -> Nat] /\ {} \in SUBSET Identities
  BY DEF NewSession
<1> DEFINE s == [NewSession EXCEPT !.deleted = deleted]
<1>2. s \in Sessions /\ NewSession \in Sessions
  <2>1. s = [names |-> NewSession.names, deleted |-> deleted]
    BY <1>1
  <2> QED
    BY <1>1, <2>1 DEF Sessions
<1>3. DOMAIN s.names = {} /\ DOMAIN NewSession.names = {}
  BY <1>1
<1> QED
  BY <1>2, <1>3 DEF Sound, Named

(* A sound session in its parts.                                           *)
LEMMA SessionFacts ==
  ASSUME NEW s, Sound(s)
  PROVE  /\ s = [names |-> s.names, deleted |-> s.deleted] /\ s.deleted \in BOOLEAN
         /\ s.names \in [Named(s) -> Nat] /\ Named(s) \in SUBSET Identities
         /\ IsFiniteSet(Named(s)) /\ Cardinality(Named(s)) \in Nat
<1>1. s \in Sessions
  BY DEF Sound
<1>2. /\ s = [names |-> s.names, deleted |-> s.deleted] /\ s.deleted \in BOOLEAN
      /\ s.names \in UNION {[S -> Nat] : S \in SUBSET Identities}
  BY <1>1 DEF Sessions
<1>3. PICK S \in SUBSET Identities : s.names \in [S -> Nat]
  BY <1>2
<1>4. Named(s) = S
  BY <1>3 DEF Named
<1>5. IsFiniteSet(S) /\ Cardinality(S) \in Nat
  BY BatchAssumption, FS_Subset, FS_CardinalityType
<1> QED
  BY <1>2, <1>3, <1>4, <1>5

(* A mention is named at the end, and nobody else's name changes.          *)
LEMMA MentionExtends ==
  ASSUME NEW s, Sound(s), NEW e \in Identities, WithMention(s, e) # Failed
  PROVE  /\ Sound(WithMention(s, e)) /\ Extends(s, WithMention(s, e))
         /\ e \in Named(WithMention(s, e))
<1>1. s # Failed
  BY DEF WithMention
<1>2. CASE e \in Named(s)
  <2>1. WithMention(s, e) = s
    BY <1>1, <1>2 DEF WithMention
  <2> QED
    BY <1>2, <2>1 DEF Extends
<1>3. CASE e \notin Named(s)
  <2> DEFINE n == Cardinality(Named(s)) + 1
             names == [d \in Named(s) \cup {e} |-> IF d = e THEN n ELSE s.names[d]]
             t == [s EXCEPT !.names = names]
  <2>1. WithMention(s, e) = t
    BY <1>1, <1>3 DEF WithMention
  <2>2. /\ s = [names |-> s.names, deleted |-> s.deleted] /\ s.deleted \in BOOLEAN
        /\ s.names \in [Named(s) -> Nat] /\ Named(s) \in SUBSET Identities
        /\ IsFiniteSet(Named(s)) /\ Cardinality(Named(s)) \in Nat
    BY SessionFacts
  <2>3. n \in Nat /\ n # 0 /\ Cardinality(Named(s) \cup {e}) = n
    <3>1. Cardinality(Named(s) \cup {e}) = Cardinality(Named(s)) + 1
      BY <1>3, <2>2, FS_AddElement
    <3> QED
      BY <2>2, <3>1
  <2>4. /\ names \in [Named(s) \cup {e} -> Nat] /\ DOMAIN names = Named(s) \cup {e}
        /\ names[e] = n /\ \A d \in Named(s) : names[d] = s.names[d]
    BY <1>3, <2>2, <2>3
  <2>5. \A d \in Named(s) : s.names[d] \in 1..Cardinality(Named(s))
    BY DEF Sound
  <2>6. t = [names |-> names, deleted |-> s.deleted]
    BY <2>2
  <2> HIDE DEF names, n
  <2>7. t.names = names /\ t.deleted = s.deleted /\ Named(t) = Named(s) \cup {e}
    BY <2>4, <2>6 DEF Named
  <2>8. t \in Sessions
    <3>1. Named(s) \cup {e} \in SUBSET Identities
      BY <2>2
    <3> QED
      BY <2>2, <2>4, <2>6, <3>1 DEF Sessions
  <2> HIDE DEF t
  <2>9. \A d \in Named(t) : t.names[d] \in 1..Cardinality(Named(t))
    <3>1. \A d \in Named(s) : names[d] \in 1..n
      BY <2>2, <2>3, <2>4, <2>5 DEF n
    <3> QED
      BY <2>3, <2>4, <2>7, <3>1
  <2>10. \A d, z \in Named(t) : t.names[d] = t.names[z] => d = z
    <3>1. \A d \in Named(s) : names[d] # n
      BY <2>2, <2>4, <2>5 DEF n
    <3>2. \A d, z \in Named(s) : names[d] = names[z] => d = z
      BY <2>4 DEF Sound
    <3> QED
      BY <2>4, <2>7, <3>1, <3>2
  <2>11. Sound(t)
    BY <2>8, <2>9, <2>10 DEF Sound
  <2>12. Extends(s, t)
    BY <2>4, <2>7 DEF Extends
  <2> QED
    BY <2>1, <2>7, <2>11, <2>12
<1> QED
  BY <1>2, <1>3

(* One more mention, and what came before it stays.                        *)
LEMMA ExtendsTransitive ==
  ASSUME NEW s, NEW t, NEW u, Extends(s, t), Extends(t, u)
  PROVE  Extends(s, u)
BY DEF Extends

-----------------------------------------------------------------------------
(* What one mention makes of an outcome is an outcome.                     *)
LEMMA MentionOutcome ==
  ASSUME NEW v \in Outcomes, NEW e \in Identities
  PROVE  WithMention(v, e) \in Outcomes
<1>1. CASE v = Failed
  BY <1>1 DEF WithMention, Outcomes
<1>2. CASE v # Failed /\ WithMention(v, e) = Failed
  BY <1>2 DEF Outcomes
<1>3. CASE v # Failed /\ WithMention(v, e) # Failed
  <2>1. Sound(v)
    BY <1>3 DEF Outcomes
  <2>2. Sound(WithMention(v, e))
    BY <1>3, <2>1, MentionExtends
  <2> QED
    BY <2>2 DEF Outcomes, Sound
<1> QED
  BY <1>1, <1>2, <1>3

(* A redaction of a document goes from mention to mention.                 *)
Mentions(g, s, mentions) ==
  /\ g[0] = s /\ g[Len(mentions)] = FoldLeft(WithMention, s, mentions)
  /\ \A k \in 0..(Len(mentions) - 1) : g[k + 1] = WithMention(g[k], mentions[k + 1])

(* Such a run exists for every document.                                   *)
LEMMA MentionsFold ==
  ASSUME NEW s, Sound(s), NEW mentions \in Seq(Identities)
  PROVE  \E g : Mentions(g, s, mentions)
<1> DEFINE N == Len(mentions)
           Def(f, S) == IF S = {} THEN s ELSE WithMention(f[S \ {Max(S)}], mentions[Max(S)])
           F == [e \in (1..N) \X Outcomes |-> WithMention(e[2], mentions[e[1]])]
           It == CHOOSE f : f = [S \in SUBSET (1..N) |-> Def(f, S)]
<1>1. N \in Nat /\ DOMAIN mentions = 1..N /\ \A i \in 1..N : mentions[i] \in Identities
  BY LenProperties, ElementOfSeq
<1>2. F \in [(1..N) \X Outcomes -> Outcomes]
  <2>1. \A v \in Outcomes, i \in 1..N : WithMention(v, mentions[i]) \in Outcomes
    BY <1>1, MentionOutcome
  <2> HIDE DEF N
  <2> QED
    BY <2>1
<1>3. s \in Outcomes
  BY DEF Outcomes, Sound
<1>4. FoldLeft(WithMention, s, mentions) = It[1..N]
  BY <1>1 DEF FoldLeft, MapThenFoldSet
<1>5. PICK iter \in [SUBSET (1..N) -> Outcomes] : FoldsTo(iter, N, s, F)
  <2> HIDE DEF F, N
  <2> QED
    BY <1>1, <1>2, <1>3, FoldExists DEF HasFold
<1>6. ASSUME NEW S \in SUBSET (1..N), S # {}
      PROVE  Max(S) \in 1..N /\ S \ {Max(S)} \in SUBSET (1..N)
  <2>1. S \in SUBSET (0..N)
    OBVIOUS
  <2>2. Max(S) \in S
    BY <1>1, <1>6, <2>1, MaxUpTo
  <2> QED
    BY <2>2
<1>7. iter = [S \in SUBSET (1..N) |-> Def(iter, S)]
  <2>1. ASSUME NEW S \in SUBSET (1..N)
        PROVE  iter[S] = Def(iter, S)
    <3>1. CASE S = {}
      BY <1>5, <3>1 DEF FoldsTo
    <3>2. CASE S # {}
      <4>1. Max(S) \in 1..N /\ S \ {Max(S)} \in SUBSET (1..N)
        BY <1>6, <3>2
      <4> HIDE DEF N
      <4>2. iter[S \ {Max(S)}] \in Outcomes
        BY <1>5, <4>1
      <4>3. iter[S] = F[<<Max(S), iter[S \ {Max(S)}]>>]
        <5> HIDE DEF F
        <5> QED
          BY <1>5, <3>2 DEF FoldsTo
      <4> QED
        BY <3>2, <4>1, <4>2, <4>3
    <3> QED
      BY <3>1, <3>2
  <2> HIDE DEF Def
  <2> QED
    BY <1>5, <2>1
<1>8. It = [S \in SUBSET (1..N) |-> Def(It, S)]
  <2> HIDE DEF Def
  <2> QED
    BY <1>7
<1>9. FoldsWithin(It, N, Outcomes, s, F)
  <2> HIDE DEF It
  <2>1. ASSUME NEW S \in SUBSET (1..N)
        PROVE  /\ S = {} => It[S] = s
               /\ S # {} /\ It[S \ {Max(S)}] \in Outcomes =>
                    It[S] = F[<<Max(S), It[S \ {Max(S)}]>>]
    <3>1. It[S] = Def(It, S)
      <4> HIDE DEF Def
      <4> QED
        BY <1>8
    <3>2. ASSUME S # {}, It[S \ {Max(S)}] \in Outcomes
          PROVE  It[S] = F[<<Max(S), It[S \ {Max(S)}]>>]
      <4>1. Max(S) \in 1..N
        BY <1>6, <3>2
      <4> HIDE DEF N
      <4> QED
        BY <3>1, <3>2, <4>1
    <3> QED
      BY <3>1, <3>2
  <2> HIDE DEF F, N
  <2> QED
    BY <2>1 DEF FoldsWithin
<1>10. PICK g : Runs(g, N, Outcomes, s, F) /\ g[N] = It[1..N]
  <2> HIDE DEF It, F, N
  <2>1. N \in Nat
    BY <1>1
  <2>2. HasRun(It, N, Outcomes, s, F)
    BY <1>2, <1>3, <1>9, <2>1, FoldRuns
  <2> QED
    BY <2>2 DEF HasRun
<1>11. Mentions(g, s, mentions)
  <2>1. ASSUME NEW k \in 0..(N - 1)
        PROVE  g[k + 1] = WithMention(g[k], mentions[k + 1])
    <3>1. k + 1 \in 1..N /\ k \in 0..N
      BY <1>1
    <3> HIDE DEF It, N
    <3>2. g[k] \in Outcomes /\ g[k + 1] = F[<<k + 1, g[k]>>]
      <4> HIDE DEF F
      <4> QED
        BY <1>10, <3>1 DEF Runs
    <3> QED
      BY <3>1, <3>2
  <2> HIDE DEF It
  <2> QED
    BY <1>4, <1>10, <2>1 DEF Mentions, Runs
<1> QED
  BY <1>11

-----------------------------------------------------------------------------
(* A redaction that ends has named all of its mentions and left the rest   *)
(* as it was.                                                              *)
LEMMA MentionsExtend ==
  ASSUME NEW s, Sound(s), NEW mentions \in Seq(Identities),
         FoldLeft(WithMention, s, mentions) # Failed
  PROVE  /\ Sound(FoldLeft(WithMention, s, mentions))
         /\ Extends(s, FoldLeft(WithMention, s, mentions))
         /\ ToSet(mentions) \subseteq Named(FoldLeft(WithMention, s, mentions))
<1> DEFINE N == Len(mentions)
           t == FoldLeft(WithMention, s, mentions)
<1>1. N \in Nat /\ DOMAIN mentions = 1..N /\ \A i \in 1..N : mentions[i] \in Identities
  BY LenProperties, ElementOfSeq
<1>2. PICK g : Mentions(g, s, mentions)
  BY MentionsFold
<1> DEFINE Good(k) == /\ Sound(g[k]) /\ Extends(s, g[k])
                      /\ \A i \in 1..k : mentions[i] \in Named(g[k])
           T == {k \in 0..N : g[k] # Failed => Good(k)}
<1>3. 0 \in T
  <2>1. g[0] = s /\ 1..0 = {}
    BY <1>2 DEF Mentions
  <2>2. Extends(s, s)
    BY DEF Extends
  <2> QED
    BY <1>1, <2>1, <2>2
<1>4. ASSUME NEW k \in 0..(N - 1), k \in T
      PROVE  k + 1 \in T
  <2> SUFFICES ASSUME g[k + 1] # Failed
               PROVE  Good(k + 1)
    BY <1>1
  <2> DEFINE e == mentions[k + 1]
  <2>1. k + 1 \in 1..N /\ 1..(k + 1) = (1..k) \cup {k + 1}
    BY <1>1
  <2>2. e \in Identities
    BY <1>1, <2>1
  <2>3. g[k + 1] = WithMention(g[k], e)
    BY <1>1, <1>2 DEF Mentions
  <2>4. g[k] # Failed
    BY <2>3 DEF WithMention
  <2>5. Good(k)
    BY <1>4, <2>4
  <2> HIDE DEF e
  <2>6. Sound(g[k + 1]) /\ Extends(g[k], g[k + 1]) /\ e \in Named(g[k + 1])
    <3>1. Sound(g[k]) /\ WithMention(g[k], e) # Failed
      BY <2>3, <2>5
    <3> QED
      BY <2>2, <2>3, <3>1, MentionExtends
  <2>7. Extends(s, g[k + 1])
    BY <2>5, <2>6, ExtendsTransitive
  <2>8. \A i \in 1..(k + 1) : mentions[i] \in Named(g[k + 1])
    <3>1. ASSUME NEW i \in 1..k
          PROVE  mentions[i] \in Named(g[k + 1])
      BY <2>5, <2>6 DEF Extends
    <3>2. mentions[k + 1] \in Named(g[k + 1])
      BY <2>6 DEF e
    <3> QED
      BY <2>1, <3>1, <3>2
  <2> QED
    BY <2>6, <2>7, <2>8
<1>5. N \in T
  <2> HIDE DEF T, N
  <2>1. 0..N \subseteq T
    BY <1>1, <1>3, <1>4, InductionUpTo
  <2> QED
    BY <1>1, <2>1
<1>6. t = g[N]
  BY <1>2 DEF Mentions
<1>7. Good(N)
  BY <1>5, <1>6
<1>8. ToSet(mentions) = {mentions[i] : i \in 1..N}
  BY <1>1 DEF ToSet
<1> HIDE DEF t, N
<1> QED
  BY <1>6, <1>7, <1>8 DEF t

(* The same of a document: only a session that is not deleted takes one.   *)
LEMMA DocumentExtends ==
  ASSUME NEW s, Sound(s), NEW input \in [mentions : Seq(Identities)],
         WithDocument(s, input) # Failed
  PROVE  /\ Sound(WithDocument(s, input)) /\ Extends(s, WithDocument(s, input))
         /\ ToSet(input.mentions) \subseteq Named(WithDocument(s, input))
<1>1. WithDocument(s, input) = FoldLeft(WithMention, s, input.mentions)
  BY DEF WithDocument
<1>2. input.mentions \in Seq(Identities)
  OBVIOUS
<1> QED
  BY <1>1, <1>2, MentionsExtend

-----------------------------------------------------------------------------
(* The archive workflow                                                    *)

(* The archive is what this session is, or has gained names since.         *)
InArchive(session) == archive # NoFile /\ Extends(session, archive)

(* A document that is out, or may come out, can be undone.                 *)
Undoable(content) ==
  IF content.kind = "anonymized"
  THEN /\ archive # NoFile
       /\ \A e \in DOMAIN content.text :
            e \in Named(archive) /\ archive.names[e] = content.text[e]
  ELSE \A e \in DOMAIN content.text : content.text[e] = e

(* What a document shows is named in the session it was made with.         *)
MadeWith(session, content) ==
  /\ content.kind = "anonymized"
  /\ \A e \in DOMAIN content.text :
       e \in Named(session) /\ session.names[e] = content.text[e]

Unpublished == {"ready", "documentStaged", "staged"}
ArchiveIsOut == {"archiveLinked", "archived"}

(* A command that extends the archive: between reading it and publishing   *)
(* it, a continuation knows that nobody else did.                          *)
WriterInv(p) ==
  /\ process[p].pc \in Unpublished =>
       /\ Sound(process[p].session) /\ MadeWith(process[p].session, process[p].content)
       /\ Continuing(p) => archive # NoFile /\ Extends(archive, process[p].session)
  /\ process[p].pc \in ArchiveIsOut /\ process[p].content # NoFile =>
       Undoable(process[p].content)

(* A restoration, which reads its document and the archive without a lock. *)
ReaderInv(p) ==
  /\ process[p].session # NoFile => InArchive(process[p].session)
  /\ process[p].content # NoFile => Undoable(process[p].content)

SessionOf(p) ==
  /\ process[p].session # NoFile => Sound(process[p].session)
  /\ process[p].command = "restore" => ReaderInv(p)
  /\ process[p].command # "restore" => WriterInv(p)

SessionInv ==
  /\ archive # NoFile => Sound(archive)
  /\ \A o \in Outputs : outputs[o] # NoFile => Undoable(outputs[o])
  /\ \A p \in Processes : SessionOf(p)

(* The lock is held from its acquisition to its release.                   *)
LockInv ==
  /\ \A p \in Processes :
       Continuing(p) /\ Running(p) /\ process[p].pc # "started" => lock = p
  /\ lock # Nobody =>
       /\ Running(lock) \/ process[lock].pc = "killed" \/ unlinkFailed
       /\ Continuing(lock) /\ process[lock].pc \notin {"new", "started"}

(* A temporary file is there while its command has yet to remove it.       *)
KeepingArchive == {"staged", "archiveLinked", "failing", "killed"}
KeepingDocument == KeepingArchive \cup {"documentStaged", "archived", "linked"}

StageInv ==
  \A f \in staged :
    \/ process[f.by].pc \in KeepingArchive
    \/ f.target = "document" /\ process[f.by].pc \in KeepingDocument
    \/ unlinkFailed

(* Which fields a command has, and what they hold at which step.           *)
Shape(r) ==
  r = [pc |-> r.pc, command |-> r.command, input |-> r.input, output |-> r.output,
       session |-> r.session, content |-> r.content]

ProcessShape ==
  process = [p \in Processes |-> process[p]] /\ \A p \in Processes : Shape(process[p])

StepOf(p) ==
  /\ process[p].command \in {"create", "continue", "restore"}
  /\ IsFile(process[p].content)
  /\ process[p].pc # "new" =>
       /\ process[p].output \in Outputs
       /\ process[p].input \in IF process[p].command = "restore" THEN Outputs ELSE Documents
  /\ process[p].pc \in {"documentStaged", "staged", "archiveLinked"} =>
       process[p].command # "restore"
  /\ process[p].pc = "published" => Continuing(p)

ProcessInv == ProcessShape /\ \A p \in Processes : StepOf(p)

FileInv ==
  /\ lock \in Processes \cup {Nobody} /\ unlinkFailed \in BOOLEAN
  /\ outputs = [o \in Outputs |-> outputs[o]]
  /\ \A o \in Outputs : IsFile(outputs[o])
  /\ staged \subseteq [by : Processes, target : {"document", "archive"}]

ArchiveInv == ProcessInv /\ FileInv /\ SessionInv /\ LockInv /\ StageInv

(* A step to another place, which leaves a command's fields alone.         *)
Others(p) == \A q \in Processes \ {p} : process'[q] = process[q]

Moved(p, pc) ==
  /\ ProcessShape' /\ Others(p)
  /\ process'[p].pc = pc /\ process'[p].command = process[p].command
  /\ process'[p].input = process[p].input /\ process'[p].output = process[p].output
  /\ process'[p].session = process[p].session /\ process'[p].content = process[p].content

LEMMA Updates ==
  ASSUME ProcessShape, NEW p \in Processes, NEW r, Shape(r),
         process' = [process EXCEPT ![p] = r]
  PROVE  ProcessShape' /\ Others(p) /\ process'[p] = r
<1>1. process = [q \in Processes |-> process[q]]
  BY DEF ProcessShape
<1>2. process' = [q \in Processes |-> IF q = p THEN r ELSE process[q]]
  BY <1>1
<1>3. process'[p] = r /\ \A q \in Processes \ {p} : process'[q] = process[q]
  BY <1>2
<1>4. process' = [q \in Processes |-> process'[q]]
  BY <1>2
<1>5. \A q \in Processes : Shape(process'[q])
  <2>1. \A q \in Processes \ {p} : Shape(process[q])
    BY DEF ProcessShape
  <2> QED
    BY <1>3, <2>1
<1> QED
  BY <1>3, <1>4, <1>5 DEF ProcessShape, Others, Shape

LEMMA GotoMoves ==
  ASSUME ProcessShape, NEW p \in Processes, NEW pc, Goto(p, pc)
  PROVE  Moved(p, pc)
<1> DEFINE c == process[p]
           r == [pc |-> pc, command |-> c.command, input |-> c.input, output |-> c.output,
                 session |-> c.session, content |-> c.content]
<1>1. process' = [process EXCEPT ![p] = r]
  <2>1. c = [pc |-> c.pc, command |-> c.command, input |-> c.input, output |-> c.output,
             session |-> c.session, content |-> c.content]
    BY DEF ProcessShape, Shape
  <2>2. [c EXCEPT !.pc = pc] = r
    BY <2>1
  <2>3. process' = [process EXCEPT ![p] = [c EXCEPT !.pc = pc]]
    BY DEF Goto
  <2> HIDE DEF c, r
  <2> QED
    BY <2>2, <2>3
<1>2. Shape(r)
  BY DEF Shape
<1>3. ProcessShape' /\ Others(p) /\ process'[p] = r
  <2> HIDE DEF r
  <2> QED
    BY <1>1, <1>2, Updates
<1> QED
  BY <1>3 DEF Moved

-----------------------------------------------------------------------------
(* What was said of the archive stays true while it gains names.           *)
Grown == archive # NoFile => archive' # NoFile /\ Extends(archive, archive')

LEMMA UndoableGrows ==
  ASSUME Grown, NEW content, Undoable(content)
  PROVE  Undoable(content)'
<1>1. CASE content.kind = "anonymized"
  <2>1. archive # NoFile /\ \A e \in DOMAIN content.text :
          e \in Named(archive) /\ archive.names[e] = content.text[e]
    BY <1>1 DEF Undoable
  <2>2. archive' # NoFile /\ Extends(archive, archive')
    BY <2>1 DEF Grown
  <2>3. \A e \in DOMAIN content.text :
          e \in Named(archive') /\ archive'.names[e] = content.text[e]
    BY <2>1, <2>2 DEF Extends
  <2> QED
    BY <1>1, <2>2, <2>3 DEF Undoable
<1>2. CASE content.kind # "anonymized"
  BY <1>2 DEF Undoable
<1> QED
  BY <1>1, <1>2

LEMMA InArchiveGrows ==
  ASSUME Grown, NEW session, InArchive(session)
  PROVE  InArchive(session)'
<1>1. archive # NoFile /\ Extends(session, archive)
  BY DEF InArchive
<1>2. archive' # NoFile /\ Extends(archive, archive')
  BY <1>1 DEF Grown
<1>3. Extends(session, archive')
  BY <1>1, <1>2, ExtendsTransitive
<1> QED
  BY <1>2, <1>3 DEF InArchive

LEMMA ReaderGrows ==
  ASSUME Grown, NEW p, process'[p] = process[p], ReaderInv(p)
  PROVE  ReaderInv(p)'
<1> DEFINE session == process[p].session
           content == process[p].content
<1>1. session # NoFile => InArchive(session)'
  BY InArchiveGrows DEF ReaderInv
<1>2. content # NoFile => Undoable(content)'
  BY UndoableGrows DEF ReaderInv
<1> HIDE DEF Grown
<1> QED
  BY <1>1, <1>2 DEF ReaderInv, InArchive, Undoable

(* Nothing happens to a session while the archive stays as it is.          *)
LEMMA SessionStays ==
  ASSUME archive' = archive, NEW p, process'[p] = process[p], SessionOf(p)
  PROVE  SessionOf(p)'
BY DEF SessionOf, ReaderInv, WriterInv, InArchive, Undoable, Continuing

LEMMA SameArchive ==
  ASSUME SessionInv, archive' = archive, outputs' = outputs,
         NEW p \in Processes, Others(p), SessionOf(p)'
  PROVE  SessionInv'
<1>1. \A q \in Processes \ {p} : SessionOf(q)'
  BY SessionStays DEF SessionInv, Others
<1>2. \A o \in Outputs : outputs'[o] # NoFile => Undoable(outputs[o])'
  BY DEF SessionInv, Undoable
<1> QED
  BY <1>1, <1>2 DEF SessionInv, Undoable

(* Most steps only come from one place to another.                         *)
LEMMA SessionMoves ==
  ASSUME SessionInv, archive' = archive, outputs' = outputs,
         NEW p \in Processes, NEW pc, Moved(p, pc),
         process[p].command # "restore" =>
           /\ pc \in Unpublished => process[p].pc \in Unpublished
           /\ pc \in ArchiveIsOut => process[p].pc \in ArchiveIsOut
  PROVE  SessionInv'
<1>1. SessionOf(p)
  BY DEF SessionInv
<1>2. /\ process'[p].pc = pc /\ process'[p].command = process[p].command
      /\ process'[p].session = process[p].session
      /\ process'[p].content = process[p].content
  BY DEF Moved
<1>3. process[p].command = "restore" => ReaderInv(p)'
  BY <1>1, <1>2 DEF SessionOf, ReaderInv, InArchive, Undoable
<1>4. process[p].command # "restore" => WriterInv(p)'
  <2> SUFFICES ASSUME process[p].command # "restore" PROVE WriterInv(p)'
    OBVIOUS
  <2>1. WriterInv(p)
    BY <1>1 DEF SessionOf
  <2>2. pc \in Unpublished =>
          /\ Sound(process'[p].session) /\ MadeWith(process'[p].session, process'[p].content)
          /\ Continuing(p)' => archive' # NoFile /\ Extends(archive', process'[p].session)
    BY <1>2, <2>1 DEF WriterInv, Continuing
  <2>3. pc \in ArchiveIsOut /\ process'[p].content # NoFile => Undoable(process[p].content)'
    BY <1>2, <2>1 DEF WriterInv, Undoable
  <2> QED
    BY <1>2, <2>2, <2>3 DEF WriterInv, Undoable, MadeWith
<1>5. SessionOf(p)'
  BY <1>1, <1>2, <1>3, <1>4 DEF SessionOf
<1> QED
  BY <1>5, SameArchive DEF Moved

-----------------------------------------------------------------------------
(* The same for a command's fields, for the lock and for temporary files.  *)
LEMMA StepMoves ==
  ASSUME ProcessInv, NEW p \in Processes, NEW pc, Moved(p, pc), process[p].pc # "new",
         pc = "published" => Continuing(p),
         pc \in {"documentStaged", "staged", "archiveLinked"} =>
           process[p].command # "restore"
  PROVE  ProcessInv'
<1>1. \A q \in Processes : StepOf(q)
  BY DEF ProcessInv
<1>2. ProcessShape' /\ \A q \in Processes \ {p} : process'[q] = process[q]
  BY DEF Moved, Others
<1>3. \A q \in Processes \ {p} : StepOf(q)'
  BY <1>1, <1>2 DEF StepOf, Continuing
<1>4. StepOf(p)'
  BY <1>1 DEF StepOf, Moved, Continuing
<1> QED
  BY <1>2, <1>3, <1>4 DEF ProcessInv

Steps(p, pc) ==
  Others(p) /\ process'[p].pc = pc /\ process'[p].command = process[p].command

Active == Fallible \cup {"archiveLinked", "linked", "failing", "published"}

LEMMA LockMoves ==
  ASSUME LockInv, lock \in Processes \cup {Nobody}, lock' = lock,
         unlinkFailed => unlinkFailed',
         NEW p \in Processes, NEW pc, Steps(p, pc),
         Continuing(p) => pc \notin {"new", "started"},
         Continuing(p) /\ pc \in Active =>
           process[p].pc \in Active /\ process[p].pc # "started",
         Continuing(p) => pc \in Active \cup {"killed"} \/ unlinkFailed' \/ lock # p
  PROVE  LockInv'
<1>1. \A q \in Processes \ {p} : process'[q] = process[q]
  BY DEF Steps, Others
<1>2. process'[p].pc = pc /\ process'[p].command = process[p].command
  BY DEF Steps
<1>3. ASSUME NEW q \in Processes, Continuing(q)', Running(q)', process'[q].pc # "started"
      PROVE  lock' = q
  <2>1. CASE q = p
    <3>1. Continuing(p) /\ pc \in Active
      BY <1>2, <1>3, <2>1 DEF Continuing, Running, Active
    <3>2. Running(p) /\ process[p].pc # "started"
      BY <3>1 DEF Running, Active
    <3> QED
      BY <2>1, <3>1, <3>2 DEF LockInv
  <2>2. CASE q # p
    <3>1. Continuing(q) /\ Running(q) /\ process[q].pc # "started"
      BY <1>1, <1>3, <2>2 DEF Continuing, Running
    <3> QED
      BY <3>1 DEF LockInv
  <2> QED
    BY <2>1, <2>2
<1>4. ASSUME lock' # Nobody
      PROVE  /\ Running(lock)' \/ process'[lock'].pc = "killed" \/ unlinkFailed'
             /\ Continuing(lock)' /\ process'[lock'].pc \notin {"new", "started"}
  <2>1. /\ lock \in Processes
        /\ Running(lock) \/ process[lock].pc = "killed" \/ unlinkFailed
        /\ Continuing(lock) /\ process[lock].pc \notin {"new", "started"}
    BY <1>4 DEF LockInv
  <2>2. CASE lock = p
    <3>1. Continuing(lock)' /\ process'[lock'].pc \notin {"new", "started"}
      BY <1>2, <2>1, <2>2 DEF Continuing
    <3>2. pc \in Active \cup {"killed"} \/ unlinkFailed'
      BY <2>1, <2>2
    <3> QED
      BY <1>2, <2>2, <3>1, <3>2 DEF Running, Active
  <2>3. CASE lock # p
    <3>1. process'[lock'] = process[lock]
      <4>1. lock \in Processes \ {p}
        BY <2>1, <2>3
      <4>2. process'[lock] = process[lock]
        BY <1>1, <4>1
      <4> QED
        BY <4>2
    <3> QED
      BY <2>1, <3>1 DEF Running, Continuing
  <2> QED
    BY <2>2, <2>3
<1> QED
  BY <1>3, <1>4 DEF LockInv

(* Where the files of a command may be.                                    *)
KeptAt(f, pc) ==
  \/ pc \in KeepingArchive
  \/ f.target = "document" /\ pc \in KeepingDocument

LEMMA StageMoves ==
  ASSUME StageInv, staged \subseteq [by : Processes, target : {"document", "archive"}],
         NEW p \in Processes, NEW pc, Steps(p, pc), NEW files,
         staged' \subseteq files, unlinkFailed => unlinkFailed',
         \A f \in files : f \in staged \/ (KeptAt(f, pc) /\ f.by = p),
         \A f \in files : f.by = p => KeptAt(f, pc) \/ unlinkFailed'
  PROVE  StageInv'
<1> SUFFICES ASSUME NEW f \in staged'
             PROVE  KeptAt(f, process'[f.by].pc) \/ unlinkFailed'
  BY DEF StageInv, KeptAt
<1>1. CASE f.by = p
  <2>1. process'[p].pc = pc
    BY DEF Steps
  <2> QED
    BY <1>1, <2>1
<1>2. CASE f.by # p
  <2>1. f \in staged /\ f.by \in Processes \ {p}
    BY <1>2
  <2>2. process'[f.by] = process[f.by]
    BY <2>1 DEF Steps, Others
  <2>3. KeptAt(f, process[f.by].pc) \/ unlinkFailed
    BY <2>1 DEF StageInv, KeptAt
  <2> QED
    BY <2>2, <2>3
<1> QED
  BY <1>1, <1>2

(* A step that touches neither document nor archive nor lock.              *)
LEMMA MovesOn ==
  ASSUME ArchiveInv, UNCHANGED <<archive, lock, outputs>>,
         NEW p \in Processes, NEW pc, Goto(p, pc),
         process[p].pc \in Active, pc \notin {"new", "started"},
         pc = "published" => Continuing(p),
         pc \in {"documentStaged", "staged", "archiveLinked"} =>
           process[p].command # "restore",
         process[p].command # "restore" =>
           /\ pc \in Unpublished => process[p].pc \in Unpublished
           /\ pc \in ArchiveIsOut => process[p].pc \in ArchiveIsOut,
         Continuing(p) /\ process[p].pc = "started" => pc \notin Active,
         Continuing(p) /\ process[p].pc # "started" => pc \in Active \cup {"killed"},
         staged' \subseteq [by : Processes, target : {"document", "archive"}],
         unlinkFailed' \in BOOLEAN, unlinkFailed => unlinkFailed',
         Steps(p, pc) => StageInv'
  PROVE  ArchiveInv'
<1>1. ProcessInv /\ FileInv /\ SessionInv /\ LockInv
  BY DEF ArchiveInv
<1>2. Moved(p, pc) /\ Steps(p, pc)
  BY <1>1, GotoMoves DEF ProcessInv, Moved, Steps
<1>3. process[p].pc # "new"
  BY DEF Active, Fallible
<1>4. ProcessInv'
  BY <1>1, <1>2, <1>3, StepMoves
<1>5. SessionInv'
  BY <1>1, <1>2, SessionMoves
<1>6. LockInv'
  <2>1. Continuing(p) /\ pc \in Active => process[p].pc \in Active /\ process[p].pc # "started"
    OBVIOUS
  <2>2. Continuing(p) => pc \in Active \cup {"killed"} \/ unlinkFailed' \/ lock # p
    <3>1. CASE process[p].pc = "started"
      <4>1. Nobody \notin Processes
        BY WorkflowAssumption
      <4> QED
        BY <1>1, <3>1, <4>1 DEF LockInv
    <3>2. CASE process[p].pc # "started"
      BY <3>2
    <3> QED
      BY <3>1, <3>2
  <2>3. lock \in Processes \cup {Nobody} /\ lock' = lock
    BY <1>1 DEF FileInv
  <2> QED
    BY <1>1, <1>2, <2>1, <2>2, <2>3, LockMoves
<1>7. FileInv'
  BY <1>1 DEF FileInv, IsFile, Shows
<1> QED
  BY <1>2, <1>4, <1>5, <1>6, <1>7 DEF ArchiveInv

(* Nor temporary file.                                                     *)
LEMMA StageStays ==
  ASSUME ArchiveInv, UNCHANGED <<staged, unlinkFailed>>,
         NEW p \in Processes, NEW pc, Steps(p, pc),
         process[p].pc \in KeepingArchive => pc \in KeepingArchive,
         process[p].pc \in KeepingDocument => pc \in KeepingDocument
  PROVE  StageInv'
<1>1. StageInv /\ staged \subseteq [by : Processes, target : {"document", "archive"}]
  BY DEF ArchiveInv, FileInv
<1>2. \A f \in staged : f.by = p => KeptAt(f, pc) \/ unlinkFailed'
  BY <1>1 DEF StageInv, KeptAt
<1>3. staged' \subseteq staged /\ (unlinkFailed => unlinkFailed')
  OBVIOUS
<1> QED
  BY <1>1, <1>2, <1>3, StageMoves

LEMMA OnlyMoves ==
  ASSUME ArchiveInv, UNCHANGED <<archive, lock, outputs, staged, unlinkFailed>>,
         NEW p \in Processes, NEW pc, Goto(p, pc),
         process[p].pc \in Active, pc \notin {"new", "started", "published"},
         pc \notin Unpublished \cup ArchiveIsOut,
         Continuing(p) /\ process[p].pc = "started" => pc \notin Active,
         Continuing(p) /\ process[p].pc # "started" => pc \in Active \cup {"killed"},
         process[p].pc \in KeepingArchive => pc \in KeepingArchive,
         process[p].pc \in KeepingDocument => pc \in KeepingDocument
  PROVE  ArchiveInv'
<1>1. Steps(p, pc) => StageInv'
  BY StageStays
<1>2. /\ staged' \subseteq [by : Processes, target : {"document", "archive"}]
      /\ unlinkFailed' \in BOOLEAN /\ (unlinkFailed => unlinkFailed')
  BY DEF ArchiveInv, FileInv
<1>3. pc \notin {"documentStaged", "staged", "archiveLinked"}
  BY DEF Unpublished, ArchiveIsOut
<1> QED
  BY <1>1, <1>2, <1>3, MovesOn

-----------------------------------------------------------------------------
(* One lemma per action: those that only move.                             *)
LEMMA FailKeepsInv ==
  ASSUME ArchiveInv, NEW p \in Processes, Fail(p)
  PROVE  ArchiveInv'
<1> DEFINE pc == IF process[p].pc = "started" THEN "failed" ELSE "failing"
<1>1. process[p].pc \in Fallible /\ Goto(p, pc)
      /\ UNCHANGED <<archive, lock, outputs, staged, unlinkFailed>>
  BY DEF Fail
<1>2. process[p].pc \in Active
  BY <1>1 DEF Active
<1>3. CASE process[p].pc = "started"
  BY <1>1, <1>2, <1>3, OnlyMoves
     DEF Active, Fallible, Unpublished, ArchiveIsOut, KeepingArchive, KeepingDocument
<1>4. CASE process[p].pc # "started"
  BY <1>1, <1>2, <1>4, OnlyMoves
     DEF Active, Fallible, Unpublished, ArchiveIsOut, KeepingArchive, KeepingDocument
<1> QED
  BY <1>3, <1>4

LEMMA KillKeepsInv ==
  ASSUME ArchiveInv, NEW p \in Processes, Kill(p)
  PROVE  ArchiveInv'
<1>1. process[p].pc \in Active /\ Goto(p, "killed")
      /\ UNCHANGED <<archive, lock, outputs, staged, unlinkFailed>>
  BY DEF Kill, Running, Active
<1> QED
  BY <1>1, OnlyMoves
     DEF Active, Fallible, Unpublished, ArchiveIsOut, KeepingArchive, KeepingDocument

LEMMA AcquireLockKeepsInv ==
  ASSUME ArchiveInv, NEW p \in Processes, AcquireLock(p)
  PROVE  ArchiveInv'
<1>1. ProcessInv /\ FileInv /\ SessionInv /\ LockInv /\ StageInv
  BY DEF ArchiveInv
<1>2. /\ process[p].pc = "started" /\ Continuing(p) /\ lock = Nobody
      /\ lock' = p /\ Goto(p, "locked")
      /\ UNCHANGED <<archive, outputs, staged, unlinkFailed>>
  BY DEF AcquireLock
<1>3. Moved(p, "locked")
  BY <1>1, <1>2, GotoMoves DEF ProcessInv
<1>4. Steps(p, "locked")
  BY <1>3 DEF Moved, Steps
<1>5. ProcessInv'
  BY <1>1, <1>2, <1>3, StepMoves
<1>6. SessionInv'
  BY <1>1, <1>2, <1>3, SessionMoves DEF Unpublished, ArchiveIsOut
<1>7. LockInv'
  <2>1. Nobody \notin Processes
    BY WorkflowAssumption
  <2>2. ASSUME NEW q \in Processes, Continuing(q)', Running(q)', process'[q].pc # "started"
        PROVE  lock' = q
    <3>1. CASE q = p
      BY <1>2, <3>1
    <3>2. CASE q # p
      <4>1. process'[q] = process[q]
        BY <1>4, <3>2 DEF Steps, Others
      <4>2. Continuing(q) /\ Running(q) /\ process[q].pc # "started"
        BY <2>2, <4>1 DEF Continuing, Running
      <4> QED
        BY <1>1, <1>2, <2>1, <4>2 DEF LockInv
    <3> QED
      BY <3>1, <3>2
  <2>3. process'[p].pc = "locked" /\ process'[p].command = "continue"
    BY <1>2, <1>4 DEF Steps, Continuing
  <2>4. Running(p)' /\ Continuing(p)' /\ process'[p].pc \notin {"new", "started"}
    BY <2>3 DEF Running, Continuing, Fallible
  <2> QED
    BY <1>2, <2>2, <2>4 DEF LockInv, Running, Continuing
<1>8. StageInv'
  <2>1. staged \subseteq [by : Processes, target : {"document", "archive"}]
    BY <1>1 DEF FileInv
  <2>2. \A f \in staged : f.by = p => KeptAt(f, "locked") \/ unlinkFailed'
    BY <1>1, <1>2 DEF StageInv, KeepingArchive, KeepingDocument
  <2>3. staged' \subseteq staged /\ (unlinkFailed => unlinkFailed')
    BY <1>2
  <2> QED
    BY <1>1, <1>4, <2>1, <2>2, <2>3, StageMoves
<1>9. FileInv'
  BY <1>1, <1>2 DEF FileInv, IsFile, Shows
<1> QED
  BY <1>5, <1>6, <1>7, <1>8, <1>9 DEF ArchiveInv

-----------------------------------------------------------------------------
(* Steps that give a command a session or a content, before anything of it *)
(* is written.                                                             *)
LEMMA FillKeepsInv ==
  ASSUME ArchiveInv, UNCHANGED <<archive, lock, outputs, staged, unlinkFailed>>,
         NEW p \in Processes, NEW r, Shape(r), process' = [process EXCEPT ![p] = r],
         r.command = process[p].command, r.input = process[p].input,
         r.output = process[p].output,
         process[p].pc \in {"started", "locked"}, r.pc \in {process[p].pc, "ready"},
         Continuing(p) => process[p].pc = "locked" /\ r.pc = "ready",
         IsFile(r.content), SessionOf(p)'
  PROVE  ArchiveInv'
<1>1. ProcessInv /\ FileInv /\ SessionInv /\ LockInv /\ StageInv
  BY DEF ArchiveInv
<1>2. ProcessShape' /\ Others(p) /\ process'[p] = r
  BY <1>1, Updates DEF ProcessInv
<1>3. Steps(p, r.pc)
  BY <1>2 DEF Steps
<1>4. ProcessInv'
  <2>1. StepOf(p)'
    <3>1. StepOf(p)
      BY <1>1 DEF ProcessInv
    <3>2. r.command \in {"create", "continue", "restore"}
      BY <3>1 DEF StepOf
    <3>3. /\ r.output \in Outputs
          /\ r.input \in IF r.command = "restore" THEN Outputs ELSE Documents
      BY <3>1 DEF StepOf
    <3>4. r.pc \notin {"documentStaged", "staged", "archiveLinked"}
      OBVIOUS
    <3> QED
      BY <1>2, <3>2, <3>3, <3>4 DEF StepOf, IsFile, Shows, Continuing
  <2>2. \A q \in Processes \ {p} : StepOf(q)'
    BY <1>1, <1>2 DEF ProcessInv, StepOf, Others, Continuing
  <2> QED
    BY <1>2, <2>1, <2>2 DEF ProcessInv
<1>5. SessionInv'
  BY <1>1, <1>2, SameArchive
<1>6. LockInv'
  <2>1. Continuing(p) /\ r.pc \in Active => process[p].pc \in Active /\ process[p].pc # "started"
    BY DEF Active, Fallible
  <2>2. Continuing(p) => r.pc \in Active \cup {"killed"} \/ unlinkFailed' \/ lock # p
    BY DEF Active, Fallible
  <2>3. Continuing(p) => r.pc \notin {"new", "started"}
    OBVIOUS
  <2>4. lock \in Processes \cup {Nobody} /\ lock' = lock /\ (unlinkFailed => unlinkFailed')
    BY <1>1 DEF FileInv
  <2> QED
    BY <1>1, <1>3, <2>1, <2>2, <2>3, <2>4, LockMoves
<1>7. StageInv'
  <2>1. staged \subseteq [by : Processes, target : {"document", "archive"}]
    BY <1>1 DEF FileInv
  <2>2. \A f \in staged : f.by = p => KeptAt(f, r.pc) \/ unlinkFailed'
    BY <1>1 DEF StageInv, KeepingArchive, KeepingDocument
  <2>3. staged' \subseteq staged /\ (unlinkFailed => unlinkFailed')
    OBVIOUS
  <2> QED
    BY <1>1, <1>3, <2>1, <2>2, <2>3, StageMoves
<1>8. FileInv'
  BY <1>1 DEF FileInv, IsFile, Shows
<1> QED
  BY <1>4, <1>5, <1>6, <1>7, <1>8 DEF ArchiveInv

(* What is left of a command when some of its fields are replaced.         *)
LEMMA FieldsOf ==
  ASSUME NEW c, Shape(c), NEW pc, NEW session, NEW content
  PROVE  /\ [c EXCEPT !.pc = pc] =
              [pc |-> pc, command |-> c.command, input |-> c.input, output |-> c.output,
               session |-> c.session, content |-> c.content]
         /\ [c EXCEPT !.session = session] =
              [pc |-> c.pc, command |-> c.command, input |-> c.input, output |-> c.output,
               session |-> session, content |-> c.content]
         /\ [c EXCEPT !.content = content] =
              [pc |-> c.pc, command |-> c.command, input |-> c.input, output |-> c.output,
               session |-> c.session, content |-> content]
<1>1. c = [pc |-> c.pc, command |-> c.command, input |-> c.input, output |-> c.output,
           session |-> c.session, content |-> c.content]
  BY DEF Shape
<1>2. [c EXCEPT !.pc = pc] =
        [pc |-> pc, command |-> c.command, input |-> c.input, output |-> c.output,
         session |-> c.session, content |-> c.content]
  BY <1>1
<1>3. [c EXCEPT !.session = session] =
        [pc |-> c.pc, command |-> c.command, input |-> c.input, output |-> c.output,
         session |-> session, content |-> c.content]
  BY <1>1
<1>4. [c EXCEPT !.content = content] =
        [pc |-> c.pc, command |-> c.command, input |-> c.input, output |-> c.output,
         session |-> c.session, content |-> content]
  BY <1>1
<1> QED
  BY <1>2, <1>3, <1>4

LEMMA MoreFieldsOf ==
  ASSUME NEW c, Shape(c), NEW pc, NEW content
  PROVE  [c EXCEPT !.pc = pc, !.content = content] =
           [pc |-> pc, command |-> c.command, input |-> c.input, output |-> c.output,
            session |-> c.session, content |-> content]
<1> DEFINE d == [pc |-> pc, command |-> c.command, input |-> c.input, output |-> c.output,
                 session |-> c.session, content |-> c.content]
<1>1. [c EXCEPT !.pc = pc] = d /\ Shape(d)
  BY FieldsOf DEF Shape
<1>2. [d EXCEPT !.content = content] =
         [pc |-> pc, command |-> c.command, input |-> c.input, output |-> c.output,
          session |-> c.session, content |-> content]
  <2>1. /\ d.pc = pc /\ d.command = c.command /\ d.input = c.input /\ d.output = c.output
        /\ d.session = c.session
    OBVIOUS
  <2> HIDE DEF d
  <2> QED
    BY <1>1, <2>1, FieldsOf
<1> HIDE DEF d
<1>3. [c EXCEPT !.pc = pc, !.content = content] = [d EXCEPT !.content = content]
  BY <1>1
<1> QED
  BY <1>2, <1>3

Refilled(c, pc, session, content) ==
  [c EXCEPT !.pc = pc, !.session = session, !.content = content]

LEMMA RefilledFields ==
  ASSUME NEW c, Shape(c), NEW pc, NEW session, NEW content
  PROVE  Refilled(c, pc, session, content) =
           [pc |-> pc, command |-> c.command, input |-> c.input, output |-> c.output,
            session |-> session, content |-> content]
<1> DEFINE d == [pc |-> pc, command |-> c.command, input |-> c.input, output |-> c.output,
                 session |-> c.session, content |-> c.content]
           f == [pc |-> pc, command |-> c.command, input |-> c.input, output |-> c.output,
                 session |-> session, content |-> c.content]
<1>1. [c EXCEPT !.pc = pc] = d /\ Shape(d)
  BY FieldsOf DEF Shape
<1>2. [d EXCEPT !.session = session] = f /\ Shape(f)
  <2>1. /\ d.pc = pc /\ d.command = c.command /\ d.input = c.input /\ d.output = c.output
        /\ d.content = c.content
    OBVIOUS
  <2>2. Shape(f)
    BY DEF Shape
  <2>3. [d EXCEPT !.session = session] =
          [pc |-> d.pc, command |-> d.command, input |-> d.input, output |-> d.output,
           session |-> session, content |-> d.content]
    <3> HIDE DEF d
    <3> QED
      BY <1>1, FieldsOf
  <2> QED
    BY <2>1, <2>2, <2>3
<1>3. [f EXCEPT !.content = content] =
         [pc |-> pc, command |-> c.command, input |-> c.input, output |-> c.output,
          session |-> session, content |-> content]
  <2>1. /\ f.pc = pc /\ f.command = c.command /\ f.input = c.input /\ f.output = c.output
        /\ f.session = session
    OBVIOUS
  <2> HIDE DEF f
  <2> QED
    BY <1>2, <2>1, FieldsOf
<1> HIDE DEF d, f
<1>4. Refilled(c, pc, session, content) = [f EXCEPT !.content = content]
  <2>1. Refilled(c, pc, session, content) =
          [[[c EXCEPT !.pc = pc] EXCEPT !.session = session] EXCEPT !.content = content]
    BY DEF Refilled
  <2> QED
    BY <1>1, <1>2, <2>1
<1> QED
  BY <1>3, <1>4

LEMMA ReaderFills ==
  ASSUME archive' = archive, NEW p, NEW r, process'[p] = r, r.command = "restore",
         r.session # NoFile => Sound(r.session) /\ InArchive(r.session),
         r.content # NoFile => Undoable(r.content)
  PROVE  SessionOf(p)'
<1>1. ReaderInv(p)'
  BY DEF ReaderInv, InArchive, Undoable
<1> QED
  BY <1>1 DEF SessionOf

(* A redaction: what it shows is what its session says.                    *)
LEMMA RedactKeepsInv ==
  ASSUME ArchiveInv, NEW p \in Processes, Redact(p)
  PROVE  ArchiveInv'
<1> DEFINE base == IF Continuing(p) THEN archive ELSE NewSession
           next == WithDocument(base, process[p].input)
           text == ResultOf(next, process[p].input)
           new == [kind |-> "anonymized", text |-> text]
           c == process[p]
           r == [pc |-> "ready", command |-> c.command, input |-> c.input,
                 output |-> c.output, session |-> next, content |-> new]
<1>1. ProcessInv /\ FileInv /\ SessionInv /\ LockInv /\ StageInv
  BY DEF ArchiveInv
<1>2. /\ c.pc = IF Continuing(p) THEN "locked" ELSE "started"
      /\ c.command # "restore" /\ base # NoFile /\ next # Failed
      /\ process' = [process EXCEPT ![p].pc = "ready", ![p].session = next,
                                    ![p].content = new]
      /\ UNCHANGED <<archive, lock, outputs, staged, unlinkFailed>>
  BY DEF Redact
<1>3. process' = [process EXCEPT ![p] = r] /\ Shape(r)
  <2>1. process = [q \in Processes |-> process[q]] /\ Shape(c)
    BY <1>1 DEF ProcessInv, ProcessShape
  <2>2. Shape(r)
    BY DEF Shape
  <2>3. Refilled(c, "ready", next, new) = r
    <3>1. Shape(c)
      BY <2>1
    <3> HIDE DEF next, new, c
    <3> QED
      BY <3>1, RefilledFields
  <2>4. process' = [process EXCEPT ![p] = Refilled(c, "ready", next, new)]
    <3> HIDE DEF next, new
    <3> QED
      BY <1>2, <2>1 DEF Refilled
  <2> HIDE DEF r
  <2> QED
    BY <2>2, <2>3, <2>4
<1>4. Sound(base)
  BY <1>1, <1>2, NewIsSound DEF SessionInv
<1>5. c.input \in Documents /\ c.input \in [mentions : Seq(Identities)]
  <2>1. StepOf(p)
    BY <1>1 DEF ProcessInv
  <2>2. c.input \in Documents
    BY <1>2, <2>1 DEF StepOf
  <2> QED
    BY <2>2, WorkflowAssumption
<1>6. Sound(next) /\ Extends(base, next) /\ ToSet(c.input.mentions) \subseteq Named(next)
  <2> HIDE DEF base
  <2> QED
    BY <1>2, <1>4, <1>5, DocumentExtends
<1> HIDE DEF next
<1>7. /\ DOMAIN text = ToSet(c.input.mentions)
      /\ \A e \in DOMAIN text : e \in Named(next) /\ text[e] = next.names[e]
  BY <1>6 DEF ResultOf
<1> HIDE DEF text
<1>8. IsFile(new)
  <2>1. next.names \in [Named(next) -> Nat] /\ Named(next) \in SUBSET Identities
    BY <1>6, SessionFacts
  <2> QED
    BY <1>7, <2>1 DEF IsFile, Shows
<1>9. ProcessShape' /\ Others(p) /\ process'[p] = r
  <2> HIDE DEF r
  <2> QED
    BY <1>1, <1>3, Updates DEF ProcessInv
<1>10. MadeWith(next, new)
  BY <1>7 DEF MadeWith
<1>11. SessionOf(p)'
  <2>1. WriterInv(p)'
    <3>1. Continuing(p)' => Continuing(p)
      BY <1>9 DEF Continuing
    <3>2. Continuing(p) => archive' # NoFile /\ Extends(archive', next)
      BY <1>2, <1>6
    <3> HIDE DEF new, base
    <3> QED
      BY <1>6, <1>9, <1>10, <3>1, <3>2 DEF WriterInv, ArchiveIsOut, MadeWith
  <2> HIDE DEF new, base
  <2> QED
    BY <1>2, <1>6, <1>9, <2>1 DEF SessionOf
<1>12. r.pc = "ready" /\ r.command = c.command /\ r.input = c.input /\ r.output = c.output
       /\ IsFile(r.content)
  BY <1>8
<1> HIDE DEF r, base, new
<1> QED
  BY <1>2, <1>3, <1>11, <1>12, FillKeepsInv

LEMMA ReadDocumentKeepsInv ==
  ASSUME ArchiveInv, NEW p \in Processes, ReadDocument(p)
  PROVE  ArchiveInv'
<1> DEFINE c == process[p]
           content == outputs[c.input]
           r == [pc |-> c.pc, command |-> c.command, input |-> c.input,
                 output |-> c.output, session |-> c.session, content |-> content]
<1>1. ProcessInv /\ FileInv /\ SessionInv /\ LockInv /\ StageInv
  BY DEF ArchiveInv
<1>2. /\ c.pc = "started" /\ c.command = "restore" /\ content # NoFile
      /\ process' = [process EXCEPT ![p].content = content]
      /\ UNCHANGED <<archive, lock, outputs, staged, unlinkFailed>>
  BY DEF ReadDocument
<1>3. process' = [process EXCEPT ![p] = r] /\ Shape(r)
  <2>1. process = [q \in Processes |-> process[q]] /\ Shape(c)
    BY <1>1 DEF ProcessInv, ProcessShape
  <2>2. Shape(r)
    BY DEF Shape
  <2>3. [c EXCEPT !.content = content] = r
    <3> HIDE DEF content, c
    <3> QED
      BY <2>1, FieldsOf
  <2>4. process' = [process EXCEPT ![p] = [c EXCEPT !.content = content]]
    <3> HIDE DEF content
    <3> QED
      BY <1>2, <2>1
  <2> HIDE DEF r
  <2> QED
    BY <2>2, <2>3, <2>4
<1>4. c.input \in Outputs
  BY <1>1, <1>2 DEF ProcessInv, StepOf
<1>5. IsFile(content) /\ Undoable(content)
  BY <1>1, <1>2, <1>4 DEF FileInv, SessionInv
<1>6. process'[p] = r
  <2> HIDE DEF r
  <2> QED
    BY <1>1, <1>3, Updates DEF ProcessInv
<1>7. SessionOf(p)
  BY <1>1 DEF SessionInv
<1> HIDE DEF content
<1>8. SessionOf(p)'
  <2>1. ReaderInv(p)
    BY <1>2, <1>7 DEF SessionOf
  <2>2. r.command = "restore" /\ r.session = c.session /\ r.content = content
    BY <1>2
  <2>3. r.session # NoFile => Sound(r.session) /\ InArchive(r.session)
    BY <1>7, <2>1, <2>2 DEF ReaderInv, SessionOf
  <2> HIDE DEF r
  <2> QED
    BY <1>2, <1>5, <1>6, <2>2, <2>3, ReaderFills
<1>9. /\ r.pc = c.pc /\ r.command = c.command /\ r.input = c.input /\ r.output = c.output
      /\ r.content = content /\ ~Continuing(p)
  BY <1>2 DEF Continuing
<1> HIDE DEF r
<1> QED
  BY <1>2, <1>3, <1>5, <1>8, <1>9, FillKeepsInv

LEMMA ReadArchiveKeepsInv ==
  ASSUME ArchiveInv, NEW p \in Processes, ReadArchive(p)
  PROVE  ArchiveInv'
<1> DEFINE c == process[p]
           r == [pc |-> c.pc, command |-> c.command, input |-> c.input,
                 output |-> c.output, session |-> archive, content |-> c.content]
<1>1. ProcessInv /\ FileInv /\ SessionInv /\ LockInv /\ StageInv
  BY DEF ArchiveInv
<1>2. /\ c.pc = "started" /\ c.command = "restore" /\ archive # NoFile
      /\ process' = [process EXCEPT ![p].session = archive]
      /\ UNCHANGED <<archive, lock, outputs, staged, unlinkFailed>>
  BY DEF ReadArchive
<1>3. process' = [process EXCEPT ![p] = r] /\ Shape(r)
  <2>1. process = [q \in Processes |-> process[q]] /\ Shape(c)
    BY <1>1 DEF ProcessInv, ProcessShape
  <2>2. Shape(r)
    BY DEF Shape
  <2>3. [c EXCEPT !.session = archive] = r
    <3> HIDE DEF c
    <3> QED
      BY <2>1, FieldsOf
  <2>4. process' = [process EXCEPT ![p] = [c EXCEPT !.session = archive]]
    BY <1>2, <2>1
  <2> HIDE DEF r
  <2> QED
    BY <2>2, <2>3, <2>4
<1>4. Sound(archive) /\ Extends(archive, archive)
  BY <1>1, <1>2 DEF SessionInv, Extends
<1>5. process'[p] = r
  <2> HIDE DEF r
  <2> QED
    BY <1>1, <1>3, Updates DEF ProcessInv
<1>6. SessionOf(p)
  BY <1>1 DEF SessionInv
<1>7. SessionOf(p)'
  <2>1. ReaderInv(p)
    BY <1>2, <1>6 DEF SessionOf
  <2>2. r.command = "restore" /\ r.session = archive /\ r.content = c.content
    BY <1>2
  <2>3. r.content # NoFile => Undoable(r.content)
    BY <2>1, <2>2 DEF ReaderInv
  <2>4. InArchive(archive)
    BY <1>2, <1>4 DEF InArchive
  <2> HIDE DEF r
  <2> QED
    BY <1>2, <1>4, <1>5, <2>2, <2>3, <2>4, ReaderFills
<1>8. /\ r.pc = c.pc /\ r.command = c.command /\ r.input = c.input /\ r.output = c.output
      /\ r.content = c.content /\ ~Continuing(p)
  BY <1>2 DEF Continuing
<1>9. IsFile(c.content)
  BY <1>1 DEF ProcessInv, StepOf
<1> HIDE DEF r
<1> QED
  BY <1>2, <1>3, <1>7, <1>8, <1>9, FillKeepsInv

(* A restoration finds everybody's own name, whatever the archive it read  *)
(* and the one its document was made with have in common.                  *)
LEMMA OriginalsAreRight ==
  ASSUME archive # NoFile, Sound(archive), NEW session, Sound(session),
         Extends(session, archive), NEW text,
         \A e \in DOMAIN text : e \in Named(archive) /\ archive.names[e] = text[e],
         \A e \in DOMAIN text : \E d \in Named(session) : session.names[d] = text[e]
  PROVE  /\ DOMAIN Originals(session, text) = DOMAIN text
         /\ \A e \in DOMAIN text : Originals(session, text)[e] = e
<1> DEFINE Named1(e) == CHOOSE d \in Named(session) : session.names[d] = text[e]
<1>1. ASSUME NEW e \in DOMAIN text
      PROVE  Named1(e) = e
  <2>1. Named1(e) \in Named(session) /\ session.names[Named1(e)] = text[e]
    OBVIOUS
  <2> HIDE DEF Named1
  <2>2. Named1(e) \in Named(archive) /\ archive.names[Named1(e)] = text[e]
    BY <2>1 DEF Extends
  <2>3. e \in Named(archive) /\ archive.names[e] = text[e]
    OBVIOUS
  <2> QED
    BY <2>2, <2>3 DEF Sound
<1>2. Originals(session, text) = [e \in DOMAIN text |-> Named1(e)]
  BY DEF Originals
<1> HIDE DEF Named1
<1> QED
  BY <1>1, <1>2

LEMMA RestoreKeepsInv ==
  ASSUME ArchiveInv, NEW p \in Processes, Restore(p)
  PROVE  ArchiveInv'
<1> DEFINE c == process[p]
           session == c.session
           text == c.content.text
           own == Originals(session, text)
           new == [kind |-> "restored", text |-> own]
           r == [pc |-> "ready", command |-> c.command, input |-> c.input,
                 output |-> c.output, session |-> c.session, content |-> new]
<1>1. ProcessInv /\ FileInv /\ SessionInv /\ LockInv /\ StageInv
  BY DEF ArchiveInv
<1>2. /\ c.pc = "started" /\ c.command = "restore" /\ session # NoFile
      /\ c.content # NoFile /\ c.content.kind = "anonymized"
      /\ \A e \in DOMAIN text : \E d \in Named(session) : session.names[d] = text[e]
      /\ process' = [process EXCEPT ![p].pc = "ready", ![p].content = new]
      /\ UNCHANGED <<archive, lock, outputs, staged, unlinkFailed>>
  BY DEF Restore
<1>3. process' = [process EXCEPT ![p] = r] /\ Shape(r)
  <2>1. process = [q \in Processes |-> process[q]] /\ Shape(c)
    BY <1>1 DEF ProcessInv, ProcessShape
  <2>2. Shape(r)
    BY DEF Shape
  <2>3. [c EXCEPT !.pc = "ready", !.content = new] = r
    <3> HIDE DEF new, c
    <3> QED
      BY <2>1, MoreFieldsOf
  <2>4. process' = [process EXCEPT ![p] = [c EXCEPT !.pc = "ready", !.content = new]]
    <3> HIDE DEF new
    <3> QED
      BY <1>2, <2>1
  <2> HIDE DEF r
  <2> QED
    BY <2>2, <2>3, <2>4
<1>4. Sound(session) /\ ReaderInv(p)
  BY <1>1, <1>2 DEF SessionInv, SessionOf
<1>5. InArchive(session) /\ Undoable(c.content)
  BY <1>2, <1>4 DEF ReaderInv
<1>6. DOMAIN own = DOMAIN text /\ \A e \in DOMAIN text : own[e] = e
  <2>1. archive # NoFile /\ Sound(archive) /\ Extends(session, archive)
    BY <1>1, <1>5 DEF InArchive, SessionInv
  <2>2. \A e \in DOMAIN text : e \in Named(archive) /\ archive.names[e] = text[e]
    BY <1>2, <1>5 DEF Undoable
  <2> HIDE DEF text, session
  <2> QED
    BY <1>2, <1>4, <2>1, <2>2, OriginalsAreRight
<1>7. DOMAIN text \subseteq Identities
  BY <1>1, <1>2 DEF ProcessInv, StepOf, IsFile, Shows
<1> HIDE DEF own, text
<1>8. IsFile(new) /\ Undoable(new)
  <2>1. new.kind = "restored" /\ new.text = own
    OBVIOUS
  <2> HIDE DEF new
  <2> QED
    BY <1>6, <1>7, <2>1 DEF IsFile, Shows, Undoable
<1>9. process'[p] = r
  <2> HIDE DEF r
  <2> QED
    BY <1>1, <1>3, Updates DEF ProcessInv
<1> HIDE DEF new
<1>10. SessionOf(p)'
  <2>1. r.command = "restore" /\ r.session = session /\ r.content = new
    BY <1>2
  <2> HIDE DEF r, session
  <2> QED
    BY <1>2, <1>4, <1>5, <1>8, <1>9, <2>1, ReaderFills
<1>11. /\ r.pc = "ready" /\ r.command = c.command /\ r.input = c.input
       /\ r.output = c.output /\ r.content = new /\ ~Continuing(p)
  BY <1>2 DEF Continuing
<1> HIDE DEF r
<1> QED
  BY <1>2, <1>3, <1>8, <1>10, <1>11, FillKeepsInv

-----------------------------------------------------------------------------
(* Staging and cleaning up                                                 *)
LEMMA StageDocumentKeepsInv ==
  ASSUME ArchiveInv, NEW p \in Processes, StageDocument(p)
  PROVE  ArchiveInv'
<1> DEFINE pc == IF process[p].command = "restore" THEN "archived" ELSE "documentStaged"
           f == [by |-> p, target |-> "document"]
<1>1. /\ process[p].pc = "ready" /\ staged' = staged \cup {f} /\ Goto(p, pc)
      /\ UNCHANGED <<archive, lock, outputs, unlinkFailed>>
  BY DEF StageDocument
<1>2. FileInv /\ StageInv
  BY DEF ArchiveInv
<1>3. staged' \subseteq [by : Processes, target : {"document", "archive"}]
  BY <1>1, <1>2 DEF FileInv
<1>4. pc \in {"archived", "documentStaged"}
      /\ (process[p].command = "restore" <=> pc = "archived")
  OBVIOUS
<1> HIDE DEF pc, f
<1>5. Steps(p, pc) => StageInv'
  <2>1. f.by = p /\ f.target = "document"
    BY DEF f
  <2>2. KeptAt(f, pc)
    BY <1>4, <2>1 DEF KeptAt, KeepingDocument
  <2>3. \A g \in staged : g.by = p => KeptAt(g, pc) \/ unlinkFailed'
    BY <1>1, <1>2 DEF StageInv, KeepingArchive, KeepingDocument
  <2>4. \A g \in staged \cup {f} : g \in staged \/ (KeptAt(g, pc) /\ g.by = p)
    BY <2>1, <2>2
  <2>5. \A g \in staged \cup {f} : g.by = p => KeptAt(g, pc) \/ unlinkFailed'
    BY <2>2, <2>3
  <2>6. staged \subseteq [by : Processes, target : {"document", "archive"}]
    BY <1>2 DEF FileInv
  <2> QED
    BY <1>1, <1>2, <2>4, <2>5, <2>6, StageMoves
<1>6. process[p].pc \in Active /\ pc \in Active /\ pc \notin {"new", "started"}
  BY <1>1, <1>4 DEF Active, Fallible
<1>7. process[p].command # "restore" =>
        /\ pc \in Unpublished => process[p].pc \in Unpublished
        /\ pc \in ArchiveIsOut => process[p].pc \in ArchiveIsOut
  BY <1>1, <1>4 DEF Unpublished, ArchiveIsOut
<1>8. unlinkFailed' \in BOOLEAN /\ (unlinkFailed => unlinkFailed')
  BY <1>1, <1>2 DEF FileInv
<1> QED
  BY <1>1, <1>3, <1>4, <1>5, <1>6, <1>7, <1>8, MovesOn

LEMMA StageArchiveKeepsInv ==
  ASSUME ArchiveInv, NEW p \in Processes, StageArchive(p)
  PROVE  ArchiveInv'
<1> DEFINE f == [by |-> p, target |-> "archive"]
<1>1. /\ process[p].pc = "documentStaged" /\ staged' = staged \cup {f} /\ Goto(p, "staged")
      /\ UNCHANGED <<archive, lock, outputs, unlinkFailed>>
  BY DEF StageArchive
<1>2. FileInv /\ StageInv
  BY DEF ArchiveInv
<1>3. staged' \subseteq [by : Processes, target : {"document", "archive"}]
  BY <1>1, <1>2 DEF FileInv
<1>4. f.by = p
  OBVIOUS
<1> HIDE DEF f
<1>5. Steps(p, "staged") => StageInv'
  <2>1. \A g \in staged \cup {f} : KeptAt(g, "staged")
    BY DEF KeptAt, KeepingArchive
  <2>2. \A g \in staged \cup {f} : g \in staged \/ (KeptAt(g, "staged") /\ g.by = p)
    BY <1>4, <2>1
  <2>3. staged \subseteq [by : Processes, target : {"document", "archive"}]
    BY <1>2 DEF FileInv
  <2> QED
    BY <1>1, <1>2, <2>1, <2>2, <2>3, StageMoves
<1>6. process[p].pc \in Active /\ "staged" \in Active
  BY <1>1 DEF Active, Fallible
<1>7. process[p].pc \in Unpublished /\ "staged" \notin ArchiveIsOut
  BY <1>1 DEF Unpublished, ArchiveIsOut
<1>8. process[p].command # "restore"
  BY <1>1 DEF ArchiveInv, ProcessInv, StepOf
<1>9. unlinkFailed' \in BOOLEAN /\ (unlinkFailed => unlinkFailed')
  BY <1>1, <1>2 DEF FileInv
<1> QED
  BY <1>1, <1>3, <1>5, <1>6, <1>7, <1>8, <1>9, MovesOn

(* What a command took away is gone, or the removal failed.                *)
LEMMA UnstageKeepsStage ==
  ASSUME ArchiveInv, NEW p \in Processes, NEW pc, Steps(p, pc), NEW files, Unstage(files),
         \A f \in staged : f.by = p /\ f \notin files => KeptAt(f, pc) \/ unlinkFailed
  PROVE  /\ StageInv'
         /\ staged' \subseteq [by : Processes, target : {"document", "archive"}]
         /\ unlinkFailed' \in BOOLEAN /\ (unlinkFailed => unlinkFailed')
<1>1. FileInv /\ StageInv
  BY DEF ArchiveInv
<1>2. staged' \subseteq staged /\ unlinkFailed' \in BOOLEAN /\ (unlinkFailed => unlinkFailed')
  BY <1>1 DEF Unstage, FileInv
<1>3. \A f \in staged' : f.by = p => KeptAt(f, pc) \/ unlinkFailed'
  BY <1>2 DEF Unstage
<1>4. staged \subseteq [by : Processes, target : {"document", "archive"}]
  BY <1>1 DEF FileInv
<1>5. StageInv'
  BY <1>1, <1>2, <1>3, <1>4, StageMoves
<1> QED
  BY <1>2, <1>4, <1>5

LEMMA UnstageArchiveKeepsInv ==
  ASSUME ArchiveInv, NEW p \in Processes, UnstageArchive(p)
  PROVE  ArchiveInv'
<1>1. /\ process[p].pc = "archiveLinked" /\ Unstage(Staged(p, "archive"))
      /\ Goto(p, "archived") /\ UNCHANGED <<archive, lock, outputs>>
  BY DEF UnstageArchive
<1>2. \A f \in staged : f.by = p /\ f \notin Staged(p, "archive") => KeptAt(f, "archived")
  BY DEF ArchiveInv, FileInv, Staged, KeptAt, KeepingDocument
<1>3. Steps(p, "archived")
  BY <1>1, GotoMoves DEF ArchiveInv, ProcessInv, Moved, Steps
<1>4. /\ StageInv'
      /\ staged' \subseteq [by : Processes, target : {"document", "archive"}]
      /\ unlinkFailed' \in BOOLEAN /\ (unlinkFailed => unlinkFailed')
  BY <1>1, <1>2, <1>3, UnstageKeepsStage
<1>5. process[p].pc \in Active /\ "archived" \in Active
  BY <1>1 DEF Active, Fallible
<1>6. "archived" \notin Unpublished /\ process[p].pc \in ArchiveIsOut
  BY <1>1 DEF Unpublished, ArchiveIsOut
<1> QED
  BY <1>1, <1>4, <1>5, <1>6, MovesOn

LEMMA UnstageDocumentKeepsInv ==
  ASSUME ArchiveInv, NEW p \in Processes, UnstageDocument(p)
  PROVE  ArchiveInv'
<1> DEFINE pc == IF Continuing(p) THEN "published" ELSE "done"
<1>1. /\ process[p].pc = "linked" /\ Unstage(Staged(p, "document"))
      /\ Goto(p, pc) /\ UNCHANGED <<archive, lock, outputs>>
  BY DEF UnstageDocument
<1>2. pc \in {"published", "done"} /\ (Continuing(p) => pc = "published")
  BY DEF Continuing
<1> HIDE DEF pc
<1>3. \A f \in staged : f.by = p /\ f \notin Staged(p, "document") => unlinkFailed
  BY <1>1 DEF ArchiveInv, StageInv, FileInv, Staged, KeepingArchive
<1>4. Steps(p, pc)
  BY <1>1, GotoMoves DEF ArchiveInv, ProcessInv, Moved, Steps
<1>5. /\ StageInv'
      /\ staged' \subseteq [by : Processes, target : {"document", "archive"}]
      /\ unlinkFailed' \in BOOLEAN /\ (unlinkFailed => unlinkFailed')
  BY <1>1, <1>3, <1>4, UnstageKeepsStage
<1>6. process[p].pc \in Active /\ "published" \in Active
  BY <1>1 DEF Active, Fallible
<1>7. pc \notin Unpublished \cup ArchiveIsOut
  BY <1>2 DEF Unpublished, ArchiveIsOut
<1>8. pc = "published" => Continuing(p)
  BY DEF pc, Continuing
<1> QED
  BY <1>1, <1>2, <1>5, <1>6, <1>7, <1>8, MovesOn

LEMMA CleanUpKeepsInv ==
  ASSUME ArchiveInv, NEW p \in Processes, CleanUp(p)
  PROVE  ArchiveInv'
<1> DEFINE pc == IF Continuing(p) THEN "published" ELSE "failed"
           files == Staged(p, "document") \cup Staged(p, "archive")
<1>1. /\ process[p].pc = "failing" /\ Unstage(files)
      /\ Goto(p, pc) /\ UNCHANGED <<archive, lock, outputs>>
  BY DEF CleanUp
<1>2. pc \in {"published", "failed"} /\ (Continuing(p) => pc = "published")
  BY DEF Continuing
<1> HIDE DEF pc
<1>3. \A f \in staged : f.by = p => f \in files
  BY DEF ArchiveInv, FileInv, Staged
<1> HIDE DEF files
<1>4. Steps(p, pc)
  BY <1>1, GotoMoves DEF ArchiveInv, ProcessInv, Moved, Steps
<1>5. /\ StageInv'
      /\ staged' \subseteq [by : Processes, target : {"document", "archive"}]
      /\ unlinkFailed' \in BOOLEAN /\ (unlinkFailed => unlinkFailed')
  BY <1>1, <1>3, <1>4, UnstageKeepsStage
<1>6. process[p].pc \in Active /\ "published" \in Active
  BY <1>1 DEF Active, Fallible
<1>7. pc \notin Unpublished \cup ArchiveIsOut
  BY <1>2 DEF Unpublished, ArchiveIsOut
<1>8. pc = "published" => Continuing(p)
  BY DEF pc, Continuing
<1> QED
  BY <1>1, <1>2, <1>5, <1>6, <1>7, <1>8, MovesOn

-----------------------------------------------------------------------------
(* Publishing: the archive gains names or is new, and nobody else is about *)
(* to replace it.                                                          *)
LEMMA WriterGrows ==
  ASSUME Grown, NEW q, process'[q] = process[q], WriterInv(q),
         ~(Continuing(q) /\ process[q].pc \in Unpublished)
  PROVE  WriterInv(q)'
<1> DEFINE content == process[q].content
<1>1. process[q].pc \in ArchiveIsOut /\ content # NoFile => Undoable(content)'
  BY UndoableGrows DEF WriterInv
<1>2. process[q].pc \in Unpublished =>
        /\ Sound(process[q].session) /\ MadeWith(process[q].session, content)
        /\ ~Continuing(q)
  BY DEF WriterInv
<1> HIDE DEF Grown
<1> QED
  BY <1>1, <1>2 DEF WriterInv, Undoable, Continuing, MadeWith

LEMMA ArchivePublished ==
  ASSUME ArchiveInv, NEW p \in Processes, NEW pc \in ArchiveIsOut, Moved(p, pc),
         process[p].pc = "staged", archive' = process[p].session, outputs' = outputs, Grown,
         \A q \in Processes \ {p} : ~(Continuing(q) /\ process[q].pc \in Unpublished)
  PROVE  SessionInv'
<1> DEFINE session == process[p].session
           content == process[p].content
<1>1. SessionInv /\ process[p].command # "restore"
  BY DEF ArchiveInv, ProcessInv, StepOf
<1>2. Sound(session) /\ MadeWith(session, content)
  BY <1>1 DEF SessionInv, SessionOf, WriterInv, Unpublished
<1>3. archive' # NoFile
  BY <1>2, WorkflowAssumption DEF Sound
<1>4. \A o \in Outputs : outputs'[o] # NoFile => Undoable(outputs[o])'
  <2> TAKE o \in Outputs
  <2>1. outputs[o] # NoFile => Undoable(outputs[o])
    BY <1>1 DEF SessionInv
  <2> DEFINE out == outputs[o]
  <2>2. Undoable(out) => Undoable(out)'
    <3> SUFFICES ASSUME Undoable(out) PROVE Undoable(out)'
      OBVIOUS
    <3>1. CASE out.kind = "anonymized"
      <4>1. archive # NoFile /\ \A e \in DOMAIN out.text :
              e \in Named(archive) /\ archive.names[e] = out.text[e]
        BY <3>1 DEF Undoable
      <4>2. Extends(archive, archive')
        BY <4>1 DEF Grown
      <4> QED
        BY <1>3, <3>1, <4>1, <4>2 DEF Undoable, Extends
    <3>2. CASE out.kind # "anonymized"
      BY <3>2 DEF Undoable
    <3> QED
      BY <3>1, <3>2
  <2> QED
    BY <2>1, <2>2
<1>5. ASSUME NEW q \in Processes \ {p}
      PROVE  SessionOf(q)'
  <2>1. SessionOf(q) /\ process'[q] = process[q]
    BY <1>1 DEF SessionInv, Moved, Others
  <2>2. process[q].command = "restore" => ReaderInv(q)'
    BY <2>1, ReaderGrows DEF SessionOf
  <2>3. process[q].command # "restore" => WriterInv(q)'
    <3>1. ~(Continuing(q) /\ process[q].pc \in Unpublished)
      OBVIOUS
    <3> QED
      BY <2>1, <3>1, WriterGrows DEF SessionOf
  <2> QED
    BY <2>1, <2>2, <2>3 DEF SessionOf
<1>6. SessionOf(p)'
  <2>1. /\ process'[p].pc = pc /\ process'[p].command = process[p].command
        /\ process'[p].session = session /\ process'[p].content = content
    BY DEF Moved
  <2>2. pc \notin Unpublished
    BY DEF ArchiveIsOut, Unpublished
  <2>3. content.kind = "anonymized" /\ \A e \in DOMAIN content.text :
          e \in Named(archive') /\ archive'.names[e] = content.text[e]
    BY <1>2 DEF MadeWith
  <2> HIDE DEF session, content
  <2>4. Undoable(process[p].content)'
    BY <1>3, <2>1, <2>3 DEF Undoable
  <2>5. WriterInv(p)'
    BY <2>1, <2>2, <2>4 DEF WriterInv
  <2> QED
    BY <1>1, <1>2, <2>1, <2>5 DEF SessionOf
<1>7. Sound(archive')
  BY <1>2
<1> HIDE DEF Grown
<1> QED
  BY <1>4, <1>5, <1>6, <1>7 DEF SessionInv, Sound, Sessions, Named, NewSession

LEMMA CreateArchiveGrows ==
  ASSUME archive = NoFile
  PROVE  Grown
BY DEF Grown

LEMMA CreateArchiveKeepsInv ==
  ASSUME ArchiveInv, NEW p \in Processes, CreateArchive(p)
  PROVE  ArchiveInv' /\ Grown
<1>1. ProcessInv /\ FileInv /\ SessionInv /\ LockInv /\ StageInv
  BY DEF ArchiveInv
<1>2. /\ process[p].pc = "staged" /\ ~Continuing(p) /\ archive = NoFile
      /\ archive' = process[p].session /\ Goto(p, "archiveLinked")
      /\ UNCHANGED <<lock, outputs, staged, unlinkFailed>>
  BY DEF CreateArchive
<1>3. Grown
  BY <1>2, CreateArchiveGrows
<1>4. Moved(p, "archiveLinked") /\ Steps(p, "archiveLinked")
  BY <1>1, <1>2, GotoMoves DEF ProcessInv, Moved, Steps
<1>5. SessionInv'
  <2>1. \A q \in Processes \ {p} : ~(Continuing(q) /\ process[q].pc \in Unpublished)
    BY <1>1, <1>2 DEF SessionInv, SessionOf, WriterInv, Continuing
  <2>2. "archiveLinked" \in ArchiveIsOut
    BY DEF ArchiveIsOut
  <2> QED
    BY <1>2, <1>3, <1>4, <2>1, <2>2, ArchivePublished
<1>6. ProcessInv'
  <2>1. process[p].command # "restore"
    BY <1>1, <1>2 DEF ProcessInv, StepOf
  <2> QED
    BY <1>1, <1>2, <1>4, <2>1, StepMoves
<1>7. LockInv'
  <2>1. lock \in Processes \cup {Nobody} /\ lock' = lock /\ (unlinkFailed => unlinkFailed')
    BY <1>1, <1>2 DEF FileInv
  <2> QED
    BY <1>1, <1>2, <1>4, <2>1, LockMoves
<1>8. StageInv'
  BY <1>2, <1>4, StageStays DEF KeepingArchive, KeepingDocument
<1>9. FileInv'
  BY <1>1, <1>2 DEF FileInv, IsFile, Shows
<1> QED
  BY <1>3, <1>5, <1>6, <1>7, <1>8, <1>9 DEF ArchiveInv

LEMMA ReplaceArchiveKeepsInv ==
  ASSUME ArchiveInv, NEW p \in Processes, ReplaceArchive(p)
  PROVE  ArchiveInv' /\ Grown
<1>1. ProcessInv /\ FileInv /\ SessionInv /\ LockInv /\ StageInv
  BY DEF ArchiveInv
<1>2. /\ process[p].pc = "staged" /\ Continuing(p)
      /\ archive' = process[p].session /\ staged' = staged \ Staged(p, "archive")
      /\ Goto(p, "archived") /\ UNCHANGED <<lock, outputs, unlinkFailed>>
  BY DEF ReplaceArchive
<1>3. Grown
  <2>1. Sound(process[p].session) /\ archive # NoFile /\ Extends(archive, process[p].session)
    BY <1>1, <1>2 DEF SessionInv, SessionOf, WriterInv, Unpublished, Continuing
  <2>2. process[p].session # NoFile
    BY <2>1, WorkflowAssumption DEF Sound
  <2> QED
    BY <1>2, <2>1, <2>2 DEF Grown
<1>4. Moved(p, "archived") /\ Steps(p, "archived")
  BY <1>1, <1>2, GotoMoves DEF ProcessInv, Moved, Steps
<1>5. SessionInv'
  <2>1. lock = p
    BY <1>1, <1>2 DEF LockInv, Running, Fallible
  <2>2. \A q \in Processes \ {p} : ~(Continuing(q) /\ process[q].pc \in Unpublished)
    BY <1>1, <2>1 DEF LockInv, Running, Fallible, Unpublished
  <2>3. "archived" \in ArchiveIsOut
    BY DEF ArchiveIsOut
  <2> QED
    BY <1>2, <1>3, <1>4, <2>2, <2>3, ArchivePublished
<1>6. ProcessInv'
  BY <1>1, <1>2, <1>4, StepMoves
<1>7. LockInv'
  <2>1. lock \in Processes \cup {Nobody} /\ lock' = lock /\ (unlinkFailed => unlinkFailed')
    BY <1>1, <1>2 DEF FileInv
  <2>2. process[p].pc \in Active /\ process[p].pc # "started" /\ "archived" \in Active
    BY <1>2 DEF Active, Fallible
  <2> QED
    BY <1>1, <1>4, <2>1, <2>2, LockMoves
<1>8. StageInv' /\ staged' \subseteq [by : Processes, target : {"document", "archive"}]
  <2>1. \A f \in staged : f.by = p /\ f \notin Staged(p, "archive") => KeptAt(f, "archived")
    BY <1>1 DEF FileInv, Staged, KeptAt, KeepingDocument
  <2>2. Unstage(Staged(p, "archive"))
    BY <1>2 DEF Unstage
  <2> QED
    BY <1>4, <2>1, <2>2, UnstageKeepsStage
<1>9. FileInv'
  BY <1>1, <1>2, <1>8 DEF FileInv, IsFile, Shows
<1> QED
  BY <1>3, <1>5, <1>6, <1>7, <1>8, <1>9 DEF ArchiveInv

(* The document comes last, and only where there was none.                 *)
LEMMA PublishOutputKeepsInv ==
  ASSUME ArchiveInv, NEW p \in Processes, PublishOutput(p)
  PROVE  /\ ArchiveInv'
         /\ \A o \in Outputs : outputs[o] # NoFile => outputs'[o] = outputs[o]
<1> DEFINE t == process[p].output
           content == process[p].content
<1>1. ProcessInv /\ FileInv /\ SessionInv /\ LockInv /\ StageInv
  BY DEF ArchiveInv
<1>2. /\ process[p].pc = "archived" /\ outputs[t] = NoFile
      /\ outputs' = [outputs EXCEPT ![t] = content]
      /\ Goto(p, "linked") /\ UNCHANGED <<archive, lock, staged, unlinkFailed>>
  BY DEF PublishOutput
<1>3. t \in Outputs /\ IsFile(content)
  BY <1>1, <1>2 DEF ProcessInv, StepOf
<1>4. content # NoFile => Undoable(content)
  BY <1>1, <1>2 DEF SessionInv, SessionOf, ReaderInv, WriterInv, ArchiveIsOut
<1> HIDE DEF t, content
<1>5. /\ outputs' = [o \in Outputs |-> outputs'[o]] /\ outputs'[t] = content
      /\ \A o \in Outputs \ {t} : outputs'[o] = outputs[o]
  <2>1. outputs = [o \in Outputs |-> outputs[o]]
    BY <1>1 DEF FileInv
  <2>2. outputs' = [o \in Outputs |-> IF o = t THEN content ELSE outputs[o]]
    BY <1>2, <2>1
  <2> QED
    BY <1>3, <2>2
<1>6. Moved(p, "linked") /\ Steps(p, "linked")
  BY <1>1, <1>2, GotoMoves DEF ProcessInv, Moved, Steps
<1>7. SessionInv'
  <2>1. \A o \in Outputs : outputs'[o] # NoFile => Undoable(outputs'[o])
    BY <1>1, <1>4, <1>5 DEF SessionInv
  <2>2. \A q \in Processes \ {p} : SessionOf(q)'
    BY <1>1, <1>2, <1>6, SessionStays DEF SessionInv, Moved, Others
  <2>3. SessionOf(p)'
    <3>1. SessionOf(p)
      BY <1>1 DEF SessionInv
    <3>2. process[p].command = "restore" => ReaderInv(p)'
      BY <1>2, <1>6, <3>1 DEF SessionOf, Moved, ReaderInv, InArchive, Undoable
    <3>3. WriterInv(p)'
      BY <1>6 DEF WriterInv, Moved, Unpublished, ArchiveIsOut
    <3> QED
      BY <1>6, <3>1, <3>2, <3>3 DEF SessionOf, Moved
  <2> QED
    BY <1>1, <1>2, <2>1, <2>2, <2>3 DEF SessionInv, Undoable
<1>8. ProcessInv'
  BY <1>1, <1>2, <1>6, StepMoves
<1>9. LockInv'
  <2>1. lock \in Processes \cup {Nobody} /\ lock' = lock /\ (unlinkFailed => unlinkFailed')
    BY <1>1, <1>2 DEF FileInv
  <2>2. process[p].pc \in Active /\ process[p].pc # "started" /\ "linked" \in Active
    BY <1>2 DEF Active, Fallible
  <2> QED
    BY <1>1, <1>6, <2>1, <2>2, LockMoves
<1>10. StageInv'
  BY <1>2, <1>6, StageStays DEF KeepingArchive, KeepingDocument
<1>11. FileInv'
  <2>1. \A o \in Outputs : IsFile(outputs'[o])
    BY <1>1, <1>3, <1>5 DEF FileInv
  <2> QED
    BY <1>1, <1>2, <1>5, <2>1 DEF FileInv, IsFile, Shows
<1>12. \A o \in Outputs : outputs[o] # NoFile => outputs'[o] = outputs[o]
  BY <1>2, <1>5
<1> QED
  BY <1>7, <1>8, <1>9, <1>10, <1>11, <1>12 DEF ArchiveInv

-----------------------------------------------------------------------------
(* The lock's end, and the beginning of a command.                         *)
LEMMA ReleaseKeepsInv ==
  ASSUME ArchiveInv, NEW p \in Processes, Release(p)
  PROVE  ArchiveInv'
<1>1. ProcessInv /\ FileInv /\ SessionInv /\ LockInv /\ StageInv
  BY DEF ArchiveInv
<1>2. PICK pc \in {"done", "failed"} :
        /\ process[p].pc = "published" /\ Goto(p, pc)
        /\ \/ pc = "done" /\ lock' = Nobody /\ unlinkFailed' = unlinkFailed
           \/ pc = "failed" /\ lock' = lock /\ unlinkFailed' = TRUE
        /\ UNCHANGED <<archive, outputs, staged>>
  BY DEF Release
<1>3. Moved(p, pc) /\ Steps(p, pc)
  BY <1>1, <1>2, GotoMoves DEF ProcessInv, Moved, Steps
<1>4. ProcessInv'
  BY <1>1, <1>2, <1>3, StepMoves
<1>5. SessionInv'
  <2>1. pc \notin Unpublished \cup ArchiveIsOut
    BY DEF Unpublished, ArchiveIsOut
  <2> QED
    BY <1>1, <1>2, <1>3, <2>1, SessionMoves
<1>6. LockInv'
  <2>1. CASE lock' = Nobody /\ unlinkFailed' = unlinkFailed
    <3>1. lock = p
      BY <1>1, <1>2 DEF ProcessInv, StepOf, LockInv, Running
    <3>2. ASSUME NEW q \in Processes, Continuing(q)', Running(q)', process'[q].pc # "started"
          PROVE  FALSE
      <4>1. CASE q = p
        BY <1>3, <3>2, <4>1 DEF Steps, Running, Fallible
      <4>2. CASE q # p
        <5>1. process'[q] = process[q]
          BY <1>3, <4>2 DEF Steps, Others
        <5>2. Continuing(q) /\ Running(q) /\ process[q].pc # "started"
          BY <3>2, <5>1 DEF Continuing, Running
        <5> QED
          BY <1>1, <3>1, <4>2, <5>2 DEF LockInv
      <4> QED
        BY <4>1, <4>2
    <3> QED
      BY <2>1, <3>2 DEF LockInv
  <2>2. CASE lock' = lock /\ unlinkFailed' = TRUE
    <3>1. lock \in Processes \cup {Nobody}
      BY <1>1 DEF FileInv
    <3>2. pc \notin {"new", "started"} /\ pc \notin Active
      BY DEF Active, Fallible
    <3> QED
      BY <1>1, <1>3, <2>2, <3>1, <3>2, LockMoves
  <2> QED
    BY <1>2, <2>1, <2>2
<1>7. unlinkFailed' \in BOOLEAN /\ (unlinkFailed => unlinkFailed')
  <2>1. CASE unlinkFailed' = unlinkFailed
    BY <1>1, <2>1 DEF FileInv
  <2>2. CASE unlinkFailed' = TRUE
    BY <2>2
  <2> QED
    BY <1>2, <2>1, <2>2
<1>8. StageInv'
  <2>1. \A f \in staged : f.by = p => KeptAt(f, pc) \/ unlinkFailed'
    BY <1>1, <1>2, <1>7 DEF StageInv, KeepingArchive, KeepingDocument
  <2>2. staged \subseteq [by : Processes, target : {"document", "archive"}]
    BY <1>1 DEF FileInv
  <2> QED
    BY <1>1, <1>2, <1>3, <1>7, <2>1, <2>2, StageMoves
<1>9. FileInv'
  BY <1>1, <1>2, <1>7 DEF FileInv, IsFile, Shows
<1> QED
  BY <1>4, <1>5, <1>6, <1>8, <1>9 DEF ArchiveInv

LEMMA RemoveStaleLockKeepsInv ==
  ASSUME ArchiveInv, RemoveStaleLock
  PROVE  ArchiveInv'
<1>1. ProcessInv /\ FileInv /\ SessionInv /\ LockInv /\ StageInv
  BY DEF ArchiveInv
<1>2. /\ lock' = Nobody /\ \A p \in Processes : Continuing(p) => ~Running(p)
      /\ UNCHANGED <<archive, outputs, staged, process, unlinkFailed>>
  BY DEF RemoveStaleLock
<1>3. LockInv'
  BY <1>2 DEF LockInv, Continuing, Running
<1>4. ProcessInv' /\ StageInv'
  BY <1>1, <1>2 DEF ProcessInv, ProcessShape, Shape, StepOf, StageInv, IsFile, Shows,
                    Continuing
<1>5. SessionInv'
  <2>1. \A p \in Processes : SessionOf(p)'
    BY <1>1, <1>2, SessionStays DEF SessionInv
  <2> QED
    BY <1>1, <1>2, <2>1 DEF SessionInv, Undoable
<1>6. FileInv'
  BY <1>1, <1>2 DEF FileInv, IsFile, Shows
<1> QED
  BY <1>3, <1>4, <1>5, <1>6 DEF ArchiveInv

Begun(kind, input, output) ==
  [Idle EXCEPT !.pc = "started", !.command = kind, !.input = input, !.output = output]

LEMMA BegunFields ==
  ASSUME NEW kind, NEW input, NEW output
  PROVE  Begun(kind, input, output) =
           [pc |-> "started", command |-> kind, input |-> input, output |-> output,
            session |-> NoFile, content |-> NoFile]
<1> DEFINE d == [pc |-> "started", command |-> "create", input |-> NoFile, output |-> NoFile,
                 session |-> NoFile, content |-> NoFile]
           e == [pc |-> "started", command |-> kind, input |-> NoFile, output |-> NoFile,
                 session |-> NoFile, content |-> NoFile]
           f == [pc |-> "started", command |-> kind, input |-> input, output |-> NoFile,
                 session |-> NoFile, content |-> NoFile]
           g == [pc |-> "started", command |-> kind, input |-> input, output |-> output,
                 session |-> NoFile, content |-> NoFile]
<1>1. [Idle EXCEPT !.pc = "started"] = d
  BY DEF Idle
<1>2. [d EXCEPT !.command = kind] = e
  OBVIOUS
<1>3. [e EXCEPT !.input = input] = f
  OBVIOUS
<1>4. [f EXCEPT !.output = output] = g
  OBVIOUS
<1>5. Begun(kind, input, output) =
        [[[[Idle EXCEPT !.pc = "started"] EXCEPT !.command = kind] EXCEPT !.input = input]
           EXCEPT !.output = output]
  BY DEF Begun
<1> HIDE DEF d, e, f, g
<1>6. Begun(kind, input, output) = g
  BY <1>1, <1>2, <1>3, <1>4, <1>5
<1> QED
  BY <1>6 DEF g

LEMMA PreflightKeepsInv ==
  ASSUME ArchiveInv, NEW p \in Processes, NEW kind \in {"create", "continue", "restore"},
         NEW input \in IF kind = "restore" THEN Outputs ELSE Documents,
         NEW output \in Outputs, Preflight(p, kind, input, output)
  PROVE  ArchiveInv'
<1> DEFINE r == [pc |-> "started", command |-> kind, input |-> input, output |-> output,
                 session |-> NoFile, content |-> NoFile]
<1>1. ProcessInv /\ FileInv /\ SessionInv /\ LockInv /\ StageInv
  BY DEF ArchiveInv
<1>2. /\ process[p].pc = "new" /\ process' = [process EXCEPT ![p] = r]
      /\ UNCHANGED <<archive, lock, outputs, staged, unlinkFailed>>
  <2>1. process' = [process EXCEPT ![p] = Begun(kind, input, output)]
    BY DEF Preflight, Begun
  <2>2. Begun(kind, input, output) = r
    BY BegunFields
  <2> QED
    BY <2>1, <2>2 DEF Preflight
<1>3. Shape(r)
  BY DEF Shape
<1>4. ProcessShape' /\ Others(p) /\ process'[p] = r
  <2> HIDE DEF r
  <2> QED
    BY <1>1, <1>2, <1>3, Updates DEF ProcessInv
<1>5. ProcessInv'
  <2>1. StepOf(p)'
    BY <1>4 DEF StepOf, IsFile
  <2>2. \A q \in Processes \ {p} : StepOf(q)'
    BY <1>1, <1>4 DEF ProcessInv, StepOf, Others, Continuing
  <2> QED
    BY <1>4, <2>1, <2>2 DEF ProcessInv
<1>6. SessionInv'
  <2>1. SessionOf(p)'
    BY <1>4 DEF SessionOf, ReaderInv, WriterInv, Unpublished, ArchiveIsOut
  <2> QED
    BY <1>1, <1>2, <1>4, <2>1, SameArchive
<1>7. LockInv'
  <2>1. Nobody \notin Processes
    BY WorkflowAssumption
  <2>2. lock # p
    BY <1>1, <1>2, <2>1 DEF LockInv
  <2>3. ASSUME NEW q \in Processes, Continuing(q)', Running(q)', process'[q].pc # "started"
        PROVE  lock' = q
    <3>1. q # p
      BY <1>4, <2>3
    <3>2. process'[q] = process[q]
      BY <1>4, <3>1 DEF Others
    <3> QED
      BY <1>1, <1>2, <2>3, <3>2 DEF LockInv, Continuing, Running
  <2>4. ASSUME lock # Nobody
        PROVE  process'[lock] = process[lock]
    BY <1>1, <1>4, <2>2, <2>4 DEF FileInv, Others
  <2> QED
    BY <1>1, <1>2, <2>3, <2>4 DEF LockInv, Continuing, Running
<1>8. StageInv'
  <2>1. \A f \in staged : f.by = p => unlinkFailed
    BY <1>1, <1>2 DEF StageInv, KeepingArchive, KeepingDocument
  <2>2. \A f \in staged : f.by # p => process'[f.by] = process[f.by]
    BY <1>1, <1>4 DEF FileInv, Others
  <2> QED
    BY <1>1, <1>2, <2>1, <2>2 DEF StageInv
<1>9. FileInv'
  BY <1>1, <1>2 DEF FileInv, IsFile, Shows
<1> QED
  BY <1>5, <1>6, <1>7, <1>8, <1>9 DEF ArchiveInv

-----------------------------------------------------------------------------
(* The workflow as a whole                                                 *)
LEMMA ArchiveInit ==
  ASSUME Init
  PROVE  ArchiveInv
<1>1. /\ archive = NoFile /\ lock = Nobody /\ outputs = [o \in Outputs |-> NoFile]
      /\ staged = {} /\ unlinkFailed = FALSE /\ process = [p \in Processes |-> Idle]
  BY DEF Init
<1>2. \A p \in Processes : process[p] = Idle
  BY <1>1
<1>3. ProcessInv
  <2>1. process = [p \in Processes |-> process[p]]
    BY <1>1
  <2>2. Shape(Idle)
    BY DEF Shape, Idle
  <2>3. \A p \in Processes : Shape(process[p])
    BY <1>2, <2>2
  <2>4. \A p \in Processes : StepOf(p)
    BY <1>2 DEF StepOf, Idle, IsFile
  <2> QED
    BY <2>1, <2>3, <2>4 DEF ProcessInv, ProcessShape
<1>4. SessionInv
  BY <1>1, <1>2 DEF SessionInv, SessionOf, ReaderInv, WriterInv, Idle, Unpublished,
                    ArchiveIsOut
<1>5. LockInv
  BY <1>1, <1>2 DEF LockInv, Idle, Running, Continuing
<1>6. StageInv /\ FileInv
  BY <1>1 DEF StageInv, FileInv, IsFile
<1> QED
  BY <1>3, <1>4, <1>5, <1>6 DEF ArchiveInv

(* Two sessions of the archive, before and after a step.                   *)
LEMMA GrownIfSame ==
  ASSUME archive' = archive
  PROVE  Grown
BY DEF Grown, Extends

OutputsStay == \A o \in Outputs : outputs[o] # NoFile => outputs'[o] = outputs[o]

LEMMA ArchiveStep ==
  ASSUME ArchiveInv, [Next]_vars
  PROVE  ArchiveInv' /\ Grown /\ OutputsStay
<1>1. CASE UNCHANGED vars
  <2>1. UNCHANGED <<archive, lock, outputs, staged, process, unlinkFailed>>
    BY <1>1 DEF vars
  <2>2. ProcessInv /\ FileInv /\ SessionInv /\ LockInv /\ StageInv
    BY DEF ArchiveInv
  <2>3. ProcessInv' /\ StageInv' /\ FileInv' /\ LockInv'
    BY <2>1, <2>2 DEF ProcessInv, ProcessShape, Shape, StepOf, StageInv, IsFile, Shows,
                      Continuing, FileInv, LockInv, Running
  <2>4. \A p \in Processes : SessionOf(p)'
    BY <2>1, <2>2, SessionStays DEF SessionInv
  <2>5. SessionInv'
    BY <2>1, <2>2, <2>4 DEF SessionInv, Undoable
  <2> QED
    BY <2>1, <2>3, <2>5, GrownIfSame DEF ArchiveInv, OutputsStay
<1>2. CASE RemoveStaleLock
  <2>1. archive' = archive /\ outputs' = outputs
    BY <1>2 DEF RemoveStaleLock
  <2> QED
    BY <1>2, <2>1, RemoveStaleLockKeepsInv, GrownIfSame DEF OutputsStay
<1>3. ASSUME NEW p \in Processes, CreateArchive(p) \/ ReplaceArchive(p)
      PROVE  ArchiveInv' /\ Grown /\ OutputsStay
  <2>1. outputs' = outputs
    BY <1>3 DEF CreateArchive, ReplaceArchive
  <2> QED
    BY <1>3, <2>1, CreateArchiveKeepsInv, ReplaceArchiveKeepsInv DEF OutputsStay
<1>4. ASSUME NEW p \in Processes, PublishOutput(p)
      PROVE  ArchiveInv' /\ Grown /\ OutputsStay
  <2>1. archive' = archive
    BY <1>4 DEF PublishOutput
  <2> QED
    BY <1>4, <2>1, PublishOutputKeepsInv, GrownIfSame DEF OutputsStay
<1>5. ASSUME NEW p \in Processes, NEW kind \in {"create", "continue", "restore"},
             NEW input \in IF kind = "restore" THEN Outputs ELSE Documents,
             NEW output \in Outputs, Preflight(p, kind, input, output)
      PROVE  ArchiveInv' /\ Grown /\ OutputsStay
  <2>1. archive' = archive /\ outputs' = outputs
    BY <1>5 DEF Preflight
  <2> QED
    BY <1>5, <2>1, PreflightKeepsInv, GrownIfSame DEF OutputsStay
<1>6. ASSUME NEW p \in Processes,
             \/ AcquireLock(p) \/ Redact(p) \/ ReadDocument(p) \/ ReadArchive(p) \/ Restore(p)
             \/ StageDocument(p) \/ StageArchive(p) \/ UnstageArchive(p)
             \/ UnstageDocument(p) \/ Fail(p) \/ CleanUp(p) \/ Release(p) \/ Kill(p)
      PROVE  ArchiveInv' /\ Grown /\ OutputsStay
  <2>1. archive' = archive /\ outputs' = outputs
    BY <1>6 DEF AcquireLock, Redact, ReadDocument, ReadArchive, Restore, StageDocument,
                StageArchive, UnstageArchive, UnstageDocument, Fail, CleanUp, Release, Kill
  <2>2. ArchiveInv'
    BY <1>6, AcquireLockKeepsInv, RedactKeepsInv, ReadDocumentKeepsInv,
       ReadArchiveKeepsInv, RestoreKeepsInv, StageDocumentKeepsInv, StageArchiveKeepsInv,
       UnstageArchiveKeepsInv, UnstageDocumentKeepsInv, FailKeepsInv, CleanUpKeepsInv,
       ReleaseKeepsInv, KillKeepsInv
  <2> QED
    BY <2>1, <2>2, GrownIfSame DEF OutputsStay
<1>7. CASE Next
  <2>1. CASE \E p \in Processes, kind \in {"create", "continue"}, input \in Documents,
                output \in Outputs : Preflight(p, kind, input, output)
    BY <1>5, <2>1
  <2>2. CASE \E p \in Processes, input, output \in Outputs :
               Preflight(p, "restore", input, output)
    BY <1>5, <2>2
  <2> QED
    BY <1>2, <1>3, <1>4, <1>6, <1>7, <2>1, <2>2 DEF Next
<1> QED
  BY <1>1, <1>7

(* What the runs check of the workflow.                                    *)
LEMMA ArchiveTypes ==
  ASSUME ArchiveInv
  PROVE  TypeOK
<1>1. ProcessInv /\ FileInv /\ SessionInv
  BY DEF ArchiveInv
<1>2. archive # NoFile => Shows(archive.names, Nat)
  <2> SUFFICES ASSUME archive # NoFile PROVE Shows(archive.names, Nat)
    OBVIOUS
  <2>1. Sound(archive)
    BY <1>1 DEF SessionInv
  <2>2. archive.names \in [Named(archive) -> Nat] /\ Named(archive) \in SUBSET Identities
    BY <2>1, SessionFacts
  <2> QED
    BY <2>2 DEF Shows
<1> QED
  BY <1>1, <1>2 DEF TypeOK, ProcessInv, StepOf, FileInv

LEMMA ArchiveUndoes ==
  ASSUME ArchiveInv
  PROVE  OutputsRestore
BY DEF ArchiveInv, SessionInv, Undoable, OutputsRestore

LEMMA ArchiveLeaves ==
  ASSUME ArchiveInv
  PROVE  OnlyInterruptionsLeaveFiles
<1>1. LockInv /\ StageInv
  BY DEF ArchiveInv
<1>2. LockMatchesHolder
  BY <1>1 DEF LockInv, LockMatchesHolder
<1>3. NothingStaysStaged
  BY <1>1 DEF StageInv, NothingStaysStaged, KeepingArchive, KeepingDocument, Running, Fallible
<1> QED
  BY <1>2, <1>3 DEF OnlyInterruptionsLeaveFiles

LEMMA ArchiveReplacesNothing ==
  ASSUME ArchiveInv, [Next]_vars
  PROVE  ReplacesNothing
BY ArchiveStep DEF Grown, OutputsStay, Extends, Named, ReplacesNothing

-----------------------------------------------------------------------------
(* `anonymize pdf': what a command has in its folder and staged at which   *)
(* step.                                                                   *)
PdfFields == {"pc", "opened", "bytes", "document", "page", "error"}

PdfShape ==
  /\ DOMAIN command = Commands /\ \A c \in Commands : DOMAIN command[c] = PdfFields
  /\ DOMAIN folder = Commands

Whole(document) == document.bytes = document.size

FolderInv(c) ==
  /\ command[c].pc \in {"new", "started", "reading", "ready", "rewritten", "staged",
                        "unstaging", "done"} => folder[c] = Gone
  /\ command[c].pc = "failed" => folder[c] = Gone \/ command[c].error = "cleanup"
  /\ command[c].pc = "made" => folder[c] = {}
  /\ command[c].pc = "rendering" => folder[c] \subseteq {0}
  /\ command[c].pc \in {"rendered", "recognized"} => folder[c] \subseteq {0, command[c].page}
  /\ command[c].pc = "cleaning" \/ folder[c] # Gone =>
       \E k : folder[c] \subseteq {0, k}

StagingInv(c) ==
  /\ c \in staging =>
       \/ command[c].pc \in {"staged", "unstaging", "killed"}
       \/ command[c].pc = "failed" /\ command[c].error = "unstage"
  /\ command[c].pc \in {"staged", "unstaging"} => c \in staging
  /\ command[c].pc \in {"rewritten", "staged"} => command[c].error = "none"
  /\ command[c].pc \in {"ready", "made", "rendering", "rendered", "recognized", "cleaning",
                        "rewritten", "staged"} => Whole(command[c].document)

(* How far the command is whose document is out.                           *)
PublishedBy(c) ==
  \/ command[c].pc = "unstaging" /\ command[c].error = "none"
  \/ command[c].pc \in {"done", "killed"}
  \/ command[c].pc = "failed" /\ c \in staging

TargetInv ==
  target # NoDocument =>
    target.by \in Commands /\ Whole(target.document) /\ PublishedBy(target.by)

PdfInv ==
  /\ PdfShape /\ TargetInv
  /\ \A c \in Commands : FolderInv(c) /\ StagingInv(c)

(* The rest of the commands, and what a step makes of its own.             *)
Elsewhere(c) ==
  \A d \in Commands \ {c} :
    command'[d] = command[d] /\ folder'[d] = folder[d] /\ (d \in staging' <=> d \in staging)

Goes(c, pc, error, document, page) ==
  /\ PdfShape' /\ \A d \in Commands \ {c} : command'[d] = command[d]
  /\ command'[c].pc = pc /\ command'[c].error = error
  /\ command'[c].document = document /\ command'[c].page = page

LEMMA PdfUpdates ==
  ASSUME PdfShape, DOMAIN folder' = Commands, NEW c \in Commands, NEW r,
         DOMAIN r = PdfFields, command' = [command EXCEPT ![c] = r]
  PROVE  Goes(c, r.pc, r.error, r.document, r.page)
<1>1. DOMAIN command' = Commands
  BY DEF PdfShape
<1>2. command'[c] = r /\ \A d \in Commands \ {c} : command'[d] = command[d]
  BY DEF PdfShape
<1>3. \A d \in Commands : DOMAIN command'[d] = PdfFields
  BY <1>2 DEF PdfShape
<1> QED
  BY <1>1, <1>2, <1>3 DEF Goes, PdfShape

LEMMA PdfGoto ==
  ASSUME PdfShape, DOMAIN folder' = Commands, NEW c \in Commands, NEW pc, Pdf!Goto(c, pc)
  PROVE  Goes(c, pc, command[c].error, command[c].document, command[c].page)
<1> DEFINE r == [command[c] EXCEPT !.pc = pc]
<1>1. command' = [command EXCEPT ![c] = r]
  BY DEF Pdf!Goto, PdfShape
<1>2. DOMAIN command[c] = PdfFields
  BY DEF PdfShape
<1>3. /\ DOMAIN r = PdfFields /\ r.pc = pc /\ r.error = command[c].error
      /\ r.document = command[c].document /\ r.page = command[c].page
  BY <1>2 DEF PdfFields
<1> HIDE DEF r
<1>4. Goes(c, r.pc, r.error, r.document, r.page)
  BY <1>1, <1>3, PdfUpdates
<1> QED
  BY <1>3, <1>4

LEMMA PdfThrow ==
  ASSUME PdfShape, DOMAIN folder' = Commands, NEW c \in Commands, NEW pc, NEW error,
         Pdf!Throw(c, pc, error)
  PROVE  Goes(c, pc, error, command[c].document, command[c].page)
<1> DEFINE r == [command[c] EXCEPT !.pc = pc, !.error = error]
<1>1. command' = [command EXCEPT ![c] = r]
  BY DEF Pdf!Throw, PdfShape
<1>2. DOMAIN command[c] = PdfFields
  BY DEF PdfShape
<1>3. /\ DOMAIN r = PdfFields /\ r.pc = pc /\ r.error = error
      /\ r.document = command[c].document /\ r.page = command[c].page
  BY <1>2 DEF PdfFields
<1> HIDE DEF r
<1>4. Goes(c, r.pc, r.error, r.document, r.page)
  BY <1>1, <1>3, PdfUpdates
<1> QED
  BY <1>3, <1>4

(* A step of a command disturbs only what is its own.                      *)
LEMMA PdfKeeps ==
  ASSUME PdfInv, NEW c \in Commands, PdfShape', Elsewhere(c), target' = target,
         PublishedBy(c) => PublishedBy(c)', FolderInv(c)', StagingInv(c)'
  PROVE  PdfInv'
<1>1. \A d \in Commands \ {c} : FolderInv(d)' /\ StagingInv(d)'
  <2> TAKE d \in Commands \ {c}
  <2>1. /\ command'[d] = command[d] /\ folder'[d] = folder[d]
        /\ (d \in staging' <=> d \in staging)
    BY DEF Elsewhere
  <2>2. FolderInv(d) /\ StagingInv(d)
    BY DEF PdfInv
  <2>3. FolderInv(d)'
    BY <2>1, <2>2 DEF FolderInv
  <2>4. StagingInv(d)'
    BY <2>1, <2>2 DEF StagingInv, Whole
  <2> QED
    BY <2>3, <2>4
<1>2. \A d \in Commands : PublishedBy(d) => PublishedBy(d)'
  BY DEF PublishedBy, Elsewhere
<1>3. TargetInv'
  BY <1>2 DEF PdfInv, TargetInv, Whole, PublishedBy
<1> QED
  BY <1>1, <1>3 DEF PdfInv

-----------------------------------------------------------------------------
(* One lemma per action: reading the input.                                *)
LEMMA PdfQuiet ==
  ASSUME PdfInv, NEW c \in Commands, NEW pc, NEW error, NEW document, NEW page,
         Goes(c, pc, error, document, page), UNCHANGED <<folder, staging, target>>,
         PublishedBy(c) => PublishedBy(c)', FolderInv(c)', StagingInv(c)'
  PROVE  PdfInv'
<1>1. Elsewhere(c) /\ PdfShape'
  BY DEF Goes, Elsewhere
<1> QED
  BY <1>1, PdfKeeps

LEMMA PdfPreflight ==
  ASSUME PdfInv, NEW c \in Commands, Pdf!Preflight(c)
  PROVE  PdfInv'
<1>1. /\ command[c].pc = "new" /\ Pdf!Goto(c, "started")
      /\ UNCHANGED <<folder, staging, target>>
  BY DEF Pdf!Preflight, Pdf!At, Pdf!fileVars
<1>2. Goes(c, "started", command[c].error, command[c].document, command[c].page)
  BY <1>1, PdfGoto DEF PdfInv, PdfShape
<1>3. FolderInv(c) /\ StagingInv(c)
  BY DEF PdfInv
<1>4. FolderInv(c)' /\ StagingInv(c)' /\ ~PublishedBy(c)
  BY <1>1, <1>2, <1>3 DEF Goes, FolderInv, StagingInv, PublishedBy
<1> QED
  BY <1>1, <1>2, <1>4, PdfQuiet

LEMMA PdfOpenInput ==
  ASSUME PdfInv, NEW c \in Commands, Pdf!OpenInput(c)
  PROVE  PdfInv'
<1> DEFINE r == [command[c] EXCEPT !.pc = "reading",
                                   !.opened = [node |-> inputNode, size |-> size[inputNode]]]
<1>1. /\ command[c].pc = "started" /\ command' = [command EXCEPT ![c] = r]
      /\ UNCHANGED <<folder, staging, target>>
  BY DEF Pdf!OpenInput, Pdf!At, Pdf!fileVars, PdfInv, PdfShape
<1>2. /\ DOMAIN r = PdfFields /\ r.pc = "reading" /\ r.error = command[c].error
      /\ r.document = command[c].document /\ r.page = command[c].page
  BY DEF PdfInv, PdfShape, PdfFields
<1> HIDE DEF r
<1>3. Goes(c, r.pc, r.error, r.document, r.page)
  <2>1. PdfShape /\ DOMAIN folder' = Commands
    BY <1>1 DEF PdfInv, PdfShape
  <2> QED
    BY <1>1, <1>2, <2>1, PdfUpdates
<1>4. FolderInv(c) /\ StagingInv(c)
  BY DEF PdfInv
<1>5. FolderInv(c)' /\ StagingInv(c)' /\ ~PublishedBy(c)
  BY <1>1, <1>2, <1>3, <1>4 DEF Goes, FolderInv, StagingInv, PublishedBy
<1> QED
  BY <1>1, <1>3, <1>5, PdfQuiet

LEMMA PdfReadInput ==
  ASSUME PdfInv, NEW c \in Commands, Pdf!ReadInput(c)
  PROVE  PdfInv'
<1> DEFINE r == [command[c] EXCEPT !.bytes = @ + 1]
<1>1. /\ command[c].pc = "reading" /\ UNCHANGED <<folder, staging, target>>
      /\ command' = [command EXCEPT ![c] = r] \/ Pdf!Throw(c, "failed", "changed")
  BY DEF Pdf!ReadInput, Pdf!At, Pdf!fileVars, PdfInv, PdfShape
<1>2. FolderInv(c) /\ StagingInv(c) /\ ~PublishedBy(c)
  BY <1>1 DEF PdfInv, PublishedBy
<1>3. CASE command' = [command EXCEPT ![c] = r]
  <2>1. /\ DOMAIN r = PdfFields /\ r.pc = "reading" /\ r.error = command[c].error
        /\ r.document = command[c].document /\ r.page = command[c].page
    BY <1>1 DEF PdfInv, PdfShape, PdfFields
  <2> HIDE DEF r
  <2>2. Goes(c, r.pc, r.error, r.document, r.page)
    <3>1. PdfShape /\ DOMAIN folder' = Commands
      BY <1>1 DEF PdfInv, PdfShape
    <3> QED
      BY <1>1, <1>3, <2>1, <3>1, PdfUpdates
  <2>3. FolderInv(c)' /\ StagingInv(c)'
    BY <1>1, <1>2, <2>1, <2>2 DEF Goes, FolderInv, StagingInv
  <2> QED
    BY <1>1, <1>2, <2>2, <2>3, PdfQuiet
<1>4. CASE Pdf!Throw(c, "failed", "changed")
  <2>1. Goes(c, "failed", "changed", command[c].document, command[c].page)
    BY <1>1, <1>4, PdfThrow DEF PdfInv, PdfShape
  <2>2. FolderInv(c)' /\ StagingInv(c)'
    BY <1>1, <1>2, <2>1 DEF Goes, FolderInv, StagingInv
  <2> QED
    BY <1>1, <1>2, <2>1, <2>2, PdfQuiet
<1> QED
  BY <1>1, <1>3, <1>4

LEMMA PdfAcceptInput ==
  ASSUME PdfInv, NEW c \in Commands, Pdf!AcceptInput(c)
  PROVE  PdfInv'
<1> DEFINE opened == command[c].opened
           document == [node |-> opened.node, size |-> opened.size, bytes |-> command[c].bytes]
           r == [command[c] EXCEPT !.pc = "ready", !.document = document]
<1>1. /\ command[c].pc = "reading" /\ command[c].bytes = opened.size
      /\ UNCHANGED <<folder, staging, target>>
      /\ command' = [command EXCEPT ![c] = r] \/ Pdf!Throw(c, "failed", "changed")
  BY DEF Pdf!AcceptInput, Pdf!At, Pdf!fileVars, PdfInv, PdfShape
<1>2. FolderInv(c) /\ StagingInv(c) /\ ~PublishedBy(c)
  BY <1>1 DEF PdfInv, PublishedBy
<1>3. CASE command' = [command EXCEPT ![c] = r]
  <2>1. Whole(document)
    BY <1>1 DEF Whole
  <2> HIDE DEF document
  <2>2. /\ DOMAIN r = PdfFields /\ r.pc = "ready" /\ r.error = command[c].error
        /\ r.document = document /\ r.page = command[c].page
    BY <1>1 DEF PdfInv, PdfShape, PdfFields
  <2> HIDE DEF r
  <2>3. Goes(c, r.pc, r.error, r.document, r.page)
    <3>1. PdfShape /\ DOMAIN folder' = Commands
      BY <1>1 DEF PdfInv, PdfShape
    <3> QED
      BY <1>1, <1>3, <2>2, <3>1, PdfUpdates
  <2>4. FolderInv(c)' /\ StagingInv(c)'
    BY <1>1, <1>2, <2>1, <2>2, <2>3 DEF Goes, FolderInv, StagingInv, Whole
  <2> QED
    BY <1>1, <1>2, <2>3, <2>4, PdfQuiet
<1>4. CASE Pdf!Throw(c, "failed", "changed")
  <2>1. Goes(c, "failed", "changed", command[c].document, command[c].page)
    BY <1>1, <1>4, PdfThrow DEF PdfInv, PdfShape
  <2>2. FolderInv(c)' /\ StagingInv(c)'
    BY <1>1, <1>2, <2>1 DEF Goes, FolderInv, StagingInv
  <2> QED
    BY <1>1, <1>2, <2>1, <2>2, PdfQuiet
<1> QED
  BY <1>1, <1>3, <1>4

LEMMA PdfFail ==
  ASSUME PdfInv, NEW c \in Commands, Pdf!Fail(c)
  PROVE  PdfInv'
<1>1. PICK pc \in {"failed", "cleaning", "unstaging"} :
        /\ Pdf!Throw(c, pc, "failed") /\ UNCHANGED <<folder, staging, target>>
        /\ \/ pc = "failed"
              /\ command[c].pc \in {"started", "reading", "ready", "rewritten"}
           \/ pc = "cleaning" /\ command[c].pc = "made"
           \/ pc = "unstaging" /\ command[c].pc = "staged"
  BY DEF Pdf!Fail, Pdf!At, Pdf!fileVars
<1>2. Goes(c, pc, "failed", command[c].document, command[c].page)
  BY <1>1, PdfThrow DEF PdfInv, PdfShape
<1>3. FolderInv(c) /\ StagingInv(c) /\ ~PublishedBy(c)
  BY <1>1 DEF PdfInv, PublishedBy
<1>4. FolderInv(c)'
  BY <1>1, <1>2, <1>3 DEF Goes, FolderInv
<1>5. StagingInv(c)'
  BY <1>1, <1>2, <1>3 DEF Goes, StagingInv, Whole
<1> QED
  BY <1>1, <1>2, <1>3, <1>4, <1>5, PdfQuiet

LEMMA PdfKill ==
  ASSUME PdfInv, NEW c \in Commands, Pdf!Kill(c)
  PROVE  PdfInv'
<1>1. /\ command[c].pc \notin {"new", "done", "failed", "killed"}
      /\ Pdf!Goto(c, "killed") /\ UNCHANGED <<folder, staging, target>>
  BY DEF Pdf!Kill, Pdf!Ended, Pdf!fileVars
<1>2. Goes(c, "killed", command[c].error, command[c].document, command[c].page)
  BY <1>1, PdfGoto DEF PdfInv, PdfShape
<1>3. FolderInv(c) /\ StagingInv(c)
  BY DEF PdfInv
<1>4. FolderInv(c)' /\ StagingInv(c)'
  BY <1>1, <1>2, <1>3 DEF Goes, FolderInv, StagingInv
<1>5. PublishedBy(c)'
  BY <1>2 DEF Goes, PublishedBy
<1> QED
  BY <1>1, <1>2, <1>4, <1>5, PdfQuiet

-----------------------------------------------------------------------------
(* The folder: what a step adds to it or takes away.                       *)
FolderBecomes(c, content) == folder' = [folder EXCEPT ![c] = content]

LEMMA PdfFolder ==
  ASSUME PdfInv, NEW c \in Commands, NEW content, FolderBecomes(c, content),
         UNCHANGED <<staging, target>>,
         NEW pc, NEW error, NEW document, NEW page, Goes(c, pc, error, document, page),
         ~PublishedBy(c), FolderInv(c)', StagingInv(c)'
  PROVE  PdfInv'
<1>1. \A d \in Commands \ {c} : folder'[d] = folder[d]
  BY DEF PdfInv, PdfShape, FolderBecomes
<1>2. Elsewhere(c) /\ PdfShape'
  BY <1>1 DEF Goes, Elsewhere
<1> QED
  BY <1>2, PdfKeeps

LEMMA FolderIs ==
  ASSUME PdfInv, NEW c \in Commands, NEW content, FolderBecomes(c, content)
  PROVE  folder'[c] = content /\ DOMAIN folder' = Commands /\ PdfShape
BY DEF PdfInv, PdfShape, FolderBecomes

LEMMA PdfMakeFolder ==
  ASSUME PdfInv, NEW c \in Commands, Pdf!MakeFolder(c)
  PROVE  PdfInv'
<1>1. /\ command[c].pc = "ready" /\ FolderBecomes(c, {}) /\ Pdf!Goto(c, "made")
      /\ UNCHANGED <<staging, target>>
  BY DEF Pdf!MakeFolder, Pdf!At, FolderBecomes
<1>2. folder'[c] = {} /\ DOMAIN folder' = Commands /\ PdfShape
  BY <1>1, FolderIs
<1>3. Goes(c, "made", command[c].error, command[c].document, command[c].page)
  BY <1>1, <1>2, PdfGoto
<1>4. StagingInv(c) /\ ~PublishedBy(c)
  BY <1>1 DEF PdfInv, PublishedBy
<1>5. FolderInv(c)' /\ StagingInv(c)'
  BY <1>1, <1>2, <1>3, <1>4 DEF Goes, FolderInv, StagingInv, Whole
<1> QED
  BY <1>1, <1>3, <1>4, <1>5, PdfFolder

LEMMA PdfWriteSource ==
  ASSUME PdfInv, NEW c \in Commands, Pdf!WriteSource(c)
  PROVE  PdfInv'
<1> DEFINE r == [command[c] EXCEPT !.pc = "rendering", !.page = 1]
           content == folder[c] \cup {0}
<1>1. /\ command[c].pc = "made" /\ FolderBecomes(c, content)
      /\ command' = [command EXCEPT ![c] = r] /\ UNCHANGED <<staging, target>>
  BY DEF Pdf!WriteSource, Pdf!At, Pdf!Source, FolderBecomes, PdfInv, PdfShape
<1>2. FolderInv(c) /\ StagingInv(c) /\ ~PublishedBy(c)
  BY <1>1 DEF PdfInv, PublishedBy
<1>3. content \subseteq {0}
  BY <1>1, <1>2 DEF FolderInv
<1> HIDE DEF content
<1>4. folder'[c] = content /\ DOMAIN folder' = Commands /\ PdfShape
  BY <1>1, FolderIs
<1>5. /\ DOMAIN r = PdfFields /\ r.pc = "rendering" /\ r.error = command[c].error
      /\ r.document = command[c].document /\ r.page = 1
  BY <1>4 DEF PdfShape, PdfFields
<1> HIDE DEF r
<1>6. Goes(c, r.pc, r.error, r.document, r.page)
  BY <1>1, <1>4, <1>5, PdfUpdates
<1>7. FolderInv(c)' /\ StagingInv(c)'
  BY <1>1, <1>2, <1>3, <1>4, <1>5, <1>6 DEF Goes, FolderInv, StagingInv, Whole
<1> QED
  BY <1>1, <1>2, <1>6, <1>7, PdfFolder

(* A page is added, if it is, to a folder that holds no other.             *)
LEMMA PdfAddsPage ==
  ASSUME PdfInv, NEW c \in Commands, command[c].pc = "rendering",
         NEW left \in SUBSET {command[c].page}, FolderBecomes(c, folder[c] \cup left),
         UNCHANGED <<staging, target>>, NEW error,
         NEW pc, Goes(c, pc, error, command[c].document, command[c].page),
         pc \in {"rendered", "cleaning"}
  PROVE  PdfInv'
<1> DEFINE content == folder[c] \cup left
           page == command[c].page
<1>1. FolderInv(c) /\ StagingInv(c) /\ ~PublishedBy(c)
  BY DEF PdfInv, PublishedBy
<1>2. content \subseteq {0, page}
  BY <1>1 DEF FolderInv
<1> HIDE DEF content
<1>3. folder'[c] = content
  BY FolderIs DEF content
<1>4. command'[c].pc = pc /\ command'[c].page = page
  BY DEF Goes
<1>5. FolderInv(c)'
  BY <1>2, <1>3, <1>4 DEF FolderInv
<1>6. StagingInv(c)'
  BY <1>1 DEF Goes, StagingInv, Whole
<1> QED
  BY <1>1, <1>5, <1>6, PdfFolder

LEMMA PdfRender ==
  ASSUME PdfInv, NEW c \in Commands, Pdf!Render(c) \/ Pdf!RenderFails(c)
  PROVE  PdfInv'
<1>1. CASE Pdf!Render(c)
  <2> DEFINE left == {command[c].page}
  <2>1. /\ command[c].pc = "rendering" /\ FolderBecomes(c, folder[c] \cup left)
        /\ Pdf!Goto(c, "rendered") /\ UNCHANGED <<staging, target>>
    BY <1>1 DEF Pdf!Render, Pdf!At, FolderBecomes, PdfInv, PdfShape
  <2>2. left \in SUBSET {command[c].page}
    OBVIOUS
  <2> HIDE DEF left
  <2>3. DOMAIN folder' = Commands /\ PdfShape
    BY <2>1, FolderIs
  <2>4. Goes(c, "rendered", command[c].error, command[c].document, command[c].page)
    BY <2>1, <2>3, PdfGoto
  <2> QED
    BY <2>1, <2>2, <2>4, PdfAddsPage
<1>2. CASE Pdf!RenderFails(c)
  <2>1. PICK left \in SUBSET {command[c].page} :
          folder' = [folder EXCEPT ![c] = @ \cup left]
    BY <1>2 DEF Pdf!RenderFails
  <2>2. /\ command[c].pc = "rendering" /\ FolderBecomes(c, folder[c] \cup left)
        /\ Pdf!Throw(c, "cleaning", "failed") /\ UNCHANGED <<staging, target>>
    BY <1>2, <2>1 DEF Pdf!RenderFails, Pdf!At, FolderBecomes, PdfInv, PdfShape
  <2>3. DOMAIN folder' = Commands /\ PdfShape
    BY <2>2, FolderIs
  <2>4. Goes(c, "cleaning", "failed", command[c].document, command[c].page)
    BY <2>2, <2>3, PdfThrow
  <2> QED
    BY <2>2, <2>4, PdfAddsPage
<1> QED
  BY <1>1, <1>2

LEMMA PdfRecognize ==
  ASSUME PdfInv, NEW c \in Commands, Pdf!Recognize(c)
  PROVE  PdfInv'
<1>1. /\ command[c].pc = "rendered" /\ UNCHANGED <<folder, staging, target>>
      /\ Pdf!Goto(c, "recognized") \/ Pdf!Throw(c, "recognized", "failed")
  BY DEF Pdf!Recognize, Pdf!At, Pdf!fileVars
<1>2. PdfShape /\ DOMAIN folder' = Commands
  BY <1>1 DEF PdfInv, PdfShape
<1>3. PICK error : Goes(c, "recognized", error, command[c].document, command[c].page)
  BY <1>1, <1>2, PdfGoto, PdfThrow
<1>4. FolderInv(c) /\ StagingInv(c) /\ ~PublishedBy(c)
  BY <1>1 DEF PdfInv, PublishedBy
<1>5. FolderInv(c)' /\ StagingInv(c)'
  BY <1>1, <1>3, <1>4 DEF Goes, FolderInv, StagingInv, Whole
<1> QED
  BY <1>1, <1>3, <1>4, <1>5, PdfQuiet

LEMMA PdfRemovePage ==
  ASSUME PdfInv, NEW c \in Commands, Pdf!RemovePage(c)
  PROVE  PdfInv'
<1>1. /\ command[c].pc = "recognized" /\ UNCHANGED <<staging, target>>
      /\ \/ FolderBecomes(c, folder[c] \ {command[c].page}) /\ Pdf!AfterPage(c)
         \/ Pdf!Throw(c, "cleaning", "cleanup") /\ folder' = folder
  BY DEF Pdf!RemovePage, Pdf!At, FolderBecomes, PdfInv, PdfShape
<1>2. FolderInv(c) /\ StagingInv(c) /\ ~PublishedBy(c) /\ PdfShape
  BY <1>1 DEF PdfInv, PublishedBy
<1>3. CASE Pdf!Throw(c, "cleaning", "cleanup") /\ folder' = folder
  <2>1. DOMAIN folder' = Commands
    BY <1>2, <1>3 DEF PdfShape
  <2>2. Goes(c, "cleaning", "cleanup", command[c].document, command[c].page)
    BY <1>2, <1>3, <2>1, PdfThrow
  <2>3. FolderInv(c)' /\ StagingInv(c)'
    BY <1>1, <1>2, <1>3, <2>2 DEF Goes, FolderInv, StagingInv, Whole
  <2> QED
    BY <1>1, <1>2, <1>3, <2>2, <2>3, PdfQuiet
<1>4. CASE FolderBecomes(c, folder[c] \ {command[c].page}) /\ Pdf!AfterPage(c)
  <2> DEFINE content == folder[c] \ {command[c].page}
             pc == IF command[c].error # "none" \/ command[c].page = LastPage
                   THEN "cleaning" ELSE "rendering"
             page == IF command[c].page = LastPage THEN command[c].page
                     ELSE command[c].page + 1
             r == [command[c] EXCEPT !.pc = pc, !.page = page]
  <2>1. content \subseteq {0}
    BY <1>1, <1>2 DEF FolderInv
  <2>2. command' = [command EXCEPT ![c] = r]
    <3>1. DOMAIN command = Commands /\ DOMAIN command[c] = PdfFields
      BY <1>2 DEF PdfShape
    <3>2. [command[c] EXCEPT !.pc = pc].page = command[c].page
      BY <3>1 DEF PdfFields
    <3> QED
      BY <1>4, <3>1, <3>2 DEF Pdf!AfterPage
  <2>3. pc \in {"cleaning", "rendering"}
    OBVIOUS
  <2> HIDE DEF pc, page, content
  <2>4. folder'[c] = content /\ DOMAIN folder' = Commands
    BY <1>4, FolderIs DEF content
  <2>5. /\ DOMAIN r = PdfFields /\ r.pc = pc /\ r.error = command[c].error
        /\ r.document = command[c].document /\ r.page = page
    BY <1>2 DEF PdfShape, PdfFields
  <2> HIDE DEF r
  <2>6. Goes(c, r.pc, r.error, r.document, r.page)
    BY <1>2, <2>2, <2>4, <2>5, PdfUpdates
  <2>7. FolderInv(c)' /\ StagingInv(c)'
    BY <1>1, <1>2, <2>1, <2>3, <2>4, <2>5, <2>6 DEF Goes, FolderInv, StagingInv, Whole
  <2> QED
    BY <1>1, <1>2, <1>4, <2>6, <2>7, PdfFolder
<1> QED
  BY <1>1, <1>3, <1>4

LEMMA PdfCleanUp ==
  ASSUME PdfInv, NEW c \in Commands, Pdf!CleanUp(c)
  PROVE  PdfInv'
<1>1. command[c].pc = "cleaning" /\ UNCHANGED <<staging, target>>
  BY DEF Pdf!CleanUp, Pdf!At
<1>2. FolderInv(c) /\ StagingInv(c) /\ ~PublishedBy(c) /\ PdfShape
  BY <1>1 DEF PdfInv, PublishedBy
<1> DEFINE pc == IF command[c].error = "none" THEN "rewritten" ELSE "failed"
<1>3. CASE FolderBecomes(c, Gone) /\ Pdf!Goto(c, pc)
  <2>1. pc \in {"rewritten", "failed"} /\ (pc = "rewritten" => command[c].error = "none")
    OBVIOUS
  <2> HIDE DEF pc
  <2>2. folder'[c] = Gone /\ DOMAIN folder' = Commands
    BY <1>3, FolderIs
  <2>3. Goes(c, pc, command[c].error, command[c].document, command[c].page)
    BY <1>2, <1>3, <2>2, PdfGoto
  <2>4. FolderInv(c)' /\ StagingInv(c)'
    BY <1>1, <1>2, <2>1, <2>2, <2>3 DEF Goes, FolderInv, StagingInv, Whole
  <2> QED
    BY <1>1, <1>2, <1>3, <2>3, <2>4, PdfFolder
<1>4. ASSUME NEW left \in SUBSET folder[c], FolderBecomes(c, left),
             Pdf!Throw(c, "failed", "cleanup")
      PROVE  PdfInv'
  <2>1. folder'[c] = left /\ DOMAIN folder' = Commands
    BY <1>4, FolderIs
  <2>2. Goes(c, "failed", "cleanup", command[c].document, command[c].page)
    BY <1>2, <1>4, <2>1, PdfThrow
  <2>3. \E k : left \subseteq {0, k}
    BY <1>1, <1>2, <1>4 DEF FolderInv
  <2>4. FolderInv(c)' /\ StagingInv(c)'
    BY <1>1, <1>2, <2>1, <2>2, <2>3 DEF Goes, FolderInv, StagingInv, Whole
  <2> QED
    BY <1>1, <1>2, <1>4, <2>2, <2>4, PdfFolder
<1> QED
  BY <1>3, <1>4 DEF Pdf!CleanUp, FolderBecomes

-----------------------------------------------------------------------------
(* Publishing: only where nothing is, and what was read as a whole.        *)
LEMMA PdfStage ==
  ASSUME PdfInv, NEW c \in Commands, Pdf!Stage(c)
  PROVE  PdfInv'
<1>1. /\ command[c].pc = "rewritten" /\ staging' = staging \cup {c}
      /\ Pdf!Goto(c, "staged") /\ UNCHANGED <<folder, target>>
  BY DEF Pdf!Stage, Pdf!At
<1>2. FolderInv(c) /\ StagingInv(c) /\ ~PublishedBy(c) /\ PdfShape
  BY <1>1 DEF PdfInv, PublishedBy
<1>3. Goes(c, "staged", command[c].error, command[c].document, command[c].page)
  BY <1>1, <1>2, PdfGoto DEF PdfShape
<1>4. FolderInv(c)' /\ StagingInv(c)'
  BY <1>1, <1>2, <1>3 DEF Goes, FolderInv, StagingInv, Whole
<1>5. Elsewhere(c) /\ PdfShape'
  BY <1>1, <1>3 DEF Goes, Elsewhere
<1> QED
  BY <1>1, <1>2, <1>4, <1>5, PdfKeeps

LEMMA PdfPublish ==
  ASSUME PdfInv, NEW c \in Commands, Pdf!Publish(c)
  PROVE  PdfInv' /\ (target # NoDocument => target' = target)
<1>1. command[c].pc = "staged" /\ UNCHANGED <<folder, staging>>
  BY DEF Pdf!Publish, Pdf!At
<1>2. FolderInv(c) /\ StagingInv(c) /\ ~PublishedBy(c) /\ PdfShape
  BY <1>1 DEF PdfInv, PublishedBy
<1>3. CASE target = NoDocument
  <2> DEFINE document == command[c].document
  <2>1. target' = [by |-> c, document |-> document] /\ Pdf!Goto(c, "unstaging")
    BY <1>3 DEF Pdf!Publish
  <2>2. target'.by = c /\ target'.document = document
    BY <2>1
  <2>3. Goes(c, "unstaging", command[c].error, command[c].document, command[c].page)
    BY <1>1, <1>2, <2>1, PdfGoto DEF PdfShape
  <2>4. FolderInv(c)' /\ StagingInv(c)'
    BY <1>1, <1>2, <2>3 DEF Goes, FolderInv, StagingInv, Whole
  <2>5. PublishedBy(c)' /\ Whole(document)
    BY <1>1, <1>2, <2>3 DEF Goes, PublishedBy, StagingInv
  <2>6. TargetInv'
    BY <2>2, <2>5 DEF TargetInv, Whole, PublishedBy
  <2>7. \A d \in Commands \ {c} : FolderInv(d)' /\ StagingInv(d)'
    <3> TAKE d \in Commands \ {c}
    <3>1. command'[d] = command[d] /\ folder'[d] = folder[d] /\ (d \in staging' <=> d \in staging)
      BY <1>1, <2>3 DEF Goes
    <3>2. FolderInv(d) /\ StagingInv(d)
      BY DEF PdfInv
    <3>3. FolderInv(d)'
      BY <3>1, <3>2 DEF FolderInv
    <3>4. StagingInv(d)'
      BY <3>1, <3>2 DEF StagingInv, Whole
    <3> QED
      BY <3>3, <3>4
  <2>8. PdfInv'
    BY <2>3, <2>4, <2>6, <2>7 DEF PdfInv, Goes
  <2> QED
    BY <1>3, <2>8
<1>4. CASE target # NoDocument
  <2>1. Pdf!Throw(c, "unstaging", "exists") /\ target' = target
    BY <1>4 DEF Pdf!Publish
  <2>2. Goes(c, "unstaging", "exists", command[c].document, command[c].page)
    BY <1>1, <1>2, <2>1, PdfThrow DEF PdfShape
  <2>3. FolderInv(c)' /\ StagingInv(c)'
    BY <1>1, <1>2, <2>2 DEF Goes, FolderInv, StagingInv, Whole
  <2>4. PdfInv'
    BY <1>1, <1>2, <2>1, <2>2, <2>3, PdfQuiet
  <2> QED
    BY <2>1, <2>4
<1> QED
  BY <1>3, <1>4

LEMMA PdfUnstage ==
  ASSUME PdfInv, NEW c \in Commands, Pdf!Unstage(c)
  PROVE  PdfInv'
<1> DEFINE pc == IF command[c].error = "none" THEN "done" ELSE "failed"
<1>1. command[c].pc = "unstaging" /\ UNCHANGED <<folder, target>>
  BY DEF Pdf!Unstage, Pdf!At
<1>2. FolderInv(c) /\ StagingInv(c) /\ PdfShape /\ DOMAIN folder' = Commands
  BY <1>1 DEF PdfInv, PdfShape
<1>3. CASE staging' = staging \ {c} /\ Pdf!Goto(c, pc)
  <2>1. pc \in {"done", "failed"} /\ (command[c].error = "none" => pc = "done")
    OBVIOUS
  <2> HIDE DEF pc
  <2>2. Goes(c, pc, command[c].error, command[c].document, command[c].page)
    BY <1>2, <1>3, PdfGoto
  <2>3. FolderInv(c)' /\ StagingInv(c)'
    BY <1>1, <1>2, <1>3, <2>1, <2>2 DEF Goes, FolderInv, StagingInv
  <2>4. PublishedBy(c) => PublishedBy(c)'
    BY <1>1, <2>1, <2>2 DEF Goes, PublishedBy
  <2>5. Elsewhere(c) /\ PdfShape'
    BY <1>1, <1>3, <2>2 DEF Goes, Elsewhere
  <2> QED
    BY <1>1, <2>3, <2>4, <2>5, PdfKeeps
<1>4. CASE Pdf!Throw(c, "failed", "unstage") /\ staging' = staging
  <2>1. Goes(c, "failed", "unstage", command[c].document, command[c].page)
    BY <1>2, <1>4, PdfThrow
  <2>2. FolderInv(c)' /\ StagingInv(c)'
    BY <1>1, <1>2, <1>4, <2>1 DEF Goes, FolderInv, StagingInv
  <2>3. PublishedBy(c)'
    BY <1>1, <1>2, <1>4, <2>1 DEF Goes, PublishedBy, StagingInv
  <2> QED
    BY <1>1, <1>4, <2>1, <2>2, <2>3, PdfQuiet
<1> QED
  BY <1>3, <1>4 DEF Pdf!Unstage

LEMMA PdfInit ==
  ASSUME Pdf!Init
  PROVE  PdfInv
<1>1. /\ command = [c \in Commands |-> Pdf!Fresh] /\ folder = [c \in Commands |-> Gone]
      /\ staging = {} /\ target = NoDocument
  BY DEF Pdf!Init
<1>2. DOMAIN Pdf!Fresh = PdfFields /\ Pdf!Fresh.pc = "new"
  BY DEF Pdf!Fresh, PdfFields
<1>3. PdfShape /\ \A c \in Commands : command[c].pc = "new" /\ folder[c] = Gone
  BY <1>1, <1>2 DEF PdfShape
<1> QED
  BY <1>1, <1>3 DEF PdfInv, FolderInv, StagingInv, TargetInv

LEMMA PdfStep ==
  ASSUME PdfInv, [Pdf!Next]_pdfVars
  PROVE  PdfInv' /\ (target # NoDocument => target' = target)
<1>1. CASE UNCHANGED <<command, folder, staging, target>>
  BY <1>1 DEF PdfInv, PdfShape, FolderInv, StagingInv, TargetInv, Whole, PublishedBy
<1>2. ASSUME NEW c \in Commands,
             \/ Pdf!Preflight(c) \/ Pdf!OpenInput(c) \/ Pdf!ReadInput(c) \/ Pdf!AcceptInput(c)
             \/ Pdf!MakeFolder(c) \/ Pdf!WriteSource(c) \/ Pdf!Render(c) \/ Pdf!RenderFails(c)
             \/ Pdf!Recognize(c) \/ Pdf!RemovePage(c) \/ Pdf!CleanUp(c)
             \/ Pdf!Stage(c) \/ Pdf!Unstage(c) \/ Pdf!Fail(c) \/ Pdf!Kill(c)
      PROVE  PdfInv' /\ target' = target
  <2>1. target' = target
    BY <1>2 DEF Pdf!Preflight, Pdf!OpenInput, Pdf!ReadInput, Pdf!AcceptInput,
                Pdf!MakeFolder, Pdf!WriteSource, Pdf!Render, Pdf!RenderFails, Pdf!Recognize,
                Pdf!RemovePage, Pdf!CleanUp, Pdf!Stage, Pdf!Unstage, Pdf!Fail, Pdf!Kill,
                Pdf!fileVars
  <2>2. PdfInv'
    BY <1>2, PdfPreflight, PdfOpenInput, PdfReadInput, PdfAcceptInput, PdfMakeFolder,
       PdfWriteSource, PdfRender, PdfRecognize, PdfRemovePage, PdfCleanUp, PdfStage,
       PdfUnstage, PdfFail, PdfKill
  <2> QED
    BY <2>1, <2>2
<1>3. CASE \E n \in Nodes : Pdf!RenameOver(n) \/ \E s \in 0..MaxSize : Pdf!Resize(n, s)
  <2>1. UNCHANGED <<command, folder, staging, target>>
    BY <1>3 DEF Pdf!RenameOver, Pdf!Resize, Pdf!fileVars
  <2> QED
    BY <1>1, <2>1
<1>4. CASE UNCHANGED pdfVars
  <2>1. UNCHANGED <<command, folder, staging, target>>
    BY <1>4 DEF pdfVars
  <2> QED
    BY <1>1, <2>1
<1>5. CASE Pdf!Next
  BY <1>2, <1>3, <1>5, PdfPublish DEF Pdf!Next
<1> QED
  BY <1>4, <1>5

LEMMA PdfConfines ==
  ASSUME PdfInv
  PROVE  Pdf!PdfIsConfined
<1>1. Pdf!NothingIsLeftBehind
  BY DEF PdfInv, FolderInv, StagingInv, Pdf!NothingIsLeftBehind
<1>2. Pdf!OnePageAtATime
  <2> SUFFICES ASSUME NEW c \in Commands, folder[c] # Gone
               PROVE  Pdf!Cardinality(folder[c] \ {Pdf!Source}) <= 1
    BY DEF Pdf!OnePageAtATime
  <2>1. PICK k : folder[c] \subseteq {0, k}
    BY DEF PdfInv, FolderInv
  <2>2. folder[c] \ {Pdf!Source} = {} \/ folder[c] \ {Pdf!Source} = {k}
    BY <2>1 DEF Pdf!Source
  <2>3. Cardinality({}) = 0 /\ Cardinality({k}) = 1
    BY FS_EmptySet, FS_Singleton
  <2>4. Cardinality(folder[c] \ {Pdf!Source}) <= 1
    BY <2>2, <2>3
  <2> QED
    BY <2>4 DEF Cardinality, Pdf!Cardinality
<1>3. Pdf!PublishedIsWhole
  BY DEF PdfInv, TargetInv, PublishedBy, Whole, Pdf!PublishedIsWhole
<1> QED
  BY <1>1, <1>2, <1>3 DEF Pdf!PdfIsConfined

-----------------------------------------------------------------------------
(* The key beside a text: who may write to which file, and what a key's    *)
(* file holds at each step of its command.                                 *)
FileOf(readable, holds, whole) == [readable |-> readable, holds |-> holds, whole |-> whole]
NodeFields == {"readable", "holds", "whole"}

Reserved(c) == FileOf(FALSE, Key!Empty, TRUE)
HalfWritten(c) == FileOf(FALSE, Key!KeyOf(c), FALSE)
Written(c) == FileOf(FALSE, Key!KeyOf(c), TRUE)
Released(c) == FileOf(TRUE, Key!KeyOf(c), TRUE)
EmptiedOpen(c) == FileOf(TRUE, Key!Empty, TRUE)

KeyStates(c) == {Reserved(c), HalfWritten(c), Written(c), Released(c), EmptiedOpen(c)}

BeforeKey == {"new", "guarded", "reserved", "refused"}
BehindKey == {"readable", "opened", "truncated", "filling", "committed"}
WithText == {"truncated", "filling", "committed"}

KeyFileInv(c) ==
  LET f == file[Key!KeyOf(c)] IN
  /\ f \in KeyStates(c)
  /\ user[c].pc \in BeforeKey => f = Reserved(c)
  /\ user[c].pc = "writing" => f = HalfWritten(c)
  /\ user[c].pc = "written" => f = Written(c)
  /\ user[c].pc \in BehindKey => f = Released(c)
  /\ user[c].pc = "emptied" /\ c \notin botched => f \in {Reserved(c), EmptiedOpen(c)}
  /\ user[c].pc = "failed" /\ c \notin botched => f = Reserved(c)

OutNames(c) == {Key!KeyOf(c), Key!TextOf(c), Stranger}

DescriptorInv(c) ==
  /\ user[c].opened \in OutNames(c) \cup {NoNode} /\ outName[c] \in OutNames(c) \cup {NoNode}
  /\ user[c].pc \in BeforeKey \cup {"writing", "written", "readable"} =>
       user[c].opened = NoNode
  /\ user[c].pc = "opened" => user[c].opened \in OutNames(c)
  /\ user[c].pc \in WithText => user[c].opened \in {Key!TextOf(c), Stranger}

(* A whole text belongs to a command that committed it.                    *)
WholeText(n, c) == file[n].holds = Key!TextOf(c) /\ file[n].whole
TextsInv ==
  \A n \in Key!Files, c \in Users : WholeText(n, c) => user[c].pc = "committed"

KeyShape ==
  /\ DOMAIN user = Users /\ \A c \in Users : DOMAIN user[c] = {"pc", "opened"}
  /\ DOMAIN file = Key!Files /\ \A n \in Key!Files : DOMAIN file[n] = NodeFields
  /\ DOMAIN outName = Users

KeyInv ==
  /\ KeyShape /\ TextsInv /\ Key!StrangersStay
  /\ \A c \in Users : KeyFileInv(c) /\ DescriptorInv(c)

(* Which names are different.                                              *)
LEMMA Distinct ==
  ASSUME NEW c \in Users
  PROVE  /\ Key!KeyOf(c) \in Key!Files /\ Key!TextOf(c) \in Key!Files /\ Stranger \in Key!Files
         /\ Key!KeyOf(c) # Stranger /\ Key!TextOf(c) # Stranger /\ Key!TextOf(c) # Key!Empty
         /\ NoNode \notin OutNames(c)
         /\ \A d \in Users : Key!KeyOf(c) # Key!TextOf(d) /\ Key!TextOf(d) # Key!KeyOf(c)
         /\ \A d \in Users : d # c => Key!KeyOf(c) # Key!KeyOf(d) /\ Key!TextOf(c) # Key!TextOf(d)
<1>1. Key!KeyOf(c) \in Key!Files /\ Key!TextOf(c) \in Key!Files /\ Stranger \in Key!Files
  BY DEF Key!Files
<1>2. /\ Key!KeyOf(c) # Stranger /\ Key!TextOf(c) # Stranger /\ NoNode \notin OutNames(c)
  BY NodeAssumption DEF OutNames
<1>3. \A d \in Users : Key!KeyOf(c) # Key!TextOf(d) /\ Key!TextOf(d) # Key!KeyOf(c)
  BY DEF Key!KeyOf, Key!TextOf
<1>4. \A d \in Users : d # c => Key!KeyOf(c) # Key!KeyOf(d) /\ Key!TextOf(c) # Key!TextOf(d)
  BY DEF Key!KeyOf, Key!TextOf
<1>5. Key!TextOf(c) # Key!Empty
  <2>1. DOMAIN Key!TextOf(c) = {1, 2} /\ DOMAIN Key!Empty = {1}
    BY DEF Key!TextOf, Key!Empty
  <2> QED
    BY <2>1
<1> QED
  BY <1>1, <1>2, <1>3, <1>4, <1>5

(* No state of a key's file is that of a whole text.                       *)
LEMMA KeyIsNoText ==
  ASSUME NEW c \in Users, NEW f \in KeyStates(c), NEW d \in Users
  PROVE  f.holds # Key!TextOf(d)
<1>1. f.holds \in {Key!KeyOf(c), Key!Empty}
  BY DEF KeyStates, Reserved, HalfWritten, Written, Released, EmptiedOpen, FileOf
<1>2. Key!TextOf(d) # Key!KeyOf(c) /\ Key!TextOf(d) # Key!Empty
  BY Distinct
<1> QED
  BY <1>1, <1>2

-----------------------------------------------------------------------------
(* Steps of a command on its key's file, or on none                        *)
UserGoes(c, pc, opened) ==
  /\ DOMAIN user' = Users /\ \A d \in Users : DOMAIN user'[d] = {"pc", "opened"}
  /\ \A d \in Users \ {c} : user'[d] = user[d]
  /\ user'[c].pc = pc /\ user'[c].opened = opened

FileBecomes(n, f) ==
  /\ DOMAIN file' = Key!Files /\ \A m \in Key!Files : DOMAIN file'[m] = NodeFields
  /\ \A m \in Key!Files \ {n} : file'[m] = file[m]
  /\ file'[n] = f

LEMMA KeyGoto ==
  ASSUME KeyShape, NEW c \in Users, NEW pc, Key!Goto(c, pc)
  PROVE  UserGoes(c, pc, user[c].opened)
<1> DEFINE r == [user[c] EXCEPT !.pc = pc]
<1>1. user' = [user EXCEPT ![c] = r]
  BY DEF Key!Goto, KeyShape
<1>2. DOMAIN r = {"pc", "opened"} /\ r.pc = pc /\ r.opened = user[c].opened
  BY DEF KeyShape
<1> HIDE DEF r
<1>3. /\ DOMAIN user' = Users /\ user'[c] = r
      /\ \A d \in Users \ {c} : user'[d] = user[d]
  BY <1>1 DEF KeyShape
<1>4. \A d \in Users : DOMAIN user'[d] = {"pc", "opened"}
  BY <1>2, <1>3 DEF KeyShape
<1> QED
  BY <1>2, <1>3, <1>4 DEF UserGoes

LEMMA FileUpdates ==
  ASSUME KeyShape, NEW n \in Key!Files, NEW f, DOMAIN f = NodeFields,
         file' = [file EXCEPT ![n] = f]
  PROVE  FileBecomes(n, f)
<1>1. DOMAIN file' = Key!Files /\ file'[n] = f /\ \A m \in Key!Files \ {n} : file'[m] = file[m]
  BY DEF KeyShape
<1>2. \A m \in Key!Files : DOMAIN file'[m] = NodeFields
  BY <1>1 DEF KeyShape
<1> QED
  BY <1>1, <1>2 DEF FileBecomes

(* Strangers' files are untouched when nobody could have opened one.       *)
LEMMA StrangerKept ==
  ASSUME KeyInv, NEW c \in Users, NEW pc, NEW opened, UserGoes(c, pc, opened),
         user[c].opened = Stranger => opened = Stranger,
         opened # Stranger => file'[Stranger] = file[Stranger]
  PROVE  Key!StrangersStay'
<1> SUFFICES ASSUME \A d \in Users : user'[d].opened # Stranger
             PROVE  file'[Stranger] = Key!Holding(Stranger, TRUE)
  BY DEF Key!StrangersStay, Key!Holding
<1>1. opened # Stranger
  BY DEF UserGoes
<1>2. \A d \in Users : user[d].opened # Stranger
  BY <1>1 DEF UserGoes
<1>3. file[Stranger] = Key!Holding(Stranger, TRUE)
  BY <1>2 DEF KeyInv, Key!StrangersStay
<1> QED
  BY <1>1, <1>3

LEMMA KeyStep ==
  ASSUME KeyInv, NEW c \in Users, NEW pc, UserGoes(c, pc, user[c].opened),
         NEW f, FileBecomes(Key!KeyOf(c), f), outName' = outName,
         \A d \in Users \ {c} : d \in botched' <=> d \in botched,
         user[c].pc # "committed", KeyFileInv(c)', DescriptorInv(c)'
  PROVE  KeyInv'
<1>1. KeyShape'
  BY DEF KeyInv, KeyShape, UserGoes, FileBecomes
<1>2. \A n \in Key!Files \ {Key!KeyOf(c)} : file'[n] = file[n]
  BY DEF FileBecomes
<1>3. \A d \in Users \ {c} : user'[d] = user[d] /\ file'[Key!KeyOf(d)] = file[Key!KeyOf(d)]
  BY <1>2, Distinct DEF UserGoes
<1>4. \A d \in Users \ {c} : KeyFileInv(d)' /\ DescriptorInv(d)'
  <2> TAKE d \in Users \ {c}
  <2>1. /\ user'[d] = user[d] /\ file'[Key!KeyOf(d)] = file[Key!KeyOf(d)]
        /\ outName'[d] = outName[d]
        /\ (d \in botched' <=> d \in botched)
    BY <1>3
  <2>2. KeyFileInv(d) /\ DescriptorInv(d)
    BY DEF KeyInv
  <2>3. KeyFileInv(d)'
    BY <2>1, <2>2 DEF KeyFileInv, KeyStates, Reserved, HalfWritten, Written, Released,
                      EmptiedOpen
  <2>4. DescriptorInv(d)'
    BY <2>1, <2>2 DEF DescriptorInv, OutNames
  <2> QED
    BY <2>3, <2>4
<1>5. TextsInv'
  <2> SUFFICES ASSUME NEW n \in Key!Files, NEW d \in Users, WholeText(n, d)'
               PROVE  user'[d].pc = "committed"
    BY DEF TextsInv, Key!Files
  <2>1. n # Key!KeyOf(c)
    <3>1. file'[Key!KeyOf(c)] \in KeyStates(c)
      BY DEF KeyFileInv
    <3>2. file'[Key!KeyOf(c)].holds # Key!TextOf(d)
      BY <3>1, KeyIsNoText
    <3> QED
      BY <3>2 DEF WholeText
  <2>2. WholeText(n, d)
    BY <1>2, <2>1 DEF WholeText
  <2>3. user[d].pc = "committed" /\ d # c
    BY <2>2 DEF KeyInv, TextsInv
  <2> QED
    BY <1>3, <2>3
<1>6. Key!StrangersStay'
  <2>1. file'[Stranger] = file[Stranger]
    BY <1>2, Distinct
  <2> QED
    BY <2>1, StrangerKept
<1> QED
  BY <1>1, <1>4, <1>5, <1>6 DEF KeyInv

-----------------------------------------------------------------------------
(* The steps of a command on its own key                                   *)

(* What a file becomes when its fields are set.                            *)
LEMMA FileFills ==
  ASSUME NEW f, DOMAIN f = NodeFields, NEW holds, NEW whole
  PROVE  [f EXCEPT !.holds = holds, !.whole = whole] = FileOf(f.readable, holds, whole)
<1> DEFINE r == [f EXCEPT !.holds = holds, !.whole = whole]
           s == FileOf(f.readable, holds, whole)
<1>1. r = [i \in DOMAIN r |-> r[i]] /\ s = [i \in DOMAIN s |-> s[i]]
  BY DEF FileOf
<1>2. DOMAIN r = NodeFields /\ DOMAIN s = NodeFields
  BY DEF FileOf, NodeFields
<1>3. \A i \in NodeFields : r[i] = s[i]
  <2>1. r["holds"] = holds /\ r["whole"] = whole /\ r["readable"] = f["readable"]
    BY DEF NodeFields
  <2>2. s["holds"] = holds /\ s["whole"] = whole /\ s["readable"] = f["readable"]
    BY DEF FileOf
  <2> QED
    BY <2>1, <2>2 DEF NodeFields
<1> HIDE DEF r, s
<1>4. r = s
  BY <1>1, <1>2, <1>3
<1> QED
  BY <1>4 DEF r, s

LEMMA FileOpens ==
  ASSUME NEW f, DOMAIN f = NodeFields, NEW on
  PROVE  [f EXCEPT !.readable = on] = FileOf(on, f.holds, f.whole)
<1> DEFINE r == [f EXCEPT !.readable = on]
           s == FileOf(on, f.holds, f.whole)
<1>1. r = [i \in DOMAIN r |-> r[i]] /\ s = [i \in DOMAIN s |-> s[i]]
  BY DEF FileOf
<1>2. DOMAIN r = NodeFields /\ DOMAIN s = NodeFields
  BY DEF FileOf, NodeFields
<1>3. \A i \in NodeFields : r[i] = s[i]
  BY DEF FileOf, NodeFields
<1> HIDE DEF r, s
<1>4. r = s
  BY <1>1, <1>2, <1>3
<1> QED
  BY <1>4 DEF r, s

LEMMA KeyFileFields ==
  ASSUME NEW c, NEW f \in KeyStates(c)
  PROVE  /\ DOMAIN f = NodeFields
         /\ FileOf(FALSE, f.holds, f.whole) \in {Reserved(c), HalfWritten(c), Written(c)}
         /\ FileOf(f.readable, Key!Empty, TRUE) \in {Reserved(c), EmptiedOpen(c)}
<1>1. PICK r, h, w : /\ f = FileOf(r, h, w)
                     /\ r \in BOOLEAN
                     /\ <<h, w>> \in {<<Key!Empty, TRUE>>, <<Key!KeyOf(c), TRUE>>,
                                      <<Key!KeyOf(c), FALSE>>}
  BY DEF KeyStates, Reserved, HalfWritten, Written, Released, EmptiedOpen
<1>2. f.readable = r /\ f.holds = h /\ f.whole = w /\ DOMAIN f = NodeFields
  BY <1>1 DEF FileOf, NodeFields
<1>3. FileOf(FALSE, h, w) \in {Reserved(c), HalfWritten(c), Written(c)}
  BY <1>1 DEF Reserved, HalfWritten, Written
<1>4. FileOf(r, Key!Empty, TRUE) \in {Reserved(c), EmptiedOpen(c)}
  BY <1>1 DEF Reserved, EmptiedOpen
<1> QED
  BY <1>2, <1>3, <1>4

LEMMA KeyFill ==
  ASSUME KeyInv, NEW c \in Users, NEW holds, NEW whole, Key!Fill(Key!KeyOf(c), holds, whole)
  PROVE  FileBecomes(Key!KeyOf(c), FileOf(file[Key!KeyOf(c)].readable, holds, whole))
<1> DEFINE n == Key!KeyOf(c)
           f == file[n]
           r == [f EXCEPT !.holds = holds, !.whole = whole]
<1>1. n \in Key!Files /\ DOMAIN f = NodeFields /\ KeyShape
  BY Distinct DEF KeyInv, KeyShape
<1>2. file' = [file EXCEPT ![n] = r]
  BY <1>1 DEF Key!Fill, KeyShape
<1>3. r = FileOf(f.readable, holds, whole)
  BY <1>1, FileFills
<1>4. DOMAIN FileOf(f.readable, holds, whole) = NodeFields
  BY DEF FileOf, NodeFields
<1> HIDE DEF n, f, r
<1>5. FileBecomes(n, FileOf(f.readable, holds, whole))
  BY <1>1, <1>2, <1>3, <1>4, FileUpdates
<1> QED
  BY <1>5 DEF n, f

LEMMA KeyOpens ==
  ASSUME KeyInv, NEW c \in Users, NEW on,
         file' = [file EXCEPT ![Key!KeyOf(c)].readable = on]
  PROVE  FileBecomes(Key!KeyOf(c),
                     FileOf(on, file[Key!KeyOf(c)].holds, file[Key!KeyOf(c)].whole))
<1> DEFINE n == Key!KeyOf(c)
           f == file[n]
           r == [f EXCEPT !.readable = on]
<1>1. n \in Key!Files /\ DOMAIN f = NodeFields /\ KeyShape
  BY Distinct DEF KeyInv, KeyShape
<1>2. file' = [file EXCEPT ![n] = r]
  BY <1>1 DEF KeyShape
<1>3. r = FileOf(on, f.holds, f.whole)
  BY <1>1, FileOpens
<1>4. DOMAIN FileOf(on, f.holds, f.whole) = NodeFields
  BY DEF FileOf, NodeFields
<1> HIDE DEF n, f, r
<1>5. FileBecomes(n, FileOf(on, f.holds, f.whole))
  BY <1>1, <1>2, <1>3, <1>4, FileUpdates
<1> QED
  BY <1>5 DEF n, f

LEMMA KeyStays ==
  ASSUME KeyInv, NEW c \in Users, UNCHANGED file
  PROVE  FileBecomes(Key!KeyOf(c), file[Key!KeyOf(c)])
BY DEF KeyInv, KeyShape, FileBecomes

(* A command's file and descriptor, from where it goes.                    *)
KeyAt(c, pc, f, isBotched) ==
  /\ f \in KeyStates(c)
  /\ pc \in BeforeKey => f = Reserved(c)
  /\ pc = "writing" => f = HalfWritten(c)
  /\ pc = "written" => f = Written(c)
  /\ pc \in BehindKey => f = Released(c)
  /\ pc = "emptied" /\ ~isBotched => f \in {Reserved(c), EmptiedOpen(c)}
  /\ pc = "failed" /\ ~isBotched => f = Reserved(c)

DescriptorAt(c, pc, opened) ==
  /\ opened \in OutNames(c) \cup {NoNode}
  /\ pc \in BeforeKey \cup {"writing", "written", "readable"} => opened = NoNode
  /\ pc = "opened" => opened \in OutNames(c)
  /\ pc \in WithText => opened \in {Key!TextOf(c), Stranger}

LEMMA KeyAtNow ==
  ASSUME KeyInv, NEW c \in Users
  PROVE  /\ KeyAt(c, user[c].pc, file[Key!KeyOf(c)], c \in botched)
         /\ DescriptorAt(c, user[c].pc, user[c].opened)
         /\ outName[c] \in OutNames(c) \cup {NoNode}
         /\ file[Key!KeyOf(c)] \in KeyStates(c)
         /\ user[c].opened \in OutNames(c) \cup {NoNode}
<1>1. KeyFileInv(c) /\ DescriptorInv(c)
  BY DEF KeyInv
<1> QED
  BY <1>1 DEF KeyFileInv, DescriptorInv, KeyAt, DescriptorAt

(* The step of a command that leaves its output alone.                     *)
LEMMA KeyMoves ==
  ASSUME KeyInv, NEW c \in Users, NEW pc, Key!Goto(c, pc),
         NEW f, FileBecomes(Key!KeyOf(c), f), outName' = outName,
         \A d \in Users \ {c} : d \in botched' <=> d \in botched,
         user[c].pc # "committed",
         KeyAt(c, pc, f, c \in botched'), DescriptorAt(c, pc, user[c].opened)
  PROVE  KeyInv'
<1>1. UserGoes(c, pc, user[c].opened)
  BY KeyGoto DEF KeyInv
<1>2. user'[c].pc = pc /\ user'[c].opened = user[c].opened /\ file'[Key!KeyOf(c)] = f
  BY <1>1 DEF UserGoes, FileBecomes
<1>3. KeyFileInv(c)'
  BY <1>2 DEF KeyFileInv, KeyAt, KeyStates, Reserved, HalfWritten, Written, Released, EmptiedOpen
<1>4. outName'[c] \in OutNames(c) \cup {NoNode}
  BY KeyAtNow
<1>5. DescriptorInv(c)'
  BY <1>2, <1>4 DEF DescriptorInv, DescriptorAt, OutNames
<1> QED
  BY <1>1, <1>3, <1>5, KeyStep

LEMMA KeyGuard ==
  ASSUME KeyInv, NEW c \in Users, Key!Guard(c)
  PROVE  KeyInv'
<1>1. FileBecomes(Key!KeyOf(c), file[Key!KeyOf(c)])
  BY KeyStays DEF Key!Guard
<1>2. user[c].pc = "new" /\ Key!Goto(c, "guarded") /\ outName' = outName /\ botched' = botched
  BY DEF Key!Guard, Key!At, Key!names
<1>3. KeyAt(c, "guarded", file[Key!KeyOf(c)], c \in botched')
  BY <1>2, KeyAtNow DEF KeyAt, BeforeKey, BehindKey
<1>4. DescriptorAt(c, "guarded", user[c].opened)
  BY <1>2, KeyAtNow DEF DescriptorAt, BeforeKey, WithText
<1> QED
  BY <1>1, <1>2, <1>3, <1>4, KeyMoves

LEMMA KeyReserve ==
  ASSUME KeyInv, NEW c \in Users, Key!Reserve(c)
  PROVE  KeyInv'
<1>1. FileBecomes(Key!KeyOf(c), file[Key!KeyOf(c)])
  BY KeyStays DEF Key!Reserve
<1>2. PICK pc \in {"reserved", "refused"} : Key!Goto(c, pc)
  BY DEF Key!Reserve
<1>3. user[c].pc = "guarded" /\ outName' = outName /\ botched' = botched
  BY DEF Key!Reserve, Key!At
<1>4. KeyAt(c, pc, file[Key!KeyOf(c)], c \in botched')
  BY <1>2, <1>3, KeyAtNow DEF KeyAt, BeforeKey, BehindKey
<1>5. DescriptorAt(c, pc, user[c].opened)
  BY <1>2, <1>3, KeyAtNow DEF DescriptorAt, BeforeKey, WithText
<1> QED
  BY <1>1, <1>2, <1>3, <1>4, <1>5, KeyMoves

LEMMA KeyWrite ==
  ASSUME KeyInv, NEW c \in Users, Key!WriteKey(c)
  PROVE  KeyInv'
<1>1. outName' = outName /\ botched' = botched
  BY DEF Key!WriteKey, Key!names
<1>2. KeyAt(c, user[c].pc, file[Key!KeyOf(c)], c \in botched)
      /\ DescriptorAt(c, user[c].pc, user[c].opened)
  BY KeyAtNow
<1>3. CASE /\ user[c].pc = "reserved" /\ Key!Goto(c, "writing")
           /\ Key!Fill(Key!KeyOf(c), Key!KeyOf(c), FALSE)
  <2>1. file[Key!KeyOf(c)].readable = FALSE
    BY <1>2, <1>3 DEF KeyAt, BeforeKey, Reserved, FileOf
  <2>2. FileBecomes(Key!KeyOf(c), HalfWritten(c))
    BY <1>3, <2>1, KeyFill DEF HalfWritten
  <2>3. KeyAt(c, "writing", HalfWritten(c), c \in botched')
    BY DEF KeyAt, BeforeKey, BehindKey, KeyStates
  <2>4. DescriptorAt(c, "writing", user[c].opened)
    BY <1>2, <1>3 DEF DescriptorAt, BeforeKey, WithText
  <2> QED
    BY <1>1, <1>3, <2>2, <2>3, <2>4, KeyMoves
<1>4. CASE /\ user[c].pc = "writing" /\ Key!Goto(c, "written")
           /\ Key!Fill(Key!KeyOf(c), Key!KeyOf(c), TRUE)
  <2>1. file[Key!KeyOf(c)].readable = FALSE
    BY <1>2, <1>4 DEF KeyAt, HalfWritten, FileOf
  <2>2. FileBecomes(Key!KeyOf(c), Written(c))
    BY <1>4, <2>1, KeyFill DEF Written
  <2>3. KeyAt(c, "written", Written(c), c \in botched')
    BY DEF KeyAt, BeforeKey, BehindKey, KeyStates
  <2>4. DescriptorAt(c, "written", user[c].opened)
    BY <1>2, <1>4 DEF DescriptorAt, BeforeKey, WithText
  <2> QED
    BY <1>1, <1>4, <2>2, <2>3, <2>4, KeyMoves
<1> QED
  BY <1>3, <1>4 DEF Key!WriteKey, Key!At

LEMMA KeyRelease ==
  ASSUME KeyInv, NEW c \in Users, Key!Release(c)
  PROVE  KeyInv'
<1>1. /\ outName' = outName /\ botched' = botched
      /\ user[c].pc = "written" /\ Key!Goto(c, "readable")
      /\ file' = [file EXCEPT ![Key!KeyOf(c)].readable = TRUE]
  BY DEF Key!Release, Key!names, Key!At
<1>2. KeyAt(c, user[c].pc, file[Key!KeyOf(c)], c \in botched)
      /\ DescriptorAt(c, user[c].pc, user[c].opened)
  BY KeyAtNow
<1>3. file[Key!KeyOf(c)].holds = Key!KeyOf(c) /\ file[Key!KeyOf(c)].whole = TRUE
  BY <1>1, <1>2 DEF KeyAt, Written, FileOf
<1>4. FileBecomes(Key!KeyOf(c), Released(c))
  BY <1>1, <1>3, KeyOpens DEF Released
<1>5. KeyAt(c, "readable", Released(c), c \in botched')
  BY DEF KeyAt, BeforeKey, BehindKey, KeyStates
<1>6. DescriptorAt(c, "readable", user[c].opened)
  BY <1>1, <1>2 DEF DescriptorAt, BeforeKey, WithText
<1> QED
  BY <1>1, <1>4, <1>5, <1>6, KeyMoves

(* Where a command that fails or is killed leaves its file alone.          *)
LEMMA KeyStops ==
  ASSUME KeyInv, NEW c \in Users, NEW pc \in {"failing", "killed"}, Key!Goto(c, pc),
         UNCHANGED file, UNCHANGED outName, UNCHANGED botched, user[c].pc # "committed"
  PROVE  KeyInv'
<1>1. FileBecomes(Key!KeyOf(c), file[Key!KeyOf(c)])
  BY KeyStays
<1>2. KeyAt(c, pc, file[Key!KeyOf(c)], c \in botched')
  BY KeyAtNow DEF KeyAt, BeforeKey, BehindKey
<1>3. DescriptorAt(c, pc, user[c].opened)
  BY KeyAtNow DEF DescriptorAt, BeforeKey, WithText
<1> QED
  BY <1>1, <1>2, <1>3, KeyMoves

LEMMA KeyFail ==
  ASSUME KeyInv, NEW c \in Users, Key!Fail(c) \/ Key!Kill(c)
  PROVE  KeyInv'
<1>1. PICK pc \in {"failing", "killed"} : Key!Goto(c, pc)
  BY DEF Key!Fail, Key!Kill
<1>2. /\ user[c].pc # "committed"
      /\ UNCHANGED file /\ UNCHANGED outName /\ UNCHANGED botched
  BY DEF Key!Fail, Key!Kill, Key!names
<1> QED
  BY <1>1, <1>2, KeyStops

LEMMA KeyEmpty ==
  ASSUME KeyInv, NEW c \in Users, Key!EmptyKey(c)
  PROVE  KeyInv'
<1>1. outName' = outName /\ user[c].pc = "failing" /\ Key!Goto(c, "emptied")
  BY DEF Key!EmptyKey, Key!names, Key!At
<1>2. DescriptorAt(c, "emptied", user[c].opened)
  BY KeyAtNow DEF DescriptorAt, BeforeKey, WithText
<1>3. CASE Key!Fill(Key!KeyOf(c), Key!Empty, TRUE) /\ UNCHANGED botched
  <2> DEFINE f == FileOf(file[Key!KeyOf(c)].readable, Key!Empty, TRUE)
  <2>1. FileBecomes(Key!KeyOf(c), f)
    BY <1>3, KeyFill
  <2>2. f \in {Reserved(c), EmptiedOpen(c)}
    BY KeyAtNow, KeyFileFields
  <2>3. KeyAt(c, "emptied", f, c \in botched')
    BY <2>2 DEF KeyAt, BeforeKey, BehindKey, KeyStates
  <2> HIDE DEF f
  <2> QED
    BY <1>1, <1>2, <1>3, <2>1, <2>3, KeyMoves
<1>4. CASE Key!Botch(c)
  <2>1. UNCHANGED file /\ botched' = botched \cup {c}
    BY <1>4 DEF Key!Botch
  <2>2. FileBecomes(Key!KeyOf(c), file[Key!KeyOf(c)])
    BY <2>1, KeyStays
  <2>3. KeyAt(c, "emptied", file[Key!KeyOf(c)], c \in botched')
    BY <2>1, KeyAtNow DEF KeyAt, BeforeKey, BehindKey
  <2> QED
    BY <1>1, <1>2, <2>1, <2>2, <2>3, KeyMoves
<1> QED
  BY <1>3, <1>4 DEF Key!EmptyKey

LEMMA KeyHide ==
  ASSUME KeyInv, NEW c \in Users, Key!HideKey(c)
  PROVE  KeyInv'
<1>1. outName' = outName /\ user[c].pc = "emptied" /\ Key!Goto(c, "failed")
  BY DEF Key!HideKey, Key!names, Key!At
<1>2. DescriptorAt(c, "failed", user[c].opened)
  BY KeyAtNow DEF DescriptorAt, BeforeKey, WithText
<1>3. CASE file' = [file EXCEPT ![Key!KeyOf(c)].readable = FALSE] /\ UNCHANGED botched
  <2> DEFINE f == file[Key!KeyOf(c)]
             g == FileOf(FALSE, f.holds, f.whole)
  <2>1. FileBecomes(Key!KeyOf(c), g)
    BY <1>3, KeyOpens
  <2>2. g \in KeyStates(c)
    BY KeyAtNow, KeyFileFields DEF KeyStates
  <2>3. c \notin botched => g = Reserved(c)
    <3>1. c \notin botched => f.holds = Key!Empty /\ f.whole = TRUE
      BY <1>1, KeyAtNow DEF KeyAt, Reserved, EmptiedOpen, FileOf
    <3> QED
      BY <3>1 DEF Reserved
  <2> HIDE DEF f, g
  <2>4. KeyAt(c, "failed", g, c \in botched')
    BY <1>3, <2>2, <2>3 DEF KeyAt, BeforeKey, BehindKey
  <2> QED
    BY <1>1, <1>2, <1>3, <2>1, <2>4, KeyMoves
<1>4. CASE Key!Botch(c)
  <2>1. UNCHANGED file /\ botched' = botched \cup {c}
    BY <1>4 DEF Key!Botch
  <2>2. FileBecomes(Key!KeyOf(c), file[Key!KeyOf(c)])
    BY <2>1, KeyStays
  <2>3. KeyAt(c, "failed", file[Key!KeyOf(c)], c \in botched')
    BY <2>1, KeyAtNow DEF KeyAt, BeforeKey, BehindKey
  <2> QED
    BY <1>1, <1>2, <2>1, <2>2, <2>3, KeyMoves
<1> QED
  BY <1>3, <1>4 DEF Key!HideKey

-----------------------------------------------------------------------------
(* The steps of a command on its output, and those of others               *)
LEMMA OutputMoves ==
  ASSUME KeyInv, NEW c \in Users, NEW pc, NEW opened, UserGoes(c, pc, opened),
         NEW m \in {Key!TextOf(c), Stranger}, NEW f, FileBecomes(m, f),
         \A d \in Users : f.holds = Key!TextOf(d) /\ f.whole => user'[d].pc = "committed",
         DOMAIN outName' = Users, outName'[c] \in OutNames(c) \cup {NoNode},
         \A d \in Users \ {c} : outName'[d] = outName[d],
         botched' = botched, user[c].pc # "committed" \/ pc = "committed",
         m = Stranger => opened = Stranger \/ f = file[Stranger],
         user[c].opened = Stranger => opened = Stranger,
         KeyAt(c, pc, file[Key!KeyOf(c)], c \in botched), DescriptorAt(c, pc, opened)
  PROVE  KeyInv'
<1>1. KeyShape'
  BY DEF KeyInv, KeyShape, UserGoes, FileBecomes
<1>2. \A n \in Key!Files \ {m} : file'[n] = file[n]
  BY DEF FileBecomes
<1>3. \A d \in Users : file'[Key!KeyOf(d)] = file[Key!KeyOf(d)]
  BY <1>2, Distinct
<1>4. \A d \in Users \ {c} : KeyFileInv(d)' /\ DescriptorInv(d)'
  <2> TAKE d \in Users \ {c}
  <2>1. /\ user'[d] = user[d] /\ file'[Key!KeyOf(d)] = file[Key!KeyOf(d)]
        /\ outName'[d] = outName[d] /\ (d \in botched' <=> d \in botched)
    BY <1>3 DEF UserGoes
  <2>2. KeyFileInv(d) /\ DescriptorInv(d)
    BY DEF KeyInv
  <2>3. KeyFileInv(d)'
    BY <2>1, <2>2 DEF KeyFileInv, KeyStates, Reserved, HalfWritten, Written, Released,
                      EmptiedOpen
  <2>4. DescriptorInv(d)'
    BY <2>1, <2>2 DEF DescriptorInv, OutNames
  <2> QED
    BY <2>3, <2>4
<1>5. KeyFileInv(c)' /\ DescriptorInv(c)'
  <2>1. /\ user'[c].pc = pc /\ user'[c].opened = opened
        /\ file'[Key!KeyOf(c)] = file[Key!KeyOf(c)]
    BY <1>3 DEF UserGoes
  <2>2. KeyFileInv(c)'
    BY <2>1 DEF KeyFileInv, KeyAt, KeyStates, Reserved, HalfWritten, Written, Released,
                EmptiedOpen
  <2>3. DescriptorInv(c)'
    BY <2>1 DEF DescriptorInv, DescriptorAt, OutNames
  <2> QED
    BY <2>2, <2>3
<1>6. TextsInv'
  <2> SUFFICES ASSUME NEW n \in Key!Files, NEW d \in Users, WholeText(n, d)'
               PROVE  user'[d].pc = "committed"
    BY DEF TextsInv, Key!Files
  <2>1. CASE n = m
    BY <2>1 DEF WholeText, FileBecomes
  <2>2. CASE n # m
    <3>1. WholeText(n, d)
      BY <1>2, <2>2 DEF WholeText
    <3>2. user[d].pc = "committed"
      BY <3>1 DEF KeyInv, TextsInv
    <3> QED
      BY <3>2 DEF UserGoes
  <2> QED
    BY <2>1, <2>2
<1>7. Key!StrangersStay'
  <2>1. opened # Stranger => file'[Stranger] = file[Stranger]
    <3>1. CASE m = Stranger
      BY <3>1 DEF FileBecomes
    <3>2. CASE m # Stranger
      BY <1>2, <3>2, Distinct
    <3> QED
      BY <3>1, <3>2
  <2> QED
    BY <2>1, StrangerKept
<1> QED
  BY <1>1, <1>4, <1>5, <1>6, <1>7 DEF KeyInv

(* What the output's file becomes.                                         *)
LEMMA TextFill ==
  ASSUME KeyInv, NEW m \in Key!Files, NEW holds, NEW whole, Key!Fill(m, holds, whole)
  PROVE  FileBecomes(m, FileOf(file[m].readable, holds, whole))
<1> DEFINE f == file[m]
           r == [f EXCEPT !.holds = holds, !.whole = whole]
<1>1. DOMAIN f = NodeFields /\ KeyShape
  BY DEF KeyInv, KeyShape
<1>2. file' = [file EXCEPT ![m] = r]
  BY <1>1 DEF Key!Fill, KeyShape
<1>3. r = FileOf(f.readable, holds, whole)
  BY <1>1, FileFills
<1>4. DOMAIN FileOf(f.readable, holds, whole) = NodeFields
  BY DEF FileOf, NodeFields
<1> HIDE DEF f, r
<1>5. FileBecomes(m, FileOf(f.readable, holds, whole))
  BY <1>1, <1>2, <1>3, <1>4, FileUpdates
<1> QED
  BY <1>5 DEF f

LEMMA KeyWriteText ==
  ASSUME KeyInv, NEW c \in Users, Key!WriteText(c)
  PROVE  KeyInv'
<1> DEFINE m == user[c].opened
<1>1. outName' = outName /\ botched' = botched
  BY DEF Key!WriteText, Key!names
<1>2. PICK pc \in {"filling", "committed"}, whole \in BOOLEAN :
        /\ Key!Goto(c, pc) /\ Key!Fill(m, Key!TextOf(c), whole)
        /\ user[c].pc \in {"truncated", "filling"} /\ (whole => pc = "committed")
  BY DEF Key!WriteText, Key!At
<1>3. m \in {Key!TextOf(c), Stranger} /\ m \in Key!Files
  BY <1>2, KeyAtNow, Distinct DEF DescriptorAt, WithText
<1> DEFINE f == FileOf(file[m].readable, Key!TextOf(c), whole)
<1>4. FileBecomes(m, f)
  BY <1>2, <1>3, TextFill
<1>5. UserGoes(c, pc, m)
  BY <1>2, KeyGoto DEF KeyInv
<1>6. \A d \in Users : f.holds = Key!TextOf(d) /\ f.whole => user'[d].pc = "committed"
  <2> SUFFICES ASSUME NEW d \in Users, f.holds = Key!TextOf(d), f.whole
               PROVE  user'[d].pc = "committed"
    OBVIOUS
  <2>1. Key!TextOf(d) = Key!TextOf(c) /\ whole
    BY DEF FileOf
  <2>2. d = c
    BY <2>1, Distinct
  <2> QED
    BY <1>2, <1>5, <2>1, <2>2 DEF UserGoes
<1>7. KeyAt(c, pc, file[Key!KeyOf(c)], c \in botched)
  BY <1>2, KeyAtNow DEF KeyAt, BeforeKey, BehindKey
<1>8. DescriptorAt(c, pc, m)
  BY <1>2, <1>3 DEF DescriptorAt, BeforeKey, WithText, OutNames
<1>9. /\ DOMAIN outName' = Users /\ outName'[c] \in OutNames(c) \cup {NoNode}
      /\ \A d \in Users \ {c} : outName'[d] = outName[d]
  BY <1>1, KeyAtNow DEF KeyInv, KeyShape
<1>10. user[c].pc # "committed"
  BY <1>2
<1> HIDE DEF m, f
<1>11. m = user[c].opened
  BY DEF m
<1> QED
  BY <1>1, <1>3, <1>4, <1>5, <1>6, <1>7, <1>8, <1>9, <1>10, <1>11, OutputMoves

LEMMA KeyTruncate ==
  ASSUME KeyInv, NEW c \in Users, Key!Truncate(c)
  PROVE  KeyInv'
<1> DEFINE m == user[c].opened
<1>1. outName' = outName /\ botched' = botched /\ user[c].pc = "opened"
  BY DEF Key!Truncate, Key!names, Key!At
<1>2. CASE m = Key!KeyOf(c)
  <2>1. Key!Goto(c, "failing") /\ UNCHANGED file
    BY <1>2 DEF Key!Truncate
  <2> QED
    BY <1>1, <2>1, KeyStops
<1>3. CASE m # Key!KeyOf(c)
  <2>1. Key!Goto(c, "truncated") /\ Key!Fill(m, Key!Empty, TRUE)
    BY <1>3 DEF Key!Truncate
  <2>2. m \in {Key!TextOf(c), Stranger} /\ m \in Key!Files
    BY <1>1, <1>3, KeyAtNow, Distinct DEF DescriptorAt, OutNames
  <2> DEFINE f == FileOf(file[m].readable, Key!Empty, TRUE)
  <2>3. FileBecomes(m, f)
    BY <2>1, <2>2, TextFill
  <2>4. UserGoes(c, "truncated", m)
    BY <2>1, KeyGoto DEF KeyInv
  <2>5. \A d \in Users : f.holds # Key!TextOf(d)
    BY Distinct DEF FileOf
  <2>6. KeyAt(c, "truncated", file[Key!KeyOf(c)], c \in botched)
    BY <1>1, KeyAtNow DEF KeyAt, BeforeKey, BehindKey
  <2>7. DescriptorAt(c, "truncated", m)
    BY <2>2 DEF DescriptorAt, BeforeKey, WithText, OutNames
  <2>8. /\ DOMAIN outName' = Users /\ outName'[c] \in OutNames(c) \cup {NoNode}
        /\ \A d \in Users \ {c} : outName'[d] = outName[d]
    BY <1>1, KeyAtNow DEF KeyInv, KeyShape
  <2>9. user[c].pc # "committed" /\ m = user[c].opened
    BY <1>1
  <2> HIDE DEF m, f
  <2> QED
    BY <1>1, <2>2, <2>3, <2>4, <2>5, <2>6, <2>7, <2>8, <2>9, OutputMoves
<1> QED
  BY <1>2, <1>3

LEMMA KeyOpenOutput ==
  ASSUME KeyInv, NEW c \in Users, Key!OpenOutput(c)
  PROVE  KeyInv'
<1> DEFINE n == IF outName[c] = NoNode THEN Key!TextOf(c) ELSE outName[c]
           m == Key!TextOf(c)
<1>1. /\ user[c].pc = "readable" /\ botched' = botched /\ outName' = [outName EXCEPT ![c] = n]
      /\ user' = [user EXCEPT ![c].pc = "opened", ![c].opened = n]
  BY DEF Key!OpenOutput, Key!At
<1>2. n \in OutNames(c)
  BY KeyAtNow DEF OutNames
<1>3. UserGoes(c, "opened", n)
  <2> DEFINE r == [user[c] EXCEPT !.pc = "opened", !.opened = n]
  <2>1. user' = [user EXCEPT ![c] = r]
    BY <1>1 DEF KeyInv, KeyShape
  <2>2. DOMAIN r = {"pc", "opened"} /\ r.pc = "opened" /\ r.opened = n
    BY DEF KeyInv, KeyShape
  <2> HIDE DEF r, n
  <2>3. /\ DOMAIN user' = Users /\ user'[c] = r
        /\ \A d \in Users \ {c} : user'[d] = user[d]
    BY <2>1 DEF KeyInv, KeyShape
  <2>4. \A d \in Users : DOMAIN user'[d] = {"pc", "opened"}
    BY <2>2, <2>3 DEF KeyInv, KeyShape
  <2> QED
    BY <2>2, <2>3, <2>4 DEF UserGoes
<1>4. /\ DOMAIN outName' = Users /\ outName'[c] \in OutNames(c) \cup {NoNode}
      /\ \A d \in Users \ {c} : outName'[d] = outName[d]
  BY <1>1, <1>2 DEF KeyInv, KeyShape
<1>5. PICK f : /\ FileBecomes(m, f) /\ f.holds = file[m].holds /\ f.whole = file[m].whole
  <2>1. m \in Key!Files /\ KeyShape /\ DOMAIN file[m] = NodeFields
    BY Distinct DEF KeyInv, KeyShape
  <2>2. CASE outName[c] = NoNode
    <3> DEFINE r == [file[m] EXCEPT !.readable = TRUE]
    <3>1. file' = [file EXCEPT ![m] = r]
      BY <2>1, <2>2 DEF Key!OpenOutput, KeyShape
    <3>2. DOMAIN r = NodeFields /\ r.holds = file[m].holds /\ r.whole = file[m].whole
      BY <2>1 DEF NodeFields
    <3> HIDE DEF r, m
    <3>3. FileBecomes(m, r)
      BY <2>1, <3>1, <3>2, FileUpdates
    <3> QED
      BY <3>2, <3>3
  <2>3. CASE outName[c] # NoNode
    <3>1. file' = file
      BY <2>3 DEF Key!OpenOutput
    <3>2. FileBecomes(m, file[m])
      BY <2>1, <3>1 DEF FileBecomes, KeyShape
    <3> QED
      BY <3>2
  <2> QED
    BY <2>2, <2>3
<1>6. \A d \in Users : f.holds = Key!TextOf(d) /\ f.whole => user'[d].pc = "committed"
  <2> SUFFICES ASSUME NEW d \in Users, f.holds = Key!TextOf(d), f.whole
               PROVE  user'[d].pc = "committed"
    OBVIOUS
  <2>1. m \in Key!Files
    BY Distinct
  <2>2. WholeText(m, d)
    BY <1>5 DEF WholeText
  <2>3. user[d].pc = "committed"
    BY <2>1, <2>2 DEF KeyInv, TextsInv
  <2> QED
    BY <1>1, <1>3, <2>3 DEF UserGoes
<1>7. KeyAt(c, "opened", file[Key!KeyOf(c)], c \in botched)
  BY <1>1, KeyAtNow DEF KeyAt, BeforeKey, BehindKey
<1>8. DescriptorAt(c, "opened", n)
  BY <1>2 DEF DescriptorAt, BeforeKey, WithText
<1>9. user[c].opened # Stranger /\ m # Stranger
  BY <1>1, KeyAtNow, Distinct DEF DescriptorAt, OutNames
<1>10. /\ user[c].pc # "committed" /\ m \in {Key!TextOf(c), Stranger}
       /\ botched' = botched
  BY <1>1
<1> HIDE DEF n, m
<1> QED
  BY <1>3, <1>4, <1>5, <1>6, <1>7, <1>8, <1>9, <1>10, OutputMoves

(* Others give an output another file, or the path of the keys.            *)
LEMMA NamesMove ==
  ASSUME KeyInv, UNCHANGED <<file, user, botched>>, DOMAIN outName' = Users,
         \A c \in Users : outName'[c] \in OutNames(c) \cup {NoNode}
  PROVE  KeyInv'
<1>1. KeyShape' /\ TextsInv' /\ Key!StrangersStay'
  BY DEF KeyInv, KeyShape, TextsInv, WholeText, Key!StrangersStay, Key!Holding, Key!Files
<1>2. \A c \in Users : KeyFileInv(c)' /\ DescriptorInv(c)'
  <2> TAKE c \in Users
  <2>1. KeyFileInv(c) /\ DescriptorInv(c)
    BY DEF KeyInv
  <2>2. KeyFileInv(c)'
    BY <2>1 DEF KeyFileInv, KeyStates, Reserved, HalfWritten, Written, Released, EmptiedOpen
  <2>3. DescriptorInv(c)'
    BY <2>1 DEF DescriptorInv, OutNames
  <2> QED
    BY <2>2, <2>3
<1> QED
  BY <1>1, <1>2 DEF KeyInv

LEMMA KeyOthers ==
  ASSUME KeyInv, (\E c \in Users : Key!Link(c)) \/ Key!Rename \/ UNCHANGED keyVars
  PROVE  KeyInv'
<1>1. \A c \in Users : outName[c] \in OutNames(c) \cup {NoNode}
  BY KeyAtNow
<1>2. ASSUME NEW c \in Users, Key!Link(c) PROVE KeyInv'
  <2>1. outName' = [outName EXCEPT ![c] = IF keyName = Key!KeyOf(c) THEN keyName ELSE Stranger]
    BY <1>2 DEF Key!Link
  <2>2. DOMAIN outName' = Users /\ outName'[c] \in {Key!KeyOf(c), Stranger}
        /\ \A d \in Users \ {c} : outName'[d] = outName[d]
    BY <2>1 DEF KeyInv, KeyShape
  <2>3. \A d \in Users : outName'[d] \in OutNames(d) \cup {NoNode}
    BY <1>1, <2>2 DEF OutNames
  <2> QED
    BY <1>2, <2>2, <2>3, NamesMove DEF Key!Link
<1>3. CASE Key!Rename
  BY <1>1, <1>3, NamesMove DEF Key!Rename, KeyInv, KeyShape
<1>4. CASE UNCHANGED keyVars
  BY <1>1, <1>4, NamesMove DEF keyVars, KeyInv, KeyShape
<1> QED
  BY <1>2, <1>3, <1>4

LEMMA KeyInit ==
  ASSUME Key!Init
  PROVE  KeyInv
<1>1. /\ \A c \in Users : user[c] = [pc |-> "new", opened |-> NoNode]
      /\ \A n \in Key!Files : file[n] = IF n = Stranger THEN Key!Holding(Stranger, TRUE)
                                        ELSE FileOf(FALSE, Key!Empty, TRUE)
      /\ DOMAIN user = Users /\ DOMAIN file = Key!Files /\ DOMAIN outName = Users
      /\ \A c \in Users : outName[c] = NoNode
  BY DEF Key!Init, FileOf
<1>2. KeyShape
  BY <1>1 DEF KeyShape, Key!Holding, FileOf, NodeFields
<1>3. TextsInv
  <2> SUFFICES ASSUME NEW n \in Key!Files, NEW c \in Users, WholeText(n, c)
               PROVE  FALSE
    BY DEF TextsInv
  <2>1. file[n].holds \in {Stranger, Key!Empty}
    BY <1>1 DEF Key!Holding, FileOf
  <2> QED
    BY <2>1, Distinct DEF WholeText
<1>4. Key!StrangersStay
  BY <1>1, Distinct DEF Key!StrangersStay, Key!Files
<1>5. ASSUME NEW c \in Users PROVE KeyFileInv(c) /\ DescriptorInv(c)
  <2>1. file[Key!KeyOf(c)] = Reserved(c)
    BY <1>1, Distinct DEF Reserved
  <2>2. user[c].pc = "new" /\ user[c].opened = NoNode /\ outName[c] = NoNode
    BY <1>1
  <2>3. KeyFileInv(c)
    BY <2>1, <2>2 DEF KeyFileInv, KeyStates, BeforeKey, BehindKey
  <2>4. DescriptorInv(c)
    BY <2>2 DEF DescriptorInv, WithText
  <2> QED
    BY <2>3, <2>4
<1> QED
  BY <1>2, <1>3, <1>4, <1>5 DEF KeyInv

(* No step of anybody breaks the invariant.                                *)
LEMMA KeyInvStep ==
  ASSUME KeyInv, [Key!Next]_keyVars
  PROVE  KeyInv'
<1>1. ASSUME NEW c \in Users,
             Key!Guard(c) \/ Key!Reserve(c) \/ Key!WriteKey(c) \/ Key!Release(c)
             \/ Key!OpenOutput(c) \/ Key!Truncate(c) \/ Key!WriteText(c) \/ Key!Fail(c)
             \/ Key!EmptyKey(c) \/ Key!HideKey(c) \/ Key!Kill(c)
      PROVE  KeyInv'
  BY <1>1, KeyGuard, KeyReserve, KeyWrite, KeyRelease, KeyOpenOutput, KeyTruncate,
     KeyWriteText, KeyFail, KeyEmpty, KeyHide
<1> QED
  BY <1>1, KeyOthers DEF Key!Next

(* The invariant says that the keys are safe.                              *)
LEMMA KeySafe ==
  ASSUME KeyInv
  PROVE  Key!KeysAreSafe
<1>1. Key!TextsHaveTheirKey
  <2> SUFFICES ASSUME NEW n \in Key!Files, NEW c \in Users, WholeText(n, c)
               PROVE  file[Key!KeyOf(c)] = Key!Holding(Key!KeyOf(c), TRUE)
    BY DEF Key!TextsHaveTheirKey, WholeText
  <2>1. user[c].pc = "committed"
    BY DEF KeyInv, TextsInv
  <2>2. file[Key!KeyOf(c)] = Released(c)
    BY <2>1, KeyAtNow DEF KeyAt, BehindKey
  <2> QED
    BY <2>2 DEF Released, FileOf, Key!Holding
<1>2. Key!KeysAreWholeOrClosed
  <2> SUFFICES ASSUME NEW c \in Users
               PROVE  /\ file[Key!KeyOf(c)].holds \in {Key!KeyOf(c), Key!Empty}
                      /\ file[Key!KeyOf(c)].readable => file[Key!KeyOf(c)].whole
                      /\ user[c].pc = "failed" /\ c \notin botched =>
                           file[Key!KeyOf(c)].holds = Key!Empty /\ ~file[Key!KeyOf(c)].readable
    BY DEF Key!KeysAreWholeOrClosed, Key!At
  <2> DEFINE f == file[Key!KeyOf(c)]
  <2>1. f \in KeyStates(c) /\ (user[c].pc = "failed" /\ c \notin botched => f = Reserved(c))
    BY KeyAtNow DEF KeyAt
  <2> HIDE DEF f
  <2>2. f.holds \in {Key!KeyOf(c), Key!Empty} /\ (f.readable => f.whole)
    BY <2>1 DEF KeyStates, Reserved, HalfWritten, Written, Released, EmptiedOpen, FileOf
  <2>3. user[c].pc = "failed" /\ c \notin botched => f.holds = Key!Empty /\ ~f.readable
    BY <2>1 DEF Reserved, FileOf
  <2> QED
    BY <2>2, <2>3 DEF f
<1>3. Key!StrangersStay
  BY DEF KeyInv
<1> QED
  BY <1>1, <1>2, <1>3 DEF Key!KeysAreSafe

-----------------------------------------------------------------------------
(* The parts together: a step of the model is a step of one of them and    *)
(* leaves the others as they are.                                          *)
FilesInv == ArchiveInv /\ PdfInv /\ KeyInv

LEMMA FilesInit ==
  MCInit => FilesInv
BY ArchiveInit, PdfInit, KeyInit DEF MCInit, FilesInv

LEMMA PartStep ==
  ASSUME [MCNext]_fileVars
  PROVE  [Next]_vars /\ [Pdf!Next]_pdfVars /\ [Key!Next]_keyVars
<1>1. CASE UNCHANGED fileVars
  BY <1>1 DEF fileVars
<1>2. CASE Only("archive") /\ Next
  BY <1>2 DEF Only
<1>3. CASE Only("pdf") /\ Pdf!Next
  BY <1>3 DEF Only
<1>4. CASE Only("key") /\ Key!Next
  BY <1>4 DEF Only
<1>5. CASE Only("rendering") \/ Only("docx") \/ Only("page")
  BY <1>5 DEF Only
<1> QED
  BY <1>1, <1>2, <1>3, <1>4, <1>5 DEF MCNext

LEMMA FilesStep ==
  FilesInv /\ [MCNext]_fileVars => FilesInv'
<1> SUFFICES ASSUME FilesInv, [MCNext]_fileVars PROVE FilesInv'
  OBVIOUS
<1>1. [Next]_vars /\ [Pdf!Next]_pdfVars /\ [Key!Next]_keyVars
  BY PartStep
<1>2. ArchiveInv'
  BY <1>1, ArchiveStep DEF FilesInv
<1>3. PdfInv'
  BY <1>1, PdfStep DEF FilesInv
<1>4. KeyInv'
  BY <1>1, KeyInvStep DEF FilesInv
<1> QED
  BY <1>2, <1>3, <1>4 DEF FilesInv

(* The inductive invariant of the workflow, of the PDF command and of the  *)
(* key beside a text holds throughout (docx.ts, pdf.ts, private-file.ts).  *)
THEOREM FilesInvariant ==
  MCSpec => []FilesInv
<1> QED
  BY FilesInit, FilesStep, PTL DEF MCSpec

(* Files, locks and commands of the archive workflow keep their types:     *)
(* docx.ts, from acquireSessionArchiveLock to removeStagedFile.            *)
THEOREM FilesTypes ==
  MCSpec => []TypeOK
<1>1. FilesInv => TypeOK
  BY ArchiveTypes DEF FilesInv
<1> QED
  BY <1>1, FilesInvariant, PTL

(* Whatever fails, is killed or runs at the same time, a published         *)
(* document can be undone with the archive that is there, and a whole text *)
(* with the whole key beside it: publishNewFile and publishReplacement of  *)
(* docx.ts, publishNewPrivateFile of private-file.ts.                      *)
THEOREM OutputsStayUndoable ==
  MCSpec => []OutputsAreUndoable
<1>1. FilesInv => OutputsAreUndoable
  BY ArchiveUndoes, KeySafe DEF FilesInv, OutputsAreUndoable
<1> QED
  BY <1>1, FilesInvariant, PTL

(* A lock, a temporary file or a page folder that stays was left by a      *)
(* killed process or a failed removal, and the PDF command has one page in *)
(* its folder and publishes a whole document (removeStagedFile of docx.ts, *)
(* the cleanup of pdf.ts).                                                 *)
THEOREM OnlyInterruptionsLeaveThem ==
  MCSpec => []OnlyInterruptionsLeaveTraces
<1>1. FilesInv => OnlyInterruptionsLeaveTraces
  BY ArchiveLeaves, PdfConfines DEF FilesInv, OnlyInterruptionsLeaveTraces
<1> QED
  BY <1>1, FilesInvariant, PTL

(* No step replaces a published document or changes a name in the archive: *)
(* publishNewFile of docx.ts and pdf.ts links, which fails on a path that  *)
(* exists.                                                                 *)
THEOREM OutputsAreNotReplaced ==
  MCSpec => NoOutputIsReplaced
<1>1. FilesInv /\ [MCNext]_fileVars => [ReplacesNothing]_vars
  <2> SUFFICES ASSUME FilesInv, [MCNext]_fileVars
               PROVE  ReplacesNothing
    OBVIOUS
  <2> QED
    BY PartStep, ArchiveReplacesNothing DEF FilesInv
<1>2. FilesInv /\ [MCNext]_fileVars => [Pdf!PdfIsNotReplaced]_pdfVars
  <2> SUFFICES ASSUME FilesInv, [MCNext]_fileVars
               PROVE  Pdf!PdfIsNotReplaced
    OBVIOUS
  <2>1. target # NoDocument => target' = target
    BY PartStep, PdfStep DEF FilesInv
  <2> QED
    BY <2>1 DEF Pdf!PdfIsNotReplaced
<1> QED
  BY <1>1, <1>2, FilesInvariant, PTL DEF MCSpec, NoOutputIsReplaced, NothingIsReplaced
=============================================================================
