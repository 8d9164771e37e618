----------------------------- MODULE Coreference -----------------------------
(* Further mentions of what the detectors found (coreference.rs): the name *)
(* of an organization without its legal form, and the aliases the text     *)
(* defines for a person or an organization.                                *)
(*                                                                         *)
(* An article is a sequence of words and marks, a span a pair of positions *)
(* in it; a mention is [start, end, label, source].  Names have the three  *)
(* letters a name needs, and distances are counted in words.  An alias is  *)
(* like a source when it is one of its words.                              *)
EXTENDS Integers, Sequences, FiniteSets, SequencesExt, FiniteSetsExt

CONSTANTS
  Articles,
  WordOrder,           \* the words, as strings are ordered
  Forms, Determiners, Definers, CapitalWords, RoleWords,
  SearchWindow,        \* SEARCH_WINDOW
  MaxEntities

VARIABLES
  article, entities,   \* entities: [start, end, label, caller]
  strict               \* the threshold is above that of propagation

mentionVars == <<article, entities, strict>>

Init == article \in Articles /\ entities = {} /\ strict \in BOOLEAN

TextAt(start, end) == SubSeq(article, start, end - 1)
TextOf(e) == TextAt(e.start, e.end)

Mark(start, end, label, caller) ==
  /\ Cardinality(entities) < MaxEntities
  /\ article[start] \in CapitalWords
  /\ \A e \in entities : e.end <= start
  /\ entities' = entities \cup {[start |-> start, end |-> end, label |-> label, caller |-> caller]}
  /\ UNCHANGED <<article, strict>>

Next ==
  \E start, end \in 1..(Len(article) + 1), label \in {"person", "organization", "date"}, caller \in BOOLEAN :
    start < end /\ end <= start + 3 /\ Mark(start, end, label, caller)

Spec == Init /\ [][Next]_mentionVars

-----------------------------------------------------------------------------
Meets(start, end, other) == start < other.end /\ end > other.start
MeetsAny(start, end, others) == \E o \in others : Meets(start, end, o)

(* organization_base_name: the text without its legal form, or nothing     *)
BaseName(text) == IF Len(text) > 1 /\ Last(text) \in Forms THEN Front(text) ELSE <<>>

Organizations ==
  {e \in entities : e.label = "organization" /\ ~e.caller /\ BaseName(TextOf(e)) # <<>>}

(* Slip: a name that several entities have is the first one's.             *)
FirstSource(base) ==
  LET having == {e \in Organizations : BaseName(TextOf(e)) = base}
  IN TextOf(CHOOSE e \in having : \A o \in having : e.start <= o.start)

(* organization_seeds: a name with two sources is its own source.          *)
SourceOf(base) ==
  LET texts == {TextOf(e) : e \in {o \in Organizations : BaseName(TextOf(o)) = base}}
  IN IF Cardinality(texts) = 1 THEN CHOOSE text \in texts : TRUE ELSE base

Rank(word) == CHOOSE i \in DOMAIN WordOrder : WordOrder[i] = word
NameBefore(a, b) ==
  \/ Len(a) < Len(b) /\ IsPrefix(a, b)
  \/ \E i \in (DOMAIN a) \cap (DOMAIN b) :
       /\ \A j \in 1..(i - 1) : a[j] = b[j]
       /\ Rank(a[i]) < Rank(b[i])

Seeds == SetToSortSeq({BaseName(TextOf(e)) : e \in Organizations}, NameBefore)

(* The places where a text stands, searched from left to right             *)
StandsAt(text, i) == i + Len(text) - 1 <= Len(article) /\ TextAt(i, i + Len(text)) = text
Search(places, i, text) ==
  IF StandsAt(text, i) /\ (places = <<>> \/ Last(places) + Len(text) <= i) THEN Append(places, i) ELSE places
PlacesOf(text) ==
  FoldLeft(LAMBDA places, i : Search(places, i, text), <<>>, [i \in DOMAIN article |-> i])

(* determiner_start                                                        *)
WithDeterminer(start) ==
  IF start > 1 /\ article[start - 1] \in Determiners THEN start - 1 ELSE start

(* Slip: what was propagated before does not cover the text.               *)
PropagateOverOwn(results, at, base) ==
  LET start == WithDeterminer(at)
  IN IF MeetsAny(start, at + Len(base), entities) THEN results
     ELSE results \cup {[start |-> start, end |-> at + Len(base), label |-> "organization",
                         source |-> SourceOf(base)]}

(* propagate_organization_names, at one place of one name                  *)
PropagateAt(results, at, base) ==
  LET start == WithDeterminer(at)
  IN IF MeetsAny(start, at + Len(base), entities \cup results) THEN results
     ELSE results \cup {[start |-> start, end |-> at + Len(base), label |-> "organization",
                         source |-> SourceOf(base)]}

Propagated ==
  IF strict THEN {}
  ELSE FoldLeft(LAMBDA results, base :
                  FoldLeft(LAMBDA r, at : PropagateAt(r, at, base), results, PlacesOf(base)),
                {}, Seeds)

-----------------------------------------------------------------------------
(* has_clause_boundary, between a source and a definition                  *)
Boundary(from, to) ==
  \E i \in from..(to - 1) :
    \/ article[i] = ";"
    \/ /\ article[i] = "."
       /\ i = to - 1 \/ article[i + 1] \in CapitalWords

(* What may be a source of a definition: all but the caller's own          *)
Sources ==
  {[start |-> e.start, end |-> e.end, label |-> e.label] : e \in {x \in entities : ~x.caller}}
  \cup {[start |-> m.start, end |-> m.end, label |-> m.label] : m \in Propagated}

(* Slip: the search window is not looked at.                               *)
NearestAnywhere(at) ==
  LET before == {e \in Sources : e.end <= at /\ e.label # "date"}
  IN {e \in before : \A o \in before : o.start <= e.start}

(* nearest_preceding_source: the search goes back over sources of any kind *)
(* and ends at the first that is too far away.                             *)
Nearest(at) ==
  LET before == {e \in Sources : e.end <= at}
      seen == {e \in before : \A o \in before : o.start >= e.start => at - o.end <= SearchWindow}
      named == {e \in seen : e.label # "date"}
  IN {e \in named : \A o \in named : o.start <= e.start}

(* Slip: a definition may be in another sentence than its source.          *)
DefinedAnywhere(at) ==
  {[alias |-> article[at + 1], label |-> e.label, source |-> TextAt(e.start, e.end), at |-> at] :
     e \in {x \in Nearest(at) : article[at + 1] \in ToSet(TextAt(x.start, x.end))}}

(* extract_defined_terms, for the definition at a place                    *)
DefinedAt(at) ==
  {[alias |-> article[at + 1], label |-> e.label, source |-> TextAt(e.start, e.end), at |-> at] :
     e \in {x \in Nearest(at) :
              /\ ~Boundary(x.end, at)
              /\ article[at + 1] \in ToSet(TextAt(x.start, x.end)) \ (RoleWords \cup Forms)}}

Definitions == {i \in 1..(Len(article) - 1) : article[i] \in Definers}
Candidates == UNION {DefinedAt(i) : i \in Definitions}

(* The first definition of an alias for a label is the one that counts.    *)
DefinedTerms ==
  {t \in Candidates :
     ~\E o \in Candidates : o.alias = t.alias /\ o.label = t.label /\ o.at < t.at}

(* find_alias_spans                                                        *)
AliasSpans ==
  {[start |-> i, end |-> i + 1, label |-> t.label, source |-> t.source] :
     <<t, i>> \in {p \in DefinedTerms \X (DOMAIN article) : article[p[2]] = p[1].alias}}

(* process                                                                 *)
Mentions == Propagated \cup AliasSpans

-----------------------------------------------------------------------------
(* Every place of a name is met by an entity or a propagated mention,      *)
(* unless the determiner before it belongs to an entity.                   *)
NamesAreFound ==
  ~strict =>
    \A e \in Organizations : LET base == BaseName(TextOf(e)) IN
      \A i \in DOMAIN article :
        StandsAt(base, i) =>
          \/ MeetsAny(i, i + Len(base), entities \cup Propagated)
          \/ \E o \in entities : Meets(WithDeterminer(i), i, o)

(* Propagated mentions cover no entity and not one another, and each is    *)
(* attributed to the one entity whose name it is, or to the name alone     *)
(* where entities of different legal forms share it.                       *)
PropagationIsSound ==
  \A m \in Propagated :
    /\ ~MeetsAny(m.start, m.end, entities \cup (Propagated \ {m}))
    /\ \E e \in Organizations :
         /\ IsSuffix(BaseName(TextOf(e)), TextOf(m))
         /\ \/ m.source = TextOf(e)
               /\ \A o \in Organizations : BaseName(TextOf(o)) = BaseName(TextOf(e)) => TextOf(o) = TextOf(e)
            \/ m.source = BaseName(TextOf(e))
               /\ \E o \in Organizations : BaseName(TextOf(o)) = m.source /\ TextOf(o) # TextOf(e)

(* An alias is a word of a source that no caller owns, defined after it in *)
(* the same sentence, within the window and with no other person or        *)
(* organization in between; an alias has one source for each label.        *)
AliasesAreSound ==
  /\ \A m \in AliasSpans : \E e \in Sources, d \in Definitions :
       /\ TextAt(e.start, e.end) = m.source /\ e.label = m.label /\ m.label # "date"
       /\ article[d + 1] = article[m.start] /\ article[m.start] \in ToSet(m.source) \ RoleWords
       /\ e.end <= d /\ d - e.end <= SearchWindow /\ ~Boundary(e.end, d)
       /\ ~\E o \in Sources : o.start > e.start /\ o.end <= d /\ o.label # "date"
  /\ \A m, n \in AliasSpans : article[m.start] = article[n.start] /\ m.label = n.label => m.source = n.source

(* Further mentions of a name or an alias are found and belong to what     *)
(* they name (coreference.rs:86-280).                                      *)
MentionsAreSound == NamesAreFound /\ PropagationIsSound /\ AliasesAreSound
=============================================================================
