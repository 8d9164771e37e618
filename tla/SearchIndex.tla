----------------------------- MODULE SearchIndex -----------------------------
(* The search that the detectors share (search.rs): patterns of three      *)
(* kinds are sorted into slots, one for every engine that has patterns;    *)
(* what an engine compiles can be packaged and loaded again, with the      *)
(* patterns or, where all are literals, without them.                      *)
(*                                                                         *)
(* The engines are a library: a slot finds its words at the places of a    *)
(* text where they stand, and numbers them by their places in the slot.    *)
EXTENDS Integers, Sequences, FiniteSets, SequencesExt, FiniteSetsExt

CONSTANTS
  Lists,          \* the lists of patterns: sequences of [engine, word]
  Foreign,        \* those that a package may be loaded with by mistake
  Haystacks,      \* sequences of words
  Unset           \* nothing yet

VARIABLES
  packaged,       \* the patterns of the package
  artifacts,      \* what their slots compiled to: the words of each
  given,          \* the patterns it is loaded with
  index,          \* Unset, or [refused, slots]
  found           \* Unset, or [text, failed, matches]

searchVars == <<packaged, artifacts, given, index, found>>

Init == packaged = Unset /\ artifacts = <<>> /\ given = Unset /\ index = Unset /\ found = Unset

Engines == <<"literal", "regex", "fuzzy">>

(* partition_patterns: the numbers of the patterns of an engine            *)
NumbersOf(patterns, engine) ==
  SelectSeq([i \in DOMAIN patterns |-> i], LAMBDA i : patterns[i].engine = engine)

WordsOf(patterns, engine) ==
  LET numbers == NumbersOf(patterns, engine) IN [i \in DOMAIN numbers |-> patterns[numbers[i]].word]

(* The engines that have patterns, in the order their slots have           *)
EnginesOf(patterns) == SelectSeq(Engines, LAMBDA e : NumbersOf(patterns, e) # <<>>)

(* Slip: artifacts are captured in the order of the patterns.              *)
CapturedAsListed(patterns) ==
  LET first(e) == Min({i \in DOMAIN patterns : patterns[i].engine = e})
      engines == SortSeq(EnginesOf(patterns), LAMBDA a, b : first(a) < first(b))
  IN [i \in DOMAIN engines |-> WordsOf(patterns, engines[i])]

(* prepare_artifacts                                                       *)
Captured(patterns) ==
  [i \in DOMAIN EnginesOf(patterns) |-> WordsOf(patterns, EnginesOf(patterns)[i])]

(* push_slot, with what was packaged for it                                *)
Slot(engine, words, numbers) == [engine |-> engine, words |-> words, numbers |-> numbers]

(* Slip: a slot numbers the patterns as it has them.                       *)
BuiltUnmapped(patterns, words) ==
  [i \in DOMAIN EnginesOf(patterns) |->
     Slot(EnginesOf(patterns)[i], words[i], [n \in DOMAIN words[i] |-> n])]

(* build_search_index_inner                                                *)
Built(patterns, words) ==
  [i \in DOMAIN EnginesOf(patterns) |->
     Slot(EnginesOf(patterns)[i], words[i], NumbersOf(patterns, EnginesOf(patterns)[i]))]

Refused == [refused |-> TRUE, slots |-> <<>>]
Loaded(slots) == [refused |-> FALSE, slots |-> slots]

(* new_with_artifacts_view: without patterns the one slot is one of        *)
(* literals; otherwise the cursor must meet as many artifacts as slots.    *)
Loads(patterns) ==
  IF patterns = <<>> /\ artifacts # <<>>
  THEN IF Len(artifacts) # 1 THEN Refused
       ELSE Loaded(<<Slot("literal", artifacts[1], [n \in DOMAIN artifacts[1] |-> n])>>)
  ELSE IF Len(EnginesOf(patterns)) # Len(artifacts) THEN Refused
       ELSE Loaded(Built(patterns, artifacts))

(* What the engine of a slot finds, numbered as the slot has its words     *)
HitsIn(slot, text) ==
  LET places == {<<i, n>> \in (DOMAIN text) \X (DOMAIN slot.words) : text[i] = slot.words[n]}
      ordered == SetToSortSeq(places, LAMBDA p, q : p[1] < q[1] \/ (p[1] = q[1] /\ p[2] < q[2]))
  IN [k \in DOMAIN ordered |-> [at |-> ordered[k][1], local |-> ordered[k][2], slot |-> slot]]

Earlier(a, b) == a.at < b.at \/ (a.at = b.at /\ a.pattern < b.pattern)

(* The matches of all slots, one slot after the other                      *)
Collected(text) ==
  LET hits == FlattenSeq([i \in DOMAIN index.slots |-> HitsIn(index.slots[i], text)])
  IN [k \in DOMAIN hits |->
        [at |-> hits[k].at, engine |-> hits[k].slot.engine,
         pattern |-> IF hits[k].local \in DOMAIN hits[k].slot.numbers
                     THEN hits[k].slot.numbers[hits[k].local] ELSE 0]]

(* Slip: the matches are left as the slots gave them.                      *)
FoundBySlot(text) ==
  [text |-> text, matches |-> Collected(text),
   failed |-> \E k \in DOMAIN Collected(text) : Collected(text)[k].pattern = 0]

(* find_iter_inner: a number beyond those of its slot fails the search.    *)
Found(text) ==
  LET matches == Collected(text)
  IN [text |-> text,
      failed |-> \E k \in DOMAIN matches : matches[k].pattern = 0,
      matches |-> IF Len(index.slots) > 1 THEN SortSeq(matches, Earlier) ELSE matches]

-----------------------------------------------------------------------------
Package(patterns) ==
  /\ packaged = Unset
  /\ packaged' = patterns /\ artifacts' = Captured(patterns)
  /\ UNCHANGED <<given, index, found>>

(* The library may see that compiled patterns are not those it is given.   *)
Load(patterns) ==
  /\ packaged # Unset /\ index = Unset
  /\ given' = patterns
  /\ \/ index' = Loads(patterns)
     \/ patterns \notin {packaged, <<>>} /\ index' = Refused
  /\ UNCHANGED <<packaged, artifacts, found>>

Find(text) ==
  /\ index # Unset /\ ~index.refused /\ found = Unset
  /\ found' = Found(text)
  /\ UNCHANGED <<packaged, artifacts, given, index>>

Next ==
  \/ \E patterns \in Lists : Package(patterns)
  \/ \E patterns \in Foreign \cup {<<>>} \cup ({packaged} \ {Unset}) : Load(patterns)
  \/ \E text \in Haystacks : Find(text)

Spec == Init /\ [][Next]_searchVars

-----------------------------------------------------------------------------
(* Every match of every pattern, by place and number                       *)
Matches(patterns, text) ==
  SetToSortSeq({[at |-> i, pattern |-> n, engine |-> patterns[n].engine] :
                  <<i, n>> \in {p \in (DOMAIN text) \X (DOMAIN patterns) : text[p[1]] = patterns[p[2]].word}},
               Earlier)

Literals(patterns) == \A i \in DOMAIN patterns : patterns[i].engine = "literal"

(* A package loaded with its own patterns, or one of literals loaded       *)
(* without them, is not refused and finds every match of every pattern     *)
(* under the pattern's own number, in the order of the text where engines  *)
(* are several; patterns of other engines cannot be left out, and no match *)
(* is reported for a pattern that was not given (search.rs:368-470).       *)
SearchesSurvivePackaging ==
  /\ index # Unset /\ index.refused => given # packaged /\ (given = <<>> => ~Literals(packaged))
  /\ index # Unset /\ given = <<>> /\ ~index.refused =>
       Cardinality({packaged[i].engine : i \in DOMAIN packaged}) <= 1
  /\ found # Unset /\ (given = packaged \/ (given = <<>> /\ Literals(packaged))) =>
       /\ ~found.failed
       /\ ToSet(found.matches) = ToSet(Matches(packaged, found.text))
       /\ Len(index.slots) > 1 => found.matches = Matches(packaged, found.text)
  /\ found # Unset /\ given # <<>> /\ ~found.failed =>
       \A k \in DOMAIN found.matches :
         /\ found.matches[k].pattern \in DOMAIN given
         /\ given[found.matches[k].pattern].engine = found.matches[k].engine
=============================================================================
