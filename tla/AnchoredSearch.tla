---------------------------- MODULE AnchoredSearch ----------------------------
(* Dates and amounts are found around anchor terms; one search of the      *)
(* document serves both rules (anchored.rs).  Terms that differ only in    *)
(* case share a pattern, which finds them in any case and in the middle of *)
(* words; the routes of the pattern then decide for each rule whether the  *)
(* match is one of its own.                                                *)
(*                                                                         *)
(* A written form is [key, form], the key being the form in lower case.  A *)
(* document is a sequence of [written, inside], where inside says that the *)
(* form stands within a word.                                              *)
EXTENDS Integers, Sequences, FiniteSets, SequencesExt, FiniteSetsExt

CONSTANTS
  Terms,             \* [written, anyCase, whole]
  MaxTerms,
  Pages,             \* the documents
  ValueReach,             \* <<back, on>>: how far around an anchor values may lie
  Buckets            \* label, source, detail and kind of an entity

VARIABLES
  dateTerms, monetaryTerms,
  values             \* what a rule extracted, anchor by anchor

anchorVars == <<dateTerms, monetaryTerms, values>>

Init == dateTerms = <<>> /\ monetaryTerms = <<>> /\ values = <<>>

-----------------------------------------------------------------------------
Owned(owner, terms) == [i \in DOMAIN terms |-> [term |-> terms[i], owner |-> owner]]

Routes == Owned("date", dateTerms) \o Owned("monetary", monetaryTerms)
RouteKey(route) == route.term.written.key

(* Slip: a route joins those of its pattern unless one has its text.       *)
MergedByText(routes, route) ==
  IF \E i \in DOMAIN routes : routes[i].term.written = route.term.written
  THEN routes ELSE Append(routes, route)

(* merge_anchor_route                                                      *)
Merged(routes, route) ==
  IF \E i \in DOMAIN routes : routes[i] = route THEN routes ELSE Append(routes, route)

(* PreparedAnchoredSearch::new: [key, routes] for every shared pattern     *)
AddRoute(patterns, route) ==
  LET same == {i \in DOMAIN patterns : patterns[i].key = RouteKey(route)}
  IN IF same = {} THEN Append(patterns, [key |-> RouteKey(route), routes |-> <<route>>])
     ELSE [patterns EXCEPT ![CHOOSE i \in same : TRUE].routes = Merged(@, route)]

Patterns == FoldLeft(AddRoute, <<>>, Routes)

(* Slip: the shared search matches whole words only.                       *)
MatchesWhole(pattern, page) ==
  {i \in DOMAIN page : page[i].written.key = pattern.key /\ ~page[i].inside}

(* shared_anchor_pattern: any case, inside words too                       *)
MatchesOf(pattern, page) == {i \in DOMAIN page : page[i].written.key = pattern.key}

(* accepts                                                                 *)
AcceptedBy(route, place) ==
  /\ route.term.anyCase \/ place.written = route.term.written
  /\ route.term.whole => ~place.inside

(* scan                                                                    *)
AnchorsOf(owner, page) ==
  UNION {{i \in MatchesOf(pattern, page) :
            \E route \in ToSet(pattern.routes) :
              route.owner = owner /\ AcceptedBy(route, page[i])} : pattern \in ToSet(Patterns)}

-----------------------------------------------------------------------------
SameBucket(a, b) == a.bucket = b.bucket
Holds(outer, inner) == outer.start <= inner.start /\ outer.end >= inner.end

(* Slip: a value makes way for any that holds it.                          *)
SelectAcross(selected, e) ==
  IF \E s \in selected : Holds(s, e) THEN selected
  ELSE {s \in selected : ~(SameBucket(e, s) /\ Holds(e, s))} \cup {e}

(* One step of select_anchored_entities                                    *)
SelectOne(selected, e) ==
  IF \E s \in selected : SameBucket(s, e) /\ Holds(s, e) THEN selected
  ELSE {s \in selected : ~(SameBucket(e, s) /\ Holds(e, s))} \cup {e}

(* select_anchored_entities, whose sort is stable and tells entities apart *)
(* by place and label                                                      *)
WiderFirst(a, b) == a.start < b.start \/ (a.start = b.start /\ a.end > b.end)
Selected == FoldLeft(SelectOne, {}, SortSeq(values, WiderFirst))

-----------------------------------------------------------------------------
(* The rules give their terms.                                             *)
AddDateTerm(t) ==
  /\ Len(dateTerms) < MaxTerms /\ monetaryTerms = <<>> /\ values = <<>>
  /\ dateTerms' = Append(dateTerms, t) /\ UNCHANGED <<monetaryTerms, values>>

AddMonetaryTerm(t) ==
  /\ Len(monetaryTerms) < MaxTerms /\ values = <<>>
  /\ monetaryTerms' = Append(monetaryTerms, t) /\ UNCHANGED <<dateTerms, values>>

(* AnchoredExtractor::extract: a rule finds a value around an anchor.      *)
ExtractAt(page, anchor, back, on, bucket) ==
  /\ Len(values) < MaxTerms
  /\ Len(dateTerms) = 1 /\ monetaryTerms = <<>>
  /\ anchor \in AnchorsOf("date", page)
  /\ values' = Append(values, [start |-> anchor - back, end |-> anchor + on, bucket |-> bucket])
  /\ UNCHANGED <<dateTerms, monetaryTerms>>

Next ==
  \/ \E t \in Terms : AddDateTerm(t) \/ AddMonetaryTerm(t)
  \/ \E page \in Pages, back \in 0..ValueReach[1], on \in 1..ValueReach[2], bucket \in Buckets :
       \E anchor \in DOMAIN page : ExtractAt(page, anchor, back, on, bucket)

Spec == Init /\ [][Next]_anchorVars

-----------------------------------------------------------------------------
(* The places a rule's own terms match, each searched on its own           *)
OwnAnchors(terms, page) ==
  {i \in DOMAIN page : \E t \in ToSet(terms) :
     /\ t.written.key = page[i].written.key
     /\ t.anyCase \/ t.written = page[i].written
     /\ t.whole => ~page[i].inside}

(* Sharing a search changes nothing for either rule; and the values kept   *)
(* are those that no other value of the bucket holds, one of each, in      *)
(* whatever order the anchors gave them (anchored.rs:57-155, 311-358).     *)
AnchorsAreOnesOwn ==
  /\ \A page \in Pages :
       /\ AnchorsOf("date", page) = OwnAnchors(dateTerms, page)
       /\ AnchorsOf("monetary", page) = OwnAnchors(monetaryTerms, page)
  /\ Selected = {e \in ToSet(values) :
                   ~\E o \in ToSet(values) : o # e /\ SameBucket(o, e) /\ Holds(o, e)}
=============================================================================
