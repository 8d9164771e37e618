------------------------- MODULE MCSessionAndText --------------------------
(* A redaction session, of two labels, the second of which spells          *)
(* placeholders of the first, and counters that can run out; and what is   *)
(* found in the texts it serves: the search that detectors share, anchors, *)
(* trigger values, the detections of other tools, hotwords and zones, the  *)
(* filter by confidence, further mentions. The parts share no variable;    *)
(* each is explored while the others are untouched.                        *)
EXTENDS RedactionSession, Sequences, TLC

CONSTANTS person, personLike, ann, bob, annText, bobText, tainted
CONSTANTS Widths, Reported, Policies, NoPolicy, MaxCandidates, Band, Window, Floor, Top
CONSTANTS HotTexts, Rules, EntityLabels, AllowedLabels, Same, Unit, Scores, MaxHits
CONSTANTS LineKinds, MaxLines, EntityScores
CONSTANTS Characters, MaxTail, LineWindow, Margin, Cap, MaxValue, LongTail, NameTail
CONSTANTS Lists, Foreign, Haystacks, Unset
CONSTANTS Terms, MaxTerms, Pages, ValueReach, Buckets
CONSTANTS Articles, WordOrder, Forms, Determiners, Definers, CapitalWords, RoleWords,
          SearchWindow, MaxEntities
CONSTANTS Exchanged, Reports, Mappings, MaxDetected

VARIABLE part     \* the one that is explored
VARIABLES policy, found, retained
VARIABLES words, spotted, judged
VARIABLES lines, boosted
VARIABLES tail
VARIABLES packaged, artifacts, given, index, matched
VARIABLES dateTerms, monetaryTerms, values
VARIABLES article, entities, strict
VARIABLES exchanged, unit, mapping, batch

Confidence == INSTANCE ConfidenceFilter
Hotwords == INSTANCE HotwordRules WITH Texts <- HotTexts
Zones == INSTANCE DocumentZones
Trigger == INSTANCE TriggerValues
Search == INSTANCE SearchIndex WITH found <- matched
Anchored == INSTANCE AnchoredSearch
Mentions == INSTANCE Coreference
External == INSTANCE ExternalDetections WITH Documents <- Exchanged, document <- exchanged

confidenceVars == <<policy, found, retained>>
hotwordVars == <<words, spotted, judged>>
zoneVars == <<lines, boosted>>
searchVars == <<packaged, artifacts, given, index, matched>>
anchorVars == <<dateTerms, monetaryTerms, values>>
mentionVars == <<article, entities, strict>>
externalVars == <<exchanged, unit, mapping, batch>>
sessionVars ==
  <<part, vars, confidenceVars, hotwordVars, zoneVars, tail,
    searchVars, anchorVars, mentionVars, externalVars>>

MCLabels == {person, personLike}
MCTexts == {ann, bob}
MCOriginals == {annText, bobText, tainted}
MCContaminated == {tainted}
MCLookAlike == (person :> None) @@ (personLike :> person)
MCBadIdentities == {[label |-> personLike, text |-> bob]}
MCLifecycles == {[created |-> 1, expires |-> 2]}
MCTimes == 0..2

Entry(text, n, o) ==
  [id |-> [label |-> person, text |-> text],
   ph |-> [label |-> person, count |-> n], original |-> o]

Envelope(highest, mappings) ==
  [lifecycle |-> None, mappings |-> mappings,
   counters |-> (person :> highest) @@ (personLike :> 0)]

(* An envelope whose counter ran ahead of its mappings, and one for each   *)
(* kind of inconsistency the loader has to refuse.                         *)
MCForeignWires ==
  {Envelope(2, {Entry(ann, 1, annText)}),
   Envelope(1, {Entry(ann, 2, annText)}),
   Envelope(2, {Entry(ann, 1, annText), Entry(ann, 2, bobText)}),
   Envelope(2, {Entry(ann, 1, annText), Entry(bob, 1, bobText)}),
   Envelope(2, {Entry(ann, 1, tainted)})}

(* Scores in twentieths, 17 to be kept: far below, a near miss that needs  *)
(* two neighbours, one that needs one, and an anchor; positions in a text  *)
(* of narrow and wide characters, the outer two out of each other's reach. *)
MCWidths == <<1, 2, 1, 2, 2, 1>>

MCReported ==
  {[start |-> p[1], end |-> p[2], label |-> l, score |-> s, exact |-> s = 10] :
     p \in {<<0, 1>>, <<2, 3>>, <<5, 6>>}, l \in {"person", "address"}, s \in {10, 15, 16, 19}}

MCPolicies ==
  {[threshold |-> 17, boost |-> b, labels |-> ls] : b \in BOOLEAN, ls \in {{}, {"address"}}}

(* Characters of one, two and four bytes; rules that look back and ahead   *)
MCHotTexts == {<<1, 4, 2>>}
MCRules ==
  <<[labels |-> {"p"}, adjustment |-> 12, relabel |-> "q", before |-> 3, after |-> 0],
    [labels |-> {"p", "q"}, adjustment |-> -12, relabel |-> "r", before |-> 1, after |-> 3]>>

Line(heading, signing, table, length) ==
  [heading |-> heading, signing |-> signing, table |-> table, length |-> length]
MCLineKinds ==
  {Line(FALSE, FALSE, FALSE, 0), Line(FALSE, FALSE, FALSE, 1), Line(TRUE, FALSE, FALSE, 1),
   Line(FALSE, TRUE, FALSE, 1), Line(TRUE, TRUE, FALSE, 1), Line(FALSE, FALSE, TRUE, 2)}

SearchPatterns == [engine : {"literal", "regex", "fuzzy"}, word : {"u", "v"}]
MCLists == UNION {[1..n -> SearchPatterns] : n \in 0..3}
MCForeign == {<<p>> : p \in SearchPatterns}
MCHaystacks == {<<"u", "v">>, <<"v", "v">>}

(* A word as it is and in small letters, and a symbol                      *)
May == [key : {"may"}, form : {"as", "low"}]
Dollar == [key |-> "$", form |-> "as"]
MCTerms ==
  [written : May, anyCase : BOOLEAN, whole : BOOLEAN]
    \cup {[written |-> Dollar, anyCase |-> FALSE, whole |-> FALSE]}
Spellings == <<[key |-> "may", form |-> "as"], [key |-> "may", form |-> "low"], Dollar>>
MCPages == {[i \in 1..6 |-> [written |-> Spellings[(i + 1) \div 2], inside |-> i % 2 = 0]]}
MCValueReach == <<1, 2>>

MCArticles ==
  {<<"Acme", "Ltd", "the", "Acme", ".", "Acme", "Inc", "Bo">>,
   <<"Acme", "Ltd", "aka", "Acme", ";", "Bo", "aka", "Bo", "the">>,
   <<"Acme", "Bo", "Ltd", "Acme", "Ltd", "Acme", "Bo", "aka", "Acme">>,
   <<"Bo", ".", "aka", "Bo", "Acme", "aka", "Acme", "the", "Acme", "aka", "Bo">>}
MCWordOrder == <<".", ";", "Acme", "Bo", "Inc", "Ltd", "aka", "the">>

Letter == [bytes |-> 1, units |-> 1]
Accented == [bytes |-> 2, units |-> 1]
Emoji == [bytes |-> 4, units |-> 2]
MCExchanged == {<<Letter, Emoji, Accented>>, <<Accented, Accented>>, <<Emoji>>}
MCReports == [id : {"i", "j"}, start : {0, 1, 3}, end : {1, 3, 5}, label : {"L", "M"}]
Maps(from, to) == [from |-> from, to |-> to]
MCMappings ==
  {<<Maps("L", "P")>>, <<Maps("L", "P"), Maps("M", "P")>>, <<Maps("L", "P"), Maps("L", "Q")>>}

-----------------------------------------------------------------------------
MCInit ==
  /\ part \in
       {"session", "confidence", "hotwords", "zones", "trigger", "search", "anchored",
        "mentions", "external"}
  /\ Init /\ Confidence!Init /\ Hotwords!Init /\ Zones!Init /\ Trigger!Init
  /\ Search!Init /\ Anchored!Init /\ Mentions!Init /\ External!Init
  /\ part # "mentions" => article = (CHOOSE a \in Articles : TRUE) /\ ~strict
  /\ part # "external" =>
       /\ exchanged = (CHOOSE d \in Exchanged : TRUE) /\ unit = "byte"
       /\ mapping = (CHOOSE map \in Mappings : TRUE)

Only(p) ==
  /\ part = p /\ UNCHANGED part
  /\ p # "session" => UNCHANGED vars
  /\ p # "confidence" => UNCHANGED confidenceVars
  /\ p # "hotwords" => UNCHANGED hotwordVars
  /\ p # "zones" => UNCHANGED zoneVars
  /\ p # "trigger" => UNCHANGED tail
  /\ p # "search" => UNCHANGED searchVars
  /\ p # "anchored" => UNCHANGED anchorVars
  /\ p # "mentions" => UNCHANGED mentionVars
  /\ p # "external" => UNCHANGED externalVars

MCNext ==
  \/ Only("session") /\ Next
  \/ Only("confidence") /\ Confidence!Next
  \/ Only("hotwords") /\ Hotwords!Next
  \/ Only("zones") /\ Zones!Next
  \/ Only("trigger") /\ Trigger!Next
  \/ Only("search") /\ Search!Next
  \/ Only("anchored") /\ Anchored!Next
  \/ Only("mentions") /\ Mentions!Next
  \/ Only("external") /\ External!Next

MCSpec == MCInit /\ [][MCNext]_sessionVars

(* The properties of the parts, stated where they are defined.             *)
RulesAreExact ==
  /\ part = "confidence" => Confidence!ConfidenceIsSound
  /\ part = "hotwords" => Hotwords!HotwordsAreFound
  /\ part = "zones" => Zones!ZonesAreExact
  /\ part = "trigger" => Trigger!ValuesAreWhole
  /\ part = "mentions" => Mentions!MentionsAreSound
SearchesAreExact ==
  /\ part = "search" => Search!SearchesSurvivePackaging
  /\ part = "anchored" => Anchored!AnchorsAreOnesOwn
  /\ part = "external" => External!DetectionsKeepTheirText
=============================================================================
