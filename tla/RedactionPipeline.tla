-------------------------- MODULE RedactionPipeline -------------------------
(* One redaction call of a prepared engine: the detectors run in registry  *)
(* order, each over the layers of those before it; what they found is      *)
(* resolved and redacted; a host may watch diagnostics or results as they  *)
(* come; a session, if one is given, takes the pseudonyms.  Any step may   *)
(* return an error, and the first one ends the call.                       *)
(*                                                                         *)
(* What the steps compute is left out (EntityResolution, ConfidenceFilter, *)
(* Rendering and RedactionSession have it).                                *)
EXTENDS Naturals, Sequences, SequencesExt

CONSTANTS ActiveSets,      \* sets of detectors the configuration and the text activate
          PrepareEvents,   \* the diagnostics of the preparation of the engine
          NoCall           \* no call has been made yet

VARIABLES call,       \* the entry point: what it was given
          active,     \* the detectors that have something to do
          step,       \* the step that comes next
          passes,     \* the layers so far, each with the layers it was given
          events,     \* the diagnostics recorded so far
          cursor,     \* how many of them were handed to the host
          delivered,  \* the diagnostics the host took, in order
          shown,      \* the results the host took, in order
          session     \* the caller's session: "before" or "after" the call

vars == <<call, active, step, passes, events, cursor, delivered, shown, session>>

Entry(session_, caller, diagnostics, batches, results) ==
  [session |-> session_, caller |-> caller, diagnostics |-> diagnostics,
   batches |-> batches, results |-> results]

(* The entry points of an engine: none takes a session and a host that     *)
(* watches.                                                                *)
EntryPoints ==
  {Entry(FALSE, c, d, FALSE, FALSE) : c, d \in BOOLEAN} \cup
  {Entry(TRUE, c, FALSE, FALSE, FALSE) : c \in BOOLEAN} \cup
  {Entry(FALSE, FALSE, TRUE, TRUE, FALSE), Entry(FALSE, FALSE, FALSE, FALSE, TRUE)}

(* Slip: the deny list after the detectors that read it.                   *)
LateDenyList ==
  <<"Regex", "CustomRegex", "Gazetteer", "Country", "Anchored", "Trigger", "Signature",
    "LegalForm", "NameCorpus", "DenyList", "AddressSeed", "StructuredDocumentData">>

Registry ==
  <<"Regex", "CustomRegex", "DenyList", "Gazetteer", "Country", "Anchored", "Trigger",
    "Signature", "LegalForm", "NameCorpus", "AddressSeed", "StructuredDocumentData">>

(* The layers a detector declares to read (`after`).                       *)
Dependencies(d) ==
  CASE d = "NameCorpus" -> {"DenyList"}
    [] d = "AddressSeed" ->
         {"Regex", "CustomRegex", "Anchored", "Trigger", "Signature", "LegalForm",
          "DenyList", "Gazetteer", "NameCorpus"}
    [] OTHER -> {}

(* The detectors that record a profile of their own.                       *)
Profiled == {"NameCorpus", "AddressSeed"}

Init ==
  /\ call = NoCall /\ active = {} /\ step = "idle"
  /\ passes = <<>> /\ events = <<>> /\ cursor = 0
  /\ delivered = <<>> /\ shown = <<>> /\ session = "before"

(* The events a step records, when the call collects diagnostics.          *)
Recorded(es) == IF call.diagnostics THEN events \o es ELSE events

(* Slip: the cursor stays where it is.                                     *)
ObserveAgain(es) ==
  IF call.batches /\ Len(es) > cursor
  THEN delivered' = delivered \o SubSeq(es, cursor + 1, Len(es)) /\ UNCHANGED cursor
  ELSE UNCHANGED <<cursor, delivered>>

(* DiagnosticEventStream::observe: the events since the last batch.        *)
Observe(es) ==
  IF call.batches /\ Len(es) > cursor
  THEN delivered' = delivered \o SubSeq(es, cursor + 1, Len(es)) /\ cursor' = Len(es)
  ELSE UNCHANGED <<cursor, delivered>>

Show(result) == shown' = IF call.results THEN Append(shown, result) ELSE shown

(* A host that watches diagnostics first takes those of the preparation.   *)
Begin(c, detectors) ==
  /\ step = "idle"
  /\ call' = c /\ active' = detectors
  /\ step' = "validate"
  /\ delivered' = IF c.batches THEN PrepareEvents ELSE <<>>
  /\ UNCHANGED <<passes, events, cursor, shown, session>>

(* The session is active, the text is in bounds and no caller detection    *)
(* comes twice.                                                            *)
Validate ==
  /\ step = "validate"
  /\ step' = "detect"
  /\ events' = Recorded(IF call.caller THEN <<"CallerInput">> ELSE <<>>)
  /\ UNCHANGED <<call, active, passes, cursor, delivered, shown, session>>

Pushed == {passes[i].detector : i \in 1..Len(passes)}

(* The next detector of the registry: it runs if it is active, and reads   *)
(* those of its dependencies that are there; a missing layer reads empty.  *)
Detect ==
  /\ step = "detect" /\ Len(passes) < Len(Registry)
  /\ LET d == Registry[Len(passes) + 1]
     IN /\ passes' = Append(passes, [detector |-> d, context |-> Dependencies(d) \cap Pushed])
        /\ events' = Recorded(IF d \in active \cap Profiled THEN <<<<d, "profile">>>> ELSE <<>>)
  /\ UNCHANGED <<call, active, step, cursor, delivered, shown, session>>

(* All layers are there: their diagnostics, then the host sees them.       *)
EndDetection ==
  /\ step = "detect" /\ Len(passes) = Len(Registry)
  /\ events' = Recorded(<<"DetectTotal">> \o [i \in 1..Len(passes) |-> passes[i].detector])
  /\ Show("detected") /\ Observe(events')
  /\ step' = "adjust"
  /\ UNCHANGED <<call, active, passes, session>>

(* Zones, hotwords and city names split over two lines.                    *)
Adjust ==
  /\ step = "adjust"
  /\ events' = Recorded(<<"ZoneAdjustment", "Hotword">>)
  /\ Observe(events')
  /\ step' = "AddressContext"
  /\ UNCHANGED <<call, active, passes, shown, session>>

Following ==
  [AddressContext |-> "Merge", Merge |-> "Boundary", Boundary |-> "Sanitize",
   Sanitize |-> "show resolved"]

(* The steps of the resolution, each recorded and handed over: policy and  *)
(* address context; merging; boundaries; sanitizing, the false positives,  *)
(* the policy again and coreference.                                       *)
Resolve(s) ==
  /\ step = s
  /\ events' = Recorded((IF s = "Sanitize" THEN <<"Coreference">> ELSE <<>>) \o <<s>>)
  /\ Observe(events')
  /\ step' = Following[s]
  /\ UNCHANGED <<call, active, passes, shown, session>>

ShowResolved ==
  /\ step = "show resolved"
  /\ events' = Recorded(IF call.caller THEN <<"CallerRetained">> ELSE <<>>)
  /\ Show("resolved")
  /\ step' = "redact"
  /\ UNCHANGED <<call, active, passes, cursor, delivered, session>>

(* The text is rewritten; the session takes its new pseudonyms in the same *)
(* step, all or none.                                                      *)
Redact ==
  /\ step = "redact"
  /\ session' = IF call.session THEN "after" ELSE session
  /\ step' = "show redacted"
  /\ UNCHANGED <<call, active, passes, events, cursor, delivered, shown>>

ShowRedacted ==
  /\ step = "show redacted"
  /\ Show("redacted")
  /\ events' = Recorded(<<"Redaction", "RedactTotal">>)
  /\ Observe(events')
  /\ step' = "done"
  /\ UNCHANGED <<call, active, passes, session>>

(* Slip: a session call can still fail once its text is redacted.          *)
MayFailAnywhere == step \notin {"idle", "done", "failed"}

(* Every step may return an error, the host that watches included; once    *)
(* the text is redacted only a host can still fail the call.               *)
MayFail ==
  /\ step \notin {"idle", "done", "failed"}
  /\ step = "show redacted" => call.batches \/ call.results

Fail ==
  /\ MayFail
  /\ step' = "failed"
  /\ UNCHANGED <<call, active, passes, events, cursor, delivered, shown, session>>

Next ==
  \/ \E c \in EntryPoints, detectors \in ActiveSets : Begin(c, detectors)
  \/ Validate \/ Detect \/ EndDetection \/ Adjust
  \/ \E s \in DOMAIN Following : Resolve(s)
  \/ ShowResolved \/ Redact \/ ShowRedacted \/ Fail

-----------------------------------------------------------------------------
(* "Session state is updated only when detection, resolution, and          *)
(* redaction all succeed" (prepared.rs:137), and the caller hears of it:   *)
(* a call that failed left the session as it was, one that returned        *)
(* committed it.                                                           *)
SessionFollowsTheCall ==
  /\ step = "failed" => session = "before"
  /\ step = "done" => (session = "after" <=> call.session)

(* A host that watches gets every event once and in order, never more than *)
(* the report returned at the end, and all of it when the call succeeds.   *)
StreamMatchesReport ==
  /\ step # "idle" /\ call.batches =>
       /\ IsPrefix(delivered, PrepareEvents \o events)
       /\ step = "done" => delivered = PrepareEvents \o events
  /\ step = "done" /\ call.results => shown = <<"detected", "resolved", "redacted">>

(* A detector reads every layer it declares, never one that is missing     *)
(* because its detector comes later (timing.rs:110 reads it as empty).     *)
ContextsAreComplete ==
  \A i \in 1..Len(passes) : passes[i].context = Dependencies(passes[i].detector)

CallsAreConsistent == SessionFollowsTheCall /\ StreamMatchesReport /\ ContextsAreComplete
=============================================================================
