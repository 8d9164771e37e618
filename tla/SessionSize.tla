----------------------------- MODULE SessionSize -----------------------------
(***************************************************************************)
(* The length a session has when serialized, kept beside its counters and  *)
(* mappings without serializing it (session.rs).  A later export fails for *)
(* good when the kept length is not the real one.                          *)
(*                                                                         *)
(* Lengths are in bytes; a mapping is the length of what it serializes to  *)
(* apart from the number in its placeholder.                               *)
(***************************************************************************)
EXTENDS Integers, Sequences, FiniteSets, SequencesExt

CONSTANTS
  Keys,          \* label keys
  KeyLength,     \* the length of one, quoted
  Bodies,        \* lengths of mappings
  Skips,         \* numbers a document may reserve in front of a new one
  MaxMentions,   \* new mappings of one document
  Radix,         \* numbers are written in this base
  EmptyLength,   \* the length of a session without counters and mappings
  MaxLength      \* MAX_SESSION_STATE_BYTES

VARIABLES
  counters,      \* the last number of every key in use
  mappings,      \* the serialized lengths of the mappings
  kept,          \* serialized_len
  deleted

vars == <<counters, mappings, kept, deleted>>

Width(n) == CHOOSE w \in 1..n : Radix^(w - 1) <= n /\ n < Radix^w

Mentions == [key : Keys, body : Bodies, skip : Skips]
Documents == UNION {[1..n -> Mentions] : n \in 1..MaxMentions}

Sum(s) == FoldLeft(LAMBDA total, n : total + n, 0, s)

Separators(n) == IF n > 0 THEN n - 1 ELSE 0

CounterLength(n) == KeyLength + 1 + Width(n)

(* What serializing gives.                                                 *)
SerializedLength ==
  LET keys == SetToSeq(DOMAIN counters)
  IN EmptyLength
     + Sum([i \in DOMAIN keys |-> CounterLength(counters[keys[i]])])
     + Separators(Len(keys))
     + Sum(mappings) + Separators(Len(mappings))

-----------------------------------------------------------------------------
(* New mappings of a document: the numbers they take.                      *)
CountOf(known, key) == IF key \in DOMAIN known THEN known[key] ELSE 0

WithCount(known, key, n) ==
  [k \in DOMAIN known \cup {key} |-> IF k = key THEN n ELSE known[k]]

Planned(mentions) ==
  FoldLeft(LAMBDA plan, mention :
             LET n == CountOf(plan.counters, mention.key) + mention.skip + 1
             IN [counters |-> WithCount(plan.counters, mention.key, n),
                 entries |-> Append(plan.entries, mention.body + Width(n))],
           [counters |-> counters, entries |-> <<>>], mentions)

(* A slip: two new keys are separated as if each were the first.           *)
ProjectedUncounted(plan) ==
  LET updated == SetToSeq({mentioned \in DOMAIN plan.counters :
                             CountOf(counters, mentioned) # plan.counters[mentioned]})
      Grown(key) ==
        IF key \in DOMAIN counters
        THEN Width(plan.counters[key]) - Width(counters[key])
        ELSE CounterLength(plan.counters[key]) + (IF counters # <<>> THEN 1 ELSE 0)
  IN kept + Sum([i \in DOMAIN updated |-> Grown(updated[i])])
     + Sum(plan.entries) + Len(plan.entries) - (IF mappings = <<>> THEN 1 ELSE 0)

(* The length after the update, from the length before: a known key grows  *)
(* by the width of its number, a new key and every mapping come with a     *)
(* separator unless they are the first.                                    *)
Projected(plan) ==
  LET updated == SetToSeq({key \in DOMAIN plan.counters :
                             CountOf(counters, key) # plan.counters[key]})
      AddCounter(total, key) ==
        IF key \in DOMAIN counters
        THEN [total EXCEPT !.bytes =
                @ - Width(counters[key]) + Width(plan.counters[key])]
        ELSE [bytes |-> total.bytes + CounterLength(plan.counters[key])
                        + (IF total.count > 0 THEN 1 ELSE 0),
              count |-> total.count + 1]
      AddEntry(total, entry) ==
        [bytes |-> total.bytes + entry + (IF total.count > 0 THEN 1 ELSE 0),
         count |-> total.count + 1]
      counted == FoldLeft(AddCounter,
                          [bytes |-> kept, count |-> Cardinality(DOMAIN counters)], updated)
  IN FoldLeft(AddEntry, [bytes |-> counted.bytes, count |-> Len(mappings)], plan.entries).bytes

-----------------------------------------------------------------------------
Init ==
  /\ counters = <<>> /\ mappings = <<>>
  /\ kept = EmptyLength
  /\ deleted = FALSE

(* A document is redacted; over the limit nothing changes.                 *)
Redact ==
  /\ ~deleted
  /\ \E mentions \in Documents :
       LET plan == Planned(mentions)
       IN /\ Projected(plan) <= MaxLength
          /\ counters' = plan.counters
          /\ mappings' = mappings \o plan.entries
          /\ kept' = Projected(plan)
  /\ UNCHANGED deleted

Delete ==
  /\ ~deleted
  /\ counters' = <<>> /\ mappings' = <<>>
  /\ kept' = 0
  /\ deleted' = TRUE

Next == Redact \/ Delete

Spec == Init /\ [][Next]_vars

-----------------------------------------------------------------------------
(* An active session knows its exact length, which is within the limit: it *)
(* can always be exported.                                                 *)
SizeIsKnown ==
  ~deleted => kept = SerializedLength /\ kept <= MaxLength
=============================================================================
