---------------------------- MODULE TriggerValues ----------------------------
(* What a trigger phrase takes from the text after it (triggers.rs): up to *)
(* a comma, to the end of the line, some words, or an address.  The text   *)
(* is scanned through a window of fixed length, so that a long document is *)
(* not read to its end for every trigger.                                  *)
(*                                                                         *)
(* A character is its class; "w" is a letter that is also the one stop     *)
(* word and stop keyword, "p" one also the post-nominal, and "ee" a letter *)
(* of two bytes.  Left out are currency terms, party positions,            *)
(* phone numbers, company ids and patterns.                                *)
EXTENDS Integers, Sequences, FiniteSets, SequencesExt, FiniteSetsExt

CONSTANTS
  Characters,
  MaxTail,
  LineWindow,      \* LINE_TRIGGER_LOOKAHEAD
  Margin,          \* TRIGGER_LOOKAHEAD_MARGIN
  Cap,             \* max_length and max_chars of the rules that have one
  MaxValue,        \* MAX_TRIGGER_VALUE_LEN
  LongTail,        \* the letters that make the end of a word long
  NameTail         \* the lower-case letters that make a name

VARIABLE tail      \* the text after the trigger

Init == tail = <<>>

Letters == {"A", "a", "w", "p", "ee"}
Lower == Letters \ {"A"}
WordCharacters == Letters \cup {"9"}
Blanks == {" ", "nl", "tab"}
LineStops == {"nl", "tab", "("}

At(t, i) == IF i \in DOMAIN t THEN t[i] ELSE "end"
InWord(t, i) == At(t, i) \in WordCharacters /\ At(t, i + 1) \in WordCharacters

(* The first position from i on that is not in the class, and the number   *)
(* of characters of the class right before i                               *)
Past(t, i, class) == Min({j \in i..(Len(t) + 1) : At(t, j) \notin class} \cup {Len(t) + 1})
Behind(t, i, class) == Max({n \in 0..(i - 1) : \A j \in (i - n)..(i - 1) : t[j] \in class})

-----------------------------------------------------------------------------
(* is_sentence_terminator, for the period at i                             *)
NextIsSentenceStart(t, i) ==
  LET next == Past(t, i + 1, Blanks)
  IN next > Len(t) \/ (next > i + 1 /\ t[next] = "A")

NextIsRealSentence(t, i) ==
  LET next == Past(t, i + 1, Blanks)
  IN next > i + 1 /\ At(t, next) = "A" /\ At(t, next + 1) \in Lower /\ At(t, next + 2) \in Lower

(* proper_noun_tail                                                        *)
NameBefore(t, i) ==
  LET start == i - Behind(t, i, Letters)
  IN /\ At(t, start) = "A" /\ i - start - 1 >= NameTail
     /\ \A j \in (start + 1)..(i - 1) : t[j] \in Lower
     /\ At(t, start - 1) # "."

EndsSentence(t, i) ==
  /\ t[i] = "." /\ NextIsSentenceStart(t, i)
  /\ \/ Behind(t, i, Lower) >= LongTail
     \/ At(t, i - 1) = "9"
     \/ NameBefore(t, i) /\ NextIsRealSentence(t, i)

(* hits_stop_word: the byte before is looked at, which of a letter of two  *)
(* bytes is no character                                                   *)
HitsStopWord(t, i) ==
  /\ At(t, i) = "w" /\ At(t, i + 1) \notin WordCharacters
  /\ At(t, i - 1) \notin WordCharacters \ {"ee"}

(* post_nominal_len: where the term after the comma at i ends, with its    *)
(* period, i if there is none                                              *)
PostNominalEnd(t, i) ==
  LET term == Past(t, i + 1, Blanks)
  IN IF At(t, term) # "p" THEN i ELSE IF At(t, term + 1) = "." THEN term + 2 ELSE term + 1

(* take_soft_wrapped_capitalized_run: where the run of capitalized words   *)
(* from i on ends; where it begins, if there is none or it is too long     *)
RECURSIVE WrappedRun(_, _, _)
WrappedRun(t, i, from) ==
  LET word == Past(t, i, {" ", "tab"})
      end == Past(t, word, Letters)
      TooFar(j) == j >= from + LineWindow /\ from + LineWindow <= Len(t)
  IN IF TooFar(word) THEN from
     ELSE IF At(t, word) # "A" THEN (IF i = from THEN from ELSE word)
     ELSE IF TooFar(end) THEN from
     ELSE WrappedRun(t, end, from)

Stop(i) == [stop |-> TRUE, to |-> i]
Advance(i) == [stop |-> FALSE, to |-> i]

(* scan_step, at a position of the text                                    *)
ScanStep(t, i, label) ==
  IF t[i] \in LineStops
  THEN LET wrapped == WrappedRun(t, i + 1, i + 1)
       IN IF t[i] = "nl" /\ label = "address" /\ wrapped > i + 1 THEN Stop(wrapped) ELSE Stop(i)
  ELSE IF EndsSentence(t, i) \/ HitsStopWord(t, i) THEN Stop(i)
  ELSE IF t[i] # "," \/ At(t, i + 1) = "9" THEN Advance(i + 1)
  ELSE IF label = "person" /\ PostNominalEnd(t, i) > i THEN Advance(PostNominalEnd(t, i))
  ELSE Stop(i)

RECURSIVE Scan(_, _, _, _)
Scan(t, i, limit, label) ==
  IF i > Min({limit, Len(t)}) THEN Advance(i)
  ELSE LET step == ScanStep(t, i, label)
       IN IF step.stop THEN step ELSE Scan(t, step.to, limit, label)

(* skip_trimmable_padding                                                  *)
PastPadding(t, i) == Min({Past(t, i, {" "}), i + LineWindow})

(* Slip: what follows the window is not looked at.                         *)
NeverClipped(t, scan, label) == FALSE

(* The value goes on beyond the window: there is text after it, and it is  *)
(* no delimiter.                                                           *)
Clipped(t, scan, label) ==
  LET next == PastPadding(t, scan.to)
  IN ~scan.stop /\ next <= Len(t)
       /\ LET step == ScanStep(t, next, label) IN ~step.stop \/ step.to > next

-----------------------------------------------------------------------------
NoValue == <<>>

(* byte_value: the blanks around a value are not part of it                *)
Trimmed(t, end) ==
  LET solid == {i \in 1..(end - 1) : t[i] \notin Blanks}
  IN IF solid = {} THEN NoValue ELSE <<Min(solid), Max(solid)>>

(* Slip: the text is cut where it reaches the length.                      *)
CutAt(t, length) == Min({length, Len(t)}) + 1

(* cap_at_word_boundary                                                    *)
CapAtWord(t, length) ==
  1 + Max({n \in 0..Min({length, Len(t)}) : n = 0 \/ ~InWord(t, n)})

(* extract_to_next_comma, of at most limit characters; a cap of 0 is none  *)
ToNextComma(t, limit, label, cap) ==
  LET scan == Scan(t, 1, limit, label)
      end == IF scan.stop THEN scan.to ELSE PastPadding(t, scan.to)
  IN IF cap = 0 /\ Clipped(t, scan, label) THEN NoValue
     ELSE Trimmed(t, IF cap > 0 /\ end - 1 > cap THEN CapAtWord(t, cap) ELSE end)

(* extract_to_end_of_line, of a text that the window has cut               *)
ToEndOfLine(t) ==
  LET stops == {i \in DOMAIN t : t[i] \in {"nl", "tab"}}
  IN Trimmed(t, IF stops # {} THEN Min(stops) ELSE CapAtWord(t, MaxValue))

AddressStop(t, i) == At(t, i) = "w" /\ At(t, i + 1) \notin Letters

(* extract_address: whether the scan goes on past position i               *)
AddressGoesOn(t, i) ==
  LET next == Past(t, i + 1, Blanks)
  IN CASE t[i] \in {"nl", "("} -> FALSE
       [] t[i] \in {" ", "tab"} -> ~AddressStop(t, next)
       [] t[i] = "." -> /\ ~AddressStop(t, next)
                        /\ At(t, next) \in WordCharacters
                        /\ \/ next = i + 1
                           \/ t[i + 1] = " " /\ ~EndsSentence(t, i)
       [] t[i] = "," -> ~AddressStop(t, next) /\ At(t, next) \in {"9", "A"}
       [] OTHER -> TRUE

ToAddressEnd(t) ==
  LET end == Min({i \in 1..(Min({Cap, Len(t)}) + 1) :
                    i > Cap \/ i > Len(t) \/ ~AddressGoesOn(t, i)})
      spaces == {i \in 2..(end - 1) : t[i] = " "}
  IN Trimmed(t, IF end > Cap /\ spaces # {} THEN Max(spaces) ELSE end)

-----------------------------------------------------------------------------
(* extract_value: the window begins where the trigger ends, the value      *)
(* after the blanks.                                                       *)
Padding(t) == Past(t, 1, Blanks) - 1
InWindow(t, length) == SubSeq(t, Padding(t) + 1, Min({length, Len(t)}))
Value(t) == SubSeq(t, Padding(t) + 1, Len(t))

(* Slip: a rule without a cap gets the cap of other values.                *)
CommaValueFallback(label, length, cap) ==
  IF Padding(tail) >= Min({length, Len(tail)}) THEN NoValue
  ELSE ToNextComma(Value(tail), length - Padding(tail), label, IF cap = 0 THEN MaxValue ELSE cap)

CommaValue(label, length, cap) ==
  IF Padding(tail) >= Min({length, Len(tail)}) THEN NoValue
  ELSE ToNextComma(Value(tail), length - Padding(tail), label, cap)

LineValue ==
  IF \E i \in 1..Padding(tail) : tail[i] = "nl" THEN NoValue
  ELSE ToEndOfLine(InWindow(tail, LineWindow))

AddressValue == ToAddressEnd(InWindow(tail, Cap + Margin))

Read(c) == Len(tail) < MaxTail /\ tail' = Append(tail, c)

Next == \E c \in Characters : Read(c)

Spec == Init /\ [][Next]_tail

-----------------------------------------------------------------------------
ValueLabels == {"person", "address", "other"}

(* What a scan of the whole text takes                                     *)
WholeValue(label) == ToNextComma(Value(tail), Len(tail), label, 0)

(* The window never cuts a value short: what is taken is what a scan of    *)
(* the whole text takes, or nothing; and nothing only if that value does   *)
(* not end within the window, blanks that are a window long aside          *)
(* (triggers.rs:899-914).  This is what a rule without max_length does     *)
(* (triggers.rs:640, 1264-1272, and the test at 3771-3819: "genuinely      *)
(* uncapped"); packages/anonymize/src/types.ts:103-110 says otherwise:     *)
(* "Falls back to the default 100-char fallback when omitted."             *)
WindowsDoNotCut ==
  \A label \in ValueLabels :
    LET whole == WholeValue(label)
        taken == CommaValue(label, LineWindow, 0)
    IN taken # whole =>
         /\ taken = NoValue
         /\ \/ whole[2] + Padding(tail) > LineWindow
            \/ \E i \in DOMAIN tail : Past(tail, i, {" "}) - i >= LineWindow

(* A value that is capped is the whole value as far as the cap allows      *)
(* without cutting a word; the blanks before it must leave the window more *)
(* than the cap (triggers.rs:915-920, 1264-1287).                          *)
CapsCutBetweenWords ==
  Padding(tail) < Margin =>
    \A label \in ValueLabels :
      LET whole == WholeValue(label)
          taken == CommaValue(label, Cap + Margin, Cap)
          fits == {n \in 1..Cap : ~InWord(Value(tail), n)}
      IN taken = IF whole = NoValue \/ whole[2] <= Cap THEN whole
                 ELSE IF fits = {} THEN NoValue ELSE Trimmed(Value(tail), Max(fits) + 1)

(* A value of the rest of a line is on the line of its trigger, and an     *)
(* address on one line and outside brackets; neither ends inside a word,   *)
(* save an address of one word (triggers.rs:928-961, 1041-1121).           *)
LinesAreKept ==
  LET line == LineValue
      address == AddressValue
      words == Value(tail)
  IN /\ line # NoValue /\ Padding(tail) + MaxValue < LineWindow =>
          /\ ~\E i \in 1..(Padding(tail) + line[2]) : tail[i] = "nl"
          /\ ~InWord(words, line[2])
     /\ address # NoValue /\ Padding(tail) < Margin =>
          /\ address[2] <= Cap
          /\ ~\E i \in address[1]..address[2] : words[i] \in {"nl", "("}
          /\ InWord(words, address[2]) => ~\E i \in 2..address[2] : words[i] = " "

ValuesAreWhole == WindowsDoNotCut /\ CapsCutBetweenWords /\ LinesAreKept

(* "Matched on a word-boundary" (packages/anonymize/src/types.ts:99): a    *)
(* stop word ends no value in the middle of a word.                        *)
StopWordsAreWords ==
  LET whole == WholeValue("other")
  IN whole # NoValue => ~InWord(Value(tail), whole[2])
=============================================================================
