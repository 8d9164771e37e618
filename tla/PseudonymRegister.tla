------------------------- MODULE PseudonymRegister -------------------------
(***************************************************************************)
(* What a redaction session promises, without counters, plans or           *)
(* lifecycles: a book of entries [id, ph, original] in which an identity   *)
(* and a placeholder determine each other, which only grows while it is    *)
(* open, and which can be saved and taken up again.                        *)
(***************************************************************************)
CONSTANTS
  Entry,      \* the entries that may be written
  Foreign     \* books supplied from outside

VARIABLES
  book,       \* the entries of the live session
  closed,     \* the session was deleted
  saved       \* books exported so far

registerVars == <<book, closed, saved>>

Consistent(b) == \A m, n \in b : m.id = n.id \/ m.ph = n.ph => m = n

Init == book = {} /\ closed = FALSE /\ saved = {}

(* One document's new entries, all at once, next to those already there.   *)
Extend ==
  /\ ~closed
  /\ book' \subseteq Entry /\ book \subseteq book' /\ Consistent(book')
  /\ UNCHANGED <<closed, saved>>

Close == ~closed /\ closed' = TRUE /\ book' = {} /\ UNCHANGED saved

Save == ~closed /\ saved' = saved \cup {book} /\ UNCHANGED <<book, closed>>

TakeUp ==
  /\ book' \in saved \cup Foreign /\ Consistent(book')
  /\ closed' = FALSE /\ UNCHANGED saved

Next == Extend \/ Close \/ Save \/ TakeUp

Spec == Init /\ [][Next]_registerVars
=============================================================================
