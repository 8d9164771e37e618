--------------------------- MODULE ScopedBranches ---------------------------
(* The fan-out of independent work over scoped threads (exec.rs), as the   *)
(* preparation of an engine and the search of a long text use it: an owner *)
(* spawns its branches in a fixed order, joins them in the same order and  *)
(* gives up at the first that failed; leaving the scope waits for every    *)
(* branch that was spawned.  A branch may fan out itself.                  *)
(*                                                                         *)
(* What a branch computes is left out: it succeeds, returns an error or    *)
(* panics, and which of the three is fixed before it starts, because a     *)
(* branch reads nothing another one writes.                                *)
EXTENDS Naturals, Sequences

CONSTANTS Trees,     \* the fan-outs: functions from branches to the sequences they spawn
          Whole,     \* the branch that is the call itself
          Pending    \* the outcome of a branch that has not ended

VARIABLES tree,      \* the fan-out of this call
          plan,      \* how each branch without branches of its own ends
          spawned,   \* how many of its branches each branch has spawned
          joined,    \* how many of them it has joined with success
          outcome    \* how each branch ended

vars == <<tree, plan, spawned, joined, outcome>>

Endings == {"ok", "error", "panic"}
Branches(t) == DOMAIN t
Leaves(t) == {b \in Branches(t) : t[b] = <<>>}

(* Results: an error names the branch it comes from; a panic met by join   *)
(* becomes an error of its own, naming the branch that was joined.         *)
Result(ending, b) == [ending |-> ending, at |-> b]
Good(r) == r # Pending /\ r.ending = "ok"
Panicked(r) == r # Pending /\ r.ending = "panic"
JoinFailure(r, b) == IF Panicked(r) THEN Result("panicked", b) ELSE r

Init ==
  /\ tree = <<>> /\ plan = <<>>
  /\ spawned = <<>> /\ joined = <<>> /\ outcome = <<>>

Begun == tree # <<>>

(* A call: an engine is prepared, or a text of 32 KiB or more is searched  *)
(* with the indexes that are not empty.                                    *)
Begin(t) ==
  /\ ~Begun
  /\ tree' = t
  /\ plan' \in [Leaves(t) -> Endings]
  /\ spawned' = [b \in Branches(t) |-> 0]
  /\ joined' = [b \in Branches(t) |-> 0]
  /\ outcome' = [b \in Branches(t) |-> Pending]

(* The branches an owner has started so far, and the next one it joins.    *)
Started(b) == {tree[b][i] : i \in 1..spawned[b]}
NextJoined(b) == tree[b][joined[b] + 1]
Running(b) ==
  /\ outcome[b] = Pending
  /\ b = Whole \/ \E owner \in Branches(tree) : b \in Started(owner)
AllSpawned(b) == spawned[b] = Len(tree[b])

(* scope.spawn: the next branch starts on a thread of its own.             *)
Spawn(b) ==
  /\ Running(b) /\ ~AllSpawned(b)
  /\ spawned' = [spawned EXCEPT ![b] = @ + 1]
  /\ UNCHANGED <<tree, plan, joined, outcome>>

(* A branch without branches of its own does its work, whenever its thread *)
(* is scheduled.                                                           *)
Work(b) ==
  /\ Running(b) /\ b \in Leaves(tree)
  /\ outcome' = [outcome EXCEPT ![b] = Result(plan[b], b)]
  /\ UNCHANGED <<tree, plan, spawned, joined>>

(* handle.join()? of the next branch, once it has ended well.              *)
Join(b) ==
  /\ Running(b) /\ AllSpawned(b) /\ joined[b] < Len(tree[b])
  /\ Good(outcome[NextJoined(b)])
  /\ joined' = [joined EXCEPT ![b] = @ + 1]
  /\ UNCHANGED <<tree, plan, spawned, outcome>>

AwaitsAll(b) == \A c \in Started(b) : outcome[c] # Pending

(* Slip: the scope is left without waiting.                               *)
LeavesAtOnce(b) == TRUE

(* The scope cannot be left before every branch has ended.                 *)
MayLeave(b) == AwaitsAll(b)

(* Every join succeeded: so does the owner.                                *)
Succeed(b) ==
  /\ Running(b) /\ b \notin Leaves(tree)
  /\ joined[b] = Len(tree[b]) /\ MayLeave(b)
  /\ outcome' = [outcome EXCEPT ![b] = Result("ok", b)]
  /\ UNCHANGED <<tree, plan, spawned, joined>>

FailedBranches(b) == {c \in Started(b) : outcome[c] # Pending /\ ~Good(outcome[c])}

(* Slip: the failure that is seen first counts.                            *)
FirstSeenFailure(b) == CHOOSE c \in FailedBranches(b) : TRUE

(* The join whose `?` ends the body of the scope.                          *)
FailedJoin(b) == NextJoined(b)

Unjoined(b) == {tree[b][i] : i \in joined[b] + 2..Len(tree[b])}

(* The first failure in join order is the owner's; a panic that nobody     *)
(* joined resurfaces when the scope is left.                               *)
Fail(b) ==
  /\ Running(b) /\ AllSpawned(b) /\ joined[b] < Len(tree[b])
  /\ NextJoined(b) \in FailedBranches(b) /\ MayLeave(b)
  /\ outcome' = [outcome EXCEPT ![b] =
       IF \E c \in Unjoined(b) : Panicked(outcome[c]) THEN Result("panic", b)
       ELSE JoinFailure(outcome[FailedJoin(b)], FailedJoin(b))]
  /\ UNCHANGED <<tree, plan, spawned, joined>>

Next ==
  \/ \E t \in Trees : Begin(t)
  \/ \E b \in Branches(tree) :
       Spawn(b) \/ Work(b) \/ Join(b) \/ Succeed(b) \/ Fail(b)

Spec == Init /\ [][Next]_vars

-----------------------------------------------------------------------------
(* The same work on one thread, one branch after the other, as a short     *)
(* text is searched and as WebAssembly runs every scope: the first failure *)
(* ends it, a panic unwinds through it.                                    *)
OneByOne[b \in Branches(tree)] ==
  IF tree[b] = <<>> THEN Result(plan[b], b)
  ELSE LET failing == {i \in 1..Len(tree[b]) : ~Good(OneByOne[tree[b][i]])}
           first == CHOOSE i \in failing : \A j \in failing : i <= j
       IN IF failing = {} THEN Result("ok", b)
          ELSE IF Panicked(OneByOne[tree[b][first]]) THEN Result("panic", b)
          ELSE OneByOne[tree[b][first]]

Harmless == \A b \in Leaves(tree) : plan[b] # "panic"

(* "Results are byte-identical because every spawned branch is independent *)
(* and deterministic" (exec.rs:6): however the threads are scheduled, the  *)
(* call ends as the same work does on one thread, naming the same error.   *)
(* When a branch panics the call still cannot succeed.                     *)
SchedulesAgree ==
  Begun /\ outcome[Whole] # Pending =>
    /\ Harmless => outcome[Whole] = OneByOne[Whole]
    /\ Good(outcome[Whole]) <=> \A b \in Leaves(tree) : plan[b] = "ok"

(* No branch is still running, borrowing the text and the engine, once its *)
(* owner has returned (exec.rs:43).                                        *)
NothingOutlivesItsScope ==
  \A b \in Branches(tree) : outcome[b] # Pending => AwaitsAll(b)

BranchesAreConfined == SchedulesAgree /\ NothingOutlivesItsScope
=============================================================================
