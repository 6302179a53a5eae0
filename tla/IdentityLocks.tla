------------------------------ MODULE IdentityLocks ------------------------------
(***************************************************************************)
(* The row locks behind a key change (src/src/identity-store.ts).  A       *)
(* confirmation locks its own staged row, then the resident, then every    *)
(* staged sibling it invalidates; the generation of a code set locks the   *)
(* resident and then the staged rows.  Two of them can wait for each       *)
(* other: PostgreSQL then aborts one (40P01), and only a confirmation is   *)
(* tried again, once (retryIdentityDeadlockOnce).                          *)
(***************************************************************************)
EXTENDS Naturals, Sequences, FiniteSets

CONSTANTS
  Confirms,    \* confirmations, each of a staged row of its own
  Generates,   \* calls of generateRecoveryCodes
  Res,         \* the resident row
  None

Callers == Confirms \cup Generates
Rows == Confirms \cup {Res}

VARIABLES
  row,    \* staged rows: "staged", "used" or "invalid"
  lock,   \* who holds each row's lock
  queue,  \* who waits for the resident row, in order
  call    \* where each call is, how often it was tried, what it answered

vars == <<row, lock, queue, call>>

\* Types; a call that has ended or not begun holds no lock.
TypeOK ==
  /\ \A x \in Rows : lock[x] # None => call[lock[x]].pc \in {"resident", "rows"}
  /\ queue \in Seq(Callers)
  /\ row \in [Confirms -> {"staged", "used", "invalid"}]
  /\ lock \in [Rows -> Callers \cup {None}]
  /\ call \in [Callers -> [pc : {"idle", "own", "resident", "rows", "done"}, tries : 1 .. 2,
                         result : {"none", "won", "unavailable", "error"}]]

Init ==
  /\ row = [t \in Confirms |-> "staged"]
  /\ lock = [x \in Rows |-> None]
  /\ queue = <<>>
  /\ call = [t \in Callers |-> [pc |-> "idle", tries |-> 1, result |-> "none"]]

\* Where a statement begins: FOR UPDATE OF code, resident, or of the resident.
First(t) == IF t \in Confirms THEN "own" ELSE "resident"

MutantReleasesResident(t) == [lock EXCEPT ![Res] = IF @ = t THEN None ELSE @]

\* A transaction ends: its rows go to whoever was waiting for them, which for
\* a staged row is the call that holds the resident.
Released(t) ==
  [x \in Rows |-> IF lock[x] # t THEN lock[x]
                  ELSE IF x # Res /\ lock[Res] # t THEN lock[Res] ELSE None]

Begin(t) ==
  /\ call[t].pc = "idle"
  /\ call' = [call EXCEPT ![t].pc = First(t)]
  /\ queue' = IF t \in Generates THEN Append(queue, t) ELSE queue
  /\ UNCHANGED <<row, lock>>

MutantStillStaged(t) == TRUE

\* The row is re-read under its lock.
StillStaged(t) == row[t] = "staged"

CanLockOwn(t) == call[t].pc = "own" /\ lock[t] = None

LockOwn(t) ==
  /\ CanLockOwn(t)
  /\ \/ /\ StillStaged(t)
        /\ lock' = [lock EXCEPT ![t] = t]
        /\ call' = [call EXCEPT ![t].pc = "resident"]
        /\ queue' = Append(queue, t)
     \/ /\ ~StillStaged(t)
        /\ call' = [call EXCEPT ![t].pc = "done", ![t].result = "unavailable"]
        /\ UNCHANGED <<lock, queue>>
  /\ UNCHANGED row

CanLockResident(t) == call[t].pc = "resident" /\ lock[Res] = None /\ Head(queue) = t

LockResident(t) ==
  /\ CanLockResident(t)
  /\ queue' = Tail(queue)
  /\ lock' = [lock EXCEPT ![Res] = t]
  /\ call' = [call EXCEPT ![t].pc = "rows"]
  /\ UNCHANGED row

\* Staged rows the invalidating update has still to lock.
Ahead(t) == {s \in Confirms : row[s] = "staged" /\ lock[s] # t}

CanLockRow(t, s) == call[t].pc = "rows" /\ s \in Ahead(t) /\ lock[s] = None

LockRow(t, s) ==
  /\ CanLockRow(t, s)
  /\ lock' = [lock EXCEPT ![s] = t]
  /\ UNCHANGED <<row, queue, call>>

CanCommit(t) == call[t].pc = "rows" /\ Ahead(t) = {}

Commit(t) ==
  /\ CanCommit(t)
  /\ row' = [s \in Confirms |-> IF s = t THEN "used"
                                ELSE IF row[s] = "staged" THEN "invalid" ELSE row[s]]
  /\ lock' = Released(t)
  /\ call' = [call EXCEPT ![t].pc = "done", ![t].result = "won"]
  /\ UNCHANGED queue

Wants(t) ==
  CASE call[t].pc = "own" -> {t}
    [] call[t].pc = "resident" -> {Res}
    [] call[t].pc = "rows" -> Ahead(t)
    [] OTHER -> {}

WaitsFor(t, u) == t # u /\ \E x \in Wants(t) : lock[x] = u

Deadlocked(t) == \E u \in Callers : WaitsFor(t, u) /\ WaitsFor(u, t)

MutantRetryAlways(t) == t \in Confirms

\* retryIdentityDeadlockOnce
RetryAllowed(t) == t \in Confirms /\ call[t].tries < 2

\* Who waits for the resident row is in the queue once.
Without(t) ==
  LET at == {i \in 1 .. Len(queue) : queue[i] = t} IN
  IF at = {} THEN queue
  ELSE LET i == CHOOSE i \in at : TRUE
       IN  SubSeq(queue, 1, i - 1) \o SubSeq(queue, i + 1, Len(queue))

\* The victim of a deadlock: its statement is undone, its locks are free.
DeadlockAborts(t) ==
  /\ Deadlocked(t)
  /\ lock' = Released(t)
  /\ queue' = Without(t)
  /\ call' = [call EXCEPT ![t] =
       IF RetryAllowed(t) THEN [pc |-> First(t), tries |-> 2, result |-> "none"]
       ELSE [@ EXCEPT !.pc = "done", !.result = "error"]]
  /\ UNCHANGED row

Step(t) ==
  \/ LockOwn(t) \/ LockResident(t) \/ Commit(t) \/ DeadlockAborts(t)
  \/ \E s \in Confirms : LockRow(t, s)

\* A call that can take a step.
Ready(t) ==
  \/ CanLockOwn(t) \/ CanLockResident(t) \/ CanCommit(t) \/ Deadlocked(t)
  \/ \E s \in Confirms : CanLockRow(t, s)

Ended == (\A t \in Callers : call[t].pc = "done") /\ UNCHANGED vars

Next == (\E t \in Callers : Begin(t) \/ Step(t)) \/ Ended

Spec == Init /\ [][Next]_vars

-----------------------------------------------------------------------------
(* Properties                                                              *)

\* Of the confirmations that run at once, with deadlocks and second tries in
\* any order, at most one changes the key; while a call that began has not
\* ended, one of them can go on, so aborts and second tries leave nobody
\* waiting on everybody; and when all ended, a confirmation or a code set won.
OneConfirmationWins ==
  /\ \A t, u \in Confirms : call[t].result = "won" /\ call[u].result = "won" => t = u
  /\ (\E t \in Callers : call[t].pc \notin {"idle", "done"}) => \E t \in Callers : Ready(t)
  /\ (\A t \in Callers : call[t].pc = "done") => \E t \in Callers : call[t].result = "won"
=============================================================================
