-------------------------------- MODULE DueTimers --------------------------------
(***************************************************************************)
(* The wait-then-do effects of a room (engine-effects.ts, engine-timer-     *)
(* store.ts).  An action schedules an effect; every visit of the room reads *)
(* the due ones in batches without a lock, and resolves each one in a       *)
(* transaction of its own that takes the effect's advisory lock and reads   *)
(* it again.  A repeating effect schedules its next turn in the same        *)
(* transaction.  Visits overlap, transactions fail, commits go through with *)
(* their answer lost, and a visit may end at any step.                      *)
(***************************************************************************)
EXTENDS Integers, Sequences, FiniteSets

CONSTANTS
  Visits,        \* invocations that observe the room
  Seconds,       \* the wait of an effect
  Repeats,       \* repeat_remaining of a new effect
  PendingMax,    \* MAX_PENDING_EFFECTS_PER_PLACE
  Generations,   \* MAX_EFFECT_GENERATIONS
  MaxEffects,    \* bound: effects ever scheduled
  MaxTime,       \* bound: ticks
  None

VARIABLES
  now,
  pending,     \* pending_effects
  resolution,  \* effect_resolutions.status, None while there is none
  ran,         \* how often the effects of a row were committed
  visit        \* the invocations

vars == <<now, pending, resolution, ran, visit>>

Away == [pc |-> "away"]

Init ==
  /\ now = 0
  /\ pending = <<>> /\ resolution = <<>> /\ ran = <<>>
  /\ visit = [v \in Visits |-> Away]

Unresolved == {e \in DOMAIN pending : resolution[e] = None}

\* Due and not resolved, as both reads of a visit ask it.
IsDue(e) == e \in Unresolved /\ pending[e].due <= now

-----------------------------------------------------------------------------
(* Scheduling                                                              *)

\* The queue of the place has room; its advisory lock keeps the count true.
HasRoom == Cardinality(Unresolved) < PendingMax

NewEffect(logical, left, generation, parent) ==
  [due |-> IF logical > now THEN logical ELSE now, logical |-> logical, left |-> left,
   generation |-> generation, parent |-> parent]

\* An action stores a wait.
scheduleEffect ==
  /\ Len(pending) < MaxEffects
  /\ HasRoom
  /\ \E left \in 0..Repeats : pending' = Append(pending, NewEffect(now + Seconds, left, 0, None))
  /\ resolution' = Append(resolution, None)
  /\ ran' = Append(ran, 0)
  /\ UNCHANGED <<now, visit>>

\* The next turn of a repeating effect counts from its logical time, not from now.
Repeated(e) ==
  /\ pending[e].left > 0
  /\ pending[e].generation < Generations

-----------------------------------------------------------------------------
(* Visits                                                                  *)

\* One read of the due effects.  An empty batch ends the visit.
dueRows(v) ==
  /\ visit[v].pc \in {"away", "next"}
  /\ LET batch == {e \in DOMAIN pending : IsDue(e)} IN
     visit' = [visit EXCEPT ![v] =
       IF batch = {} THEN Away ELSE [pc |-> "batch", batch |-> batch, failing |-> None]]
  /\ UNCHANGED <<now, pending, resolution, ran>>

\* The order of a batch: by due time, then by id.
Turn(v, e) ==
  /\ visit[v].pc = "batch" /\ visit[v].failing = None
  /\ e \in visit[v].batch
  /\ \A f \in visit[v].batch :
       \/ pending[e].due < pending[f].due
       \/ pending[e].due = pending[f].due /\ e <= f

Done(v, e) ==
  LET rest == visit[v].batch \ {e} IN
  [visit EXCEPT ![v] = IF rest = {} THEN [pc |-> "next"]
                       ELSE [pc |-> "batch", batch |-> rest, failing |-> None]]

\* The row read by the batch is used as it was.
MutantLoad(e) == e \in DOMAIN pending

\* Under the effect's lock the row is read again.
lockAndLoadPending(e) == IsDue(e)

\* One effect in its transaction: another visit was faster; or its member has
\* withdrawn consent and it is skipped; or its effects are applied, its next turn is
\* scheduled and its resolution is written.  Without an answer the row stays to fail.
resolveOne(v, e) ==
  /\ Turn(v, e)
  /\ IF ~lockAndLoadPending(e)
     THEN /\ visit' = Done(v, e)
          /\ UNCHANGED <<pending, resolution, ran>>
     ELSE /\ \/ /\ resolution' = [resolution EXCEPT ![e] = "skipped"]
                /\ UNCHANGED <<pending, ran>>
             \/ /\ ~Repeated(e)
                /\ resolution' = [resolution EXCEPT ![e] = IF @ = None THEN "applied" ELSE @]
                /\ ran' = [ran EXCEPT ![e] = @ + 1]
                /\ UNCHANGED pending
             \/ /\ Repeated(e) /\ HasRoom /\ Len(pending) < MaxEffects
                /\ pending' = Append(pending, NewEffect(pending[e].logical + Seconds, pending[e].left - 1,
                                                        pending[e].generation + 1, e))
                /\ resolution' = Append([resolution EXCEPT ![e] = IF @ = None THEN "applied" ELSE @], None)
                /\ ran' = Append([ran EXCEPT ![e] = @ + 1], 0)
          /\ \/ visit' = Done(v, e)
             \/ visit' = [visit EXCEPT ![v].failing = e]
  /\ UNCHANGED now

\* The transaction is rolled back: an effect throws, or its next turn finds the queue
\* full, where the row being resolved still counts.
Throws(v, e) ==
  /\ Turn(v, e) /\ lockAndLoadPending(e)
  /\ visit' = [visit EXCEPT ![v].failing = e]
  /\ UNCHANGED <<now, pending, resolution, ran>>

\* The failure is recorded in its own transaction, after the same lock and read.
recordFailedEffect(v) ==
  /\ visit[v].pc = "batch" /\ visit[v].failing # None
  /\ LET e == visit[v].failing IN
     /\ resolution' = [resolution EXCEPT ![e] = IF lockAndLoadPending(e) /\ @ = None THEN "failed" ELSE @]
     /\ visit' = Done(v, e)
  /\ UNCHANGED <<now, pending, ran>>

\* The visit stops: its invocation ends, or it has resolved its share.
Leaves(v) ==
  /\ visit[v] # Away
  /\ visit' = [visit EXCEPT ![v] = Away]
  /\ UNCHANGED <<now, pending, resolution, ran>>

Tick ==
  /\ now < MaxTime
  /\ now' = now + 1
  /\ UNCHANGED <<pending, resolution, ran, visit>>

Next ==
  \/ scheduleEffect
  \/ \E v \in Visits :
       \/ dueRows(v)
       \/ \E e \in DOMAIN pending : resolveOne(v, e) \/ Throws(v, e)
       \/ recordFailedEffect(v)
       \/ Leaves(v)
  \/ Tick

Spec == Init /\ [][Next]_vars

-----------------------------------------------------------------------------
(* Properties                                                              *)

\* Types; the queue of the place keeps its limit.
TypeOK ==
  /\ now \in 0..MaxTime
  /\ DOMAIN resolution = DOMAIN pending /\ DOMAIN ran = DOMAIN pending
  /\ \A e \in DOMAIN pending :
       /\ resolution[e] \in {None, "applied", "skipped", "failed"}
       /\ pending[e].generation \in 0..Generations
  /\ Cardinality(Unresolved) <= PendingMax
  /\ \A v \in Visits : visit[v].pc \in {"away", "batch", "next"}

\* A stored effect runs at most once, exactly when it is recorded as applied, never
\* before its time, and each turn of a repeating effect has at most one next turn, at
\* its own time of the chain, only when it ran itself.
TimerRunsOnce ==
  \A e \in DOMAIN pending :
    /\ ran[e] = IF resolution[e] = "applied" THEN 1 ELSE 0
    /\ ran[e] > 0 => pending[e].logical <= now
    /\ LET turns == {f \in DOMAIN pending : pending[f].parent = e} IN
       /\ Cardinality(turns) = IF ran[e] = 1 /\ Repeated(e) THEN 1 ELSE 0
       /\ \A f \in turns : pending[f].logical = pending[e].logical + Seconds
=============================================================================
