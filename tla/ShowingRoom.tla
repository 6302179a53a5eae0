------------------------------- MODULE ShowingRoom -------------------------------
(***************************************************************************)
(* The weekly contest of the showing room (showing-room-runner.ts,          *)
(* showing-room-count.ts, showing-room-awards.ts, showing-room-store.ts).   *)
(* Every Monday slot a cron call counts the open question, pays its winners *)
(* and opens the next one, in one transaction under the locks that every    *)
(* note of the room and every change of the queue takes too.  The clock     *)
(* moves inside the transaction: a run that crosses the print cutoff is     *)
(* undone and tried again as late.  A commit may go through with its answer *)
(* lost, calls overlap, and the founder may remove notes at any time.       *)
(* A tick is the time unit; notes, questions and runs hold no text.         *)
(***************************************************************************)
EXTENDS Integers, Sequences, FiniteSets, FiniteSetsExt

CONSTANTS
  Residents,     \* who enters and votes
  Calls,         \* overlapping cron invocations
  Week,          \* from a slot to the next
  Cutoff,         \* from a slot to the print cutoff
  Entering,      \* from a slot to the close of the entries
  MaxQuestions,  \* bound: questions ever queued
  MaxNotes,      \* bound: notes of residents
  MaxControls,   \* bound: pauses, resumes, cancellations and removals
  MaxTime,       \* bound: ticks
  None

VARIABLES
  now,
  notes,      \* the notes of room 438 that are committed
  draft,      \* a note that holds the admission lock, or None
  contests,   \* showing_room_contests, oldest first
  runs,       \* showing_room_runs by slot
  credits,    \* city credits issued for a question, per resident
  control,    \* showing_room_control: paused, the failure that waits for the founder
  controls,   \* how many changes the founder made
  open,       \* the rooms are open for the count
  call,       \* the cron invocations
  answers     \* what they were answered, by slot

vars == <<now, notes, draft, contests, runs, credits, control, controls, open, call, answers>>

Slots == {Week * k : k \in 0..(MaxTime \div Week)}

Idle == [pc |-> "idle"]

Queued == [state |-> "queued"]

Init ==
  /\ now = 0
  /\ notes = <<>> /\ draft = None
  /\ contests = <<Queued>>
  /\ runs = [slot \in Slots |-> None]
  /\ credits = [c \in 1..MaxQuestions |-> [r \in Residents |-> 0]]
  /\ control = [paused |-> FALSE, failure |-> None]
  /\ controls = 0 /\ open = TRUE
  /\ call = [w \in Calls |-> Idle]
  /\ answers = [slot \in Slots |-> {}]

latestShowingRoomSlot(time) == Week * (time \div Week)

\* A run does not wait for a note that is being written.
MutantLocksFree == \A w \in Calls : call[w].pc # "counting"

\* The advisory locks of the room are held by a note or by a run.
LocksFree == draft = None /\ \A w \in Calls : call[w].pc # "counting"

-----------------------------------------------------------------------------
(* Notes                                                                   *)

\* A note is admitted: the trigger takes the room's lock and then stamps the note.
validate_showing_room_note(author, kind, entry) ==
  /\ LocksFree
  /\ Len(notes) < MaxNotes
  /\ draft' = [author |-> author, kind |-> kind, entry |-> entry, at |-> now, removed |-> FALSE]
  /\ UNCHANGED <<now, notes, contests, runs, credits, control, controls, open, call, answers>>

\* Its transaction ends, and with it the lock.
NoteEnds(commits) ==
  /\ draft # None
  /\ notes' = IF commits THEN Append(notes, draft) ELSE notes
  /\ draft' = None
  /\ UNCHANGED <<now, contests, runs, credits, control, controls, open, call, answers>>

\* The founder removes a note; no lock of the room is taken.
Remove(n) ==
  /\ controls < MaxControls /\ ~notes[n].removed
  /\ notes' = [notes EXCEPT ![n].removed = TRUE]
  /\ controls' = controls + 1
  /\ UNCHANGED <<now, draft, contests, runs, credits, control, open, call, answers>>

-----------------------------------------------------------------------------
(* The count                                                               *)

InScope(c, n, close) == n > c.rules /\ notes[n].at >= c.opened /\ notes[n].at < close

Of(c, kind, close) == {n \in DOMAIN notes : notes[n].kind = kind /\ InScope(c, n, close)}

\* The newest note of each author.
Latest(ns) == {n \in ns : \A m \in ns : notes[m].author = notes[n].author => m <= n}

\* An author's newest entry that can be read; a removed one makes room for an older one.
selectEntries(c) == Latest({n \in Of(c, "entry", c.entries) : ~notes[n].removed})

\* A withdrawal follows the author's own entry.  A removed withdrawal still counts.
Withdrawn(c) ==
  {n \in Of(c, "entry", c.entries) :
     \E w \in Of(c, "withdraw", c.votes) :
       notes[w].entry = n /\ notes[w].author = notes[n].author /\ w > n}

\* The entries that take part.
Eligible(c) == selectEntries(c) \ Withdrawn(c)

\* The newest ballot of a voter is the one that counts, or none of them does.
ballotRecords(c) ==
  {b \in Latest({n \in Of(c, "vote", c.votes) : notes[n].at >= c.entries}) :
     /\ ~notes[b].removed
     /\ notes[b].entry \in Eligible(c)
     /\ notes[notes[b].entry].author # notes[b].author}

Votes(c, e) == Cardinality({b \in ballotRecords(c) : notes[b].entry = e})

Winners(c) ==
  {e \in Eligible(c) : Votes(c, e) > 0 /\ \A f \in Eligible(c) : Votes(c, f) <= Votes(c, e)}

countShowingRoom(c) ==
  [read |-> {n \in DOMAIN notes : InScope(c, n, c.votes)}, entries |-> Eligible(c),
   ballots |-> ballotRecords(c), winners |-> Winners(c)]

-----------------------------------------------------------------------------
(* The close                                                               *)

OpenQuestion == {i \in DOMAIN contests : contests[i].state = "open"}
QueuedQuestion == {i \in DOMAIN contests : contests[i].state = "queued"}

Answer(w, slot, outcome) ==
  /\ call' = [call EXCEPT ![w] = Idle]
  /\ answers' = [answers EXCEPT ![slot] = @ \union {outcome}]

\* The call ends without a result to keep.
NoResult(w) == call' = [call EXCEPT ![w] = Idle] /\ UNCHANGED answers

ClosesLater(slot) == \E i \in OpenQuestion : contests[i].votes > slot

\* The start of an attempt, under the locks: a slot that has its result is answered
\* with it; a paused service and a question that closes later end the call; else the
\* count begins, with its slot and its time.
attempt(w, retry, forceLate) ==
  LET slot == latestShowingRoomSlot(now) IN
  /\ LocksFree
  /\ \/ runs[slot] # None /\ Answer(w, slot, runs[slot].outcome)
     \/ /\ runs[slot] = None
        /\ control.paused \/ (open /\ ClosesLater(slot))
        /\ NoResult(w)
     \/ /\ runs[slot] = None /\ ~control.paused
        /\ open => ~ClosesLater(slot)
        /\ call' = [call EXCEPT ![w] =
             [pc |-> "counting", slot |-> slot, retry |-> retry, forced |-> forceLate,
              late |-> \/ forceLate \/ now >= slot + Cutoff
                       \/ \E i \in OpenQuestion : contests[i].votes < slot]]
        /\ UNCHANGED answers
  /\ UNCHANGED <<now, notes, draft, contests, runs, credits, control, controls, open>>

runShowingRoomClose(w) == call[w].pc = "idle" /\ attempt(w, 0, FALSE)

Retry(w) == call[w].pc = "retry" /\ attempt(w, call[w].retry, call[w].forced)

Again(w, forceLate) ==
  call' = [call EXCEPT ![w] = [pc |-> "retry", retry |-> @.retry + 1, forced |-> forceLate, slot |-> @.slot]]

Failing(w, code) ==
  call' = [call EXCEPT ![w] = [pc |-> "failing", slot |-> @.slot, code |-> code]]

\* The transaction crossed the print cutoff and is undone; it is tried again as late,
\* unless it was the last try: then the call ends and nothing is recorded.
DeadlineCrossed(w) ==
  LET c == call[w] IN
  /\ c.pc = "counting"
  /\ ~c.late /\ now >= c.slot + Cutoff
  /\ IF c.retry < 2 THEN Again(w, TRUE) ELSE call' = [call EXCEPT ![w] = Idle]
  /\ UNCHANGED <<now, notes, draft, contests, runs, credits, control, controls, open, answers>>

\* The locks are not had in time, or a statement fails, before the next try looks at
\* its slot: the failure is that of the slot of the try before.
RetryFails(w) ==
  /\ call[w].pc = "retry"
  /\ Failing(w, "unavailable")
  /\ UNCHANGED <<now, notes, draft, contests, runs, credits, control, controls, open, answers>>

\* The rooms are not open, or a statement fails.
CountFails(w) ==
  /\ call[w].pc = "counting"
  /\ Failing(w, IF open THEN "unavailable" ELSE "room")
  /\ UNCHANGED <<now, notes, draft, contests, runs, credits, control, controls, open, answers>>

\* What a run leaves: the question counted and closed, its winners paid, the oldest
\* queued question opened when in time, a result for the slot of the question and, when
\* that slot has passed, the same result for the slot of the run.
performRun(w) ==
  LET slot == call[w].slot
      late == call[w].late
      closing == OpenQuestion
      next == IF late \/ QueuedQuestion = {} THEN {} ELSE {Min(QueuedQuestion)}
      original == IF closing = {} THEN slot ELSE contests[Min(closing)].votes
      count == IF closing = {} THEN None ELSE countShowingRoom(contests[Min(closing)])
      paid == IF closing = {} THEN {} ELSE {notes[e].author : e \in count.winners}
      outcome == [slot |-> original, contest |-> closing, next |-> next, late |-> late]
      result(s) == [outcome |-> outcome, count |-> count, recovery |-> s # original]
  IN  /\ runs[original] = None
      /\ contests' = [i \in DOMAIN contests |->
           IF i \in closing THEN [contests[i] EXCEPT !.state = "completed"]
           ELSE IF i \in next
                THEN [state |-> "open", opened |-> now, rules |-> Len(notes),
                      entries |-> slot + Entering, votes |-> slot + Week]
                ELSE contests[i]]
      /\ credits' = [i \in DOMAIN credits |-> [r \in Residents |->
           IF i \in closing /\ r \in paid THEN credits[i][r] + 1 ELSE credits[i][r]]]
      /\ runs' = [s \in Slots |-> IF s \in {slot, original} THEN result(s) ELSE runs[s]]
      /\ control' = [control EXCEPT !.failure = None]

\* A run that reaches its commit.
InTime(w) ==
  /\ call[w].pc = "counting" /\ open /\ ~ClosesLater(call[w].slot)
  /\ call[w].late \/ now < call[w].slot + Cutoff

\* The run commits before the cutoff, or late; the answer may be lost, and then the
\* call tries again twice before it fails.
CompleteRun(w, answered) ==
  /\ InTime(w)
  /\ performRun(w)
  /\ IF answered THEN Answer(w, call[w].slot, runs'[call[w].slot].outcome)
     ELSE /\ IF call[w].retry < 2 THEN Again(w, call[w].forced) ELSE Failing(w, "unavailable")
          /\ UNCHANGED answers
  /\ UNCHANGED <<now, notes, draft, controls, open>>

\* The commit did not go through and no answer came.
CommitLost(w) ==
  /\ InTime(w)
  /\ IF call[w].retry < 2 THEN Again(w, call[w].forced) ELSE Failing(w, "unavailable")
  /\ UNCHANGED <<now, notes, draft, contests, runs, credits, control, controls, open, answers>>

MutantHasResult(slot) == slot \notin Slots

\* The result that a failure must not hide.
HasResult(slot) == runs[slot] # None

\* The failure is left for the founder, unless the service is busy or has a result.
recordFailure(w) ==
  /\ call[w].pc = "failing"
  /\ control' = IF (\A v \in Calls : call[v].pc # "counting") /\ ~HasResult(call[w].slot)
                THEN [control EXCEPT !.failure = [slot |-> call[w].slot, code |-> call[w].code]]
                ELSE control
  /\ call' = [call EXCEPT ![w] = Idle]
  /\ UNCHANGED <<now, notes, draft, contests, runs, credits, controls, open, answers>>

\* The invocation ends; a transaction under way is undone.
Dies(w) ==
  /\ call[w] # Idle
  /\ call' = [call EXCEPT ![w] = Idle]
  /\ UNCHANGED <<now, notes, draft, contests, runs, credits, control, controls, open, answers>>

-----------------------------------------------------------------------------
(* The founder and the clock                                               *)

addShowingRoomContest ==
  /\ LocksFree /\ Len(contests) < MaxQuestions
  /\ contests' = Append(contests, Queued)
  /\ UNCHANGED <<now, notes, draft, runs, credits, control, controls, open, call, answers>>

\* A queued question is cancelled; one that opened is not changed any more.
editShowingRoomContest(i) ==
  /\ LocksFree /\ controls < MaxControls /\ i \in QueuedQuestion
  /\ contests' = [contests EXCEPT ![i].state = "cancelled"]
  /\ controls' = controls + 1
  /\ UNCHANGED <<now, notes, draft, runs, credits, control, open, call, answers>>

\* Pause, and resume while the rooms are open.
controlShowingRoom ==
  /\ LocksFree /\ controls < MaxControls
  /\ control.paused => open
  /\ control' = [control EXCEPT !.paused = ~@]
  /\ controls' = controls + 1
  /\ UNCHANGED <<now, notes, draft, contests, runs, credits, open, call, answers>>

\* A room is closed, quieted or removed, or restored.
EditRoom ==
  /\ controls < MaxControls
  /\ open' = ~open
  /\ controls' = controls + 1
  /\ UNCHANGED <<now, notes, draft, contests, runs, credits, control, call, answers>>

Tick ==
  /\ now < MaxTime
  /\ now' = now + 1
  /\ UNCHANGED <<notes, draft, contests, runs, credits, control, controls, open, call, answers>>

Next ==
  \/ \E r \in Residents :
       \/ validate_showing_room_note(r, "entry", None)
       \/ \E n \in {m \in DOMAIN notes : notes[m].kind = "entry"}, kind \in {"vote", "withdraw"} :
            validate_showing_room_note(r, kind, n)
  \/ \E commits \in BOOLEAN : NoteEnds(commits)
  \/ \E n \in DOMAIN notes : Remove(n)
  \/ \E w \in Calls :
       \/ runShowingRoomClose(w) \/ Retry(w) \/ RetryFails(w)
       \/ DeadlineCrossed(w) \/ CountFails(w) \/ CommitLost(w)
       \/ \E answered \in BOOLEAN : CompleteRun(w, answered)
       \/ recordFailure(w) \/ Dies(w)
  \/ addShowingRoomContest
  \/ \E i \in DOMAIN contests : editShowingRoomContest(i)
  \/ controlShowingRoom \/ EditRoom
  \/ Tick

Spec == Init /\ [][Next]_vars

-----------------------------------------------------------------------------
(* Properties                                                              *)

\* Types; one question is open at a time.
TypeOK ==
  /\ now \in 0..MaxTime /\ controls \in 0..MaxControls /\ open \in BOOLEAN
  /\ Len(notes) <= MaxNotes /\ Cardinality(OpenQuestion) <= 1
  /\ \A i \in DOMAIN contests : contests[i].state \in {"queued", "open", "completed", "cancelled"}
  /\ credits \in [1..MaxQuestions -> [Residents -> Nat]]
  /\ control.paused \in BOOLEAN
  /\ \A w \in Calls : call[w].pc \in {"idle", "counting", "retry", "failing"}

\* A question that closed has one result, whichever run wrote it: it read every note
\* that the room shows from the opening to the close, no other, and each of its winners
\* has one credit, nobody else any.  A slot with a result gives every call that answer,
\* and no failure waits for the founder on it.
ClosedExactly ==
  /\ \A i \in DOMAIN contests : contests[i].state = "completed" =>
       \E s \in Slots :
         /\ runs[s] # None /\ runs[s].outcome.contest = {i} /\ ~runs[s].recovery
         /\ \A t \in Slots \ {s} : runs[t] # None /\ runs[t].outcome.contest = {i} => runs[t].recovery
         /\ runs[s].count.read = {n \in DOMAIN notes : InScope(contests[i], n, contests[i].votes)}
         /\ \A r \in Residents :
              credits[i][r] = Cardinality({e \in runs[s].count.winners : notes[e].author = r})
  /\ \A s \in Slots : runs[s] # None =>
       /\ answers[s] \subseteq {runs[s].outcome}
       /\ control.failure # None => control.failure.slot # s
=============================================================================
