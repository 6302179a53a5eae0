------------------------------ MODULE Registration ------------------------------
(***************************************************************************)
(* How a resident comes to be: a registration is staged and then confirmed *)
(* with its saved key, through the first-party doors                       *)
(* (src/src/identity-store.ts) or the hosted sign-in                       *)
(* (src/src/oauth-store.ts).  A staged name is not reserved; the unique    *)
(* constraint on residents.handle decides between the doors.               *)
(*                                                                         *)
(* A confirmation is one statement: the step that opens it takes the       *)
(* snapshot in which it looks for a name conflict, the one that commits it *)
(* re-reads the request row it locks and may still meet the constraint.    *)
(***************************************************************************)
EXTENDS Naturals, FiniteSets

CONSTANTS
  Handles,
  Web,        \* first-party registrations (pending_resident_registrations)
  OAuth,      \* hosted sign-ins (oauth_authorization_requests)
  Calls,      \* confirmations
  StartId,    \* residents who live here already, under other names
  None

Requests == Web \cup OAuth

VARIABLES
  req,       \* the pending rows
  resident,  \* handle -> id, 0 when there is none
  lastId,    \* resident_id_allocator.last_id
  call       \* confirmations, each with its answer

vars == <<req, resident, lastId, call>>

NewReq == [st |-> "new", handle |-> None, id |-> 0, late |-> FALSE]
Idle == [pc |-> "idle", req |-> None, sawTaken |-> FALSE, sawDone |-> FALSE,
         inTime |-> FALSE, answer |-> "none"]
Answers == {"none", "confirmed", "handle_taken", "unavailable", "error"}
MaxId == StartId + Cardinality(Requests) + 1   \* number 4 is skipped

\* Types, and the row checks of db/schema.sql: a name is kept only while the
\* request is staged, a resident only on a confirmed one.
TypeOK ==
  /\ req \in [Requests -> [st : {"new", "staged", "confirmed", "canceled"},
                           handle : Handles \cup {None}, id : 0 .. MaxId, late : BOOLEAN]]
  /\ \A r \in Requests : /\ req[r].handle # None <=> req[r].st = "staged"
                         /\ req[r].id # 0 <=> req[r].st = "confirmed"
  /\ resident \in [Handles -> 0 .. MaxId]
  /\ lastId \in 0 .. MaxId
  /\ call \in [Calls -> [pc : {"idle", "open", "violated", "reread", "done"},
                         req : Requests \cup {None}, sawTaken : BOOLEAN,
                         sawDone : BOOLEAN, inTime : BOOLEAN, answer : Answers]]

Init ==
  /\ req = [r \in Requests |-> NewReq]
  /\ resident = [h \in Handles |-> 0]
  /\ lastId = StartId
  /\ call = [c \in Calls |-> Idle]

Taken(h) == resident[h] # 0

MutantCanceledKeepsName(row) == [row EXCEPT !.st = "canceled"]

Canceled(row) == [NewReq EXCEPT !.st = "canceled", !.late = row.late]

\* cleared_expired: every stage of this door past its time is canceled.
ClearExpired(door) ==
  [r \in Requests |-> IF r \in door /\ req[r].st = "staged" /\ req[r].late
                      THEN Canceled(req[r]) ELSE req[r]]

-----------------------------------------------------------------------------

\* stageResidentRegistration
stageResidentRegistration(r, h) ==
  /\ r \in Web /\ req[r].st = "new"
  /\ req' = IF Taken(h) THEN ClearExpired(Web)
            ELSE [ClearExpired(Web) EXCEPT ![r].st = "staged", ![r].handle = h]
  /\ UNCHANGED <<resident, lastId, call>>

\* createAuthorizationRequest clears; stageNewResidentRegistration names.
createAuthorizationRequest ==
  /\ req' = ClearExpired(OAuth)
  /\ UNCHANGED <<resident, lastId, call>>

stageNewResidentRegistration(r, h) ==
  /\ r \in OAuth /\ req[r].st = "new" /\ ~req[r].late /\ ~Taken(h)
  /\ req' = [req EXCEPT ![r].st = "staged", ![r].handle = h]
  /\ UNCHANGED <<resident, lastId, call>>

Cancelable(r) == req[r].st = "staged" /\ ~req[r].late

\* cancelResidentRegistration, cancelAuthorizationRequest
Cancel(r) ==
  /\ Cancelable(r) \/ (r \in OAuth /\ req[r].st = "new" /\ ~req[r].late)
  /\ req' = [req EXCEPT ![r] = Canceled(req[r])]
  /\ UNCHANGED <<resident, lastId, call>>

-----------------------------------------------------------------------------
(* confirmResidentRegistration and                                         *)
(* confirmNewResidentAndIssueAuthorizationCode, with the right key         *)

\* Before the stage there is nothing to confirm.
ConfirmOpen(c, r) ==
  /\ call[c].pc = "idle" /\ req[r].st # "new"
  /\ call' = [call EXCEPT ![c] =
       [Idle EXCEPT !.pc = "open", !.req = r, !.inTime = ~req[r].late,
          !.sawTaken = req[r].st = "staged" /\ Taken(req[r].handle),
          !.sawDone = req[r].st = "confirmed"]]
  /\ UNCHANGED <<req, resident, lastId>>

Finish(c, answer) == call' = [call EXCEPT ![c].pc = "done", ![c].answer = answer]

\* active_request on the locked row
Active(c) == req[call[c].req].st = "staged" /\ call[c].inTime

MutantNumberFour(n) == IF n = 3 THEN 4 ELSE n + 1

\* resident_id_allocator: 4 is nobody's number
NextId(n) == IF n = 3 THEN 5 ELSE n + 1

\* The name was already taken in the snapshot: the request ends.
ConfirmConflict(c) ==
  /\ call[c].pc = "open" /\ Active(c) /\ call[c].sawTaken
  /\ req' = [req EXCEPT ![call[c].req] = Canceled(@)]
  /\ Finish(c, "handle_taken")
  /\ UNCHANGED <<resident, lastId>>

MutantNameFree(c) == ~call[c].sawTaken

\* The unique constraint, at the insert.
NameFree(c) == ~call[c].sawTaken /\ ~Taken(req[call[c].req].handle)

\* Resident, presence, recovery codes, event (and code) are one commit.
ConfirmInsert(c) ==
  /\ call[c].pc = "open" /\ Active(c) /\ NameFree(c)
  /\ LET r == call[c].req IN
     /\ lastId' = NextId(lastId)
     /\ resident' = [resident EXCEPT ![req[r].handle] = NextId(lastId)]
     /\ req' = [req EXCEPT ![r] = [NewReq EXCEPT !.st = "confirmed", !.id = NextId(lastId),
                                                 !.late = req[r].late]]
  /\ Finish(c, "confirmed")

\* 23505: the statement is rolled back, the allocator with it.
ConfirmViolates(c) ==
  /\ call[c].pc = "open" /\ Active(c) /\ ~call[c].sawTaken /\ ~NameFree(c)
  /\ call' = [call EXCEPT ![c].pc = "violated"]
  /\ UNCHANGED <<req, resident, lastId>>

\* Nothing to confirm any more.  The first-party door answers a repeated
\* confirmation from the snapshot, or by a second read.
MutantNoReread(c) == Finish(c, IF call[c].sawDone THEN "confirmed" ELSE "unavailable")

Unavailable(c) ==
  IF call[c].req \in OAuth THEN Finish(c, "unavailable")
  ELSE IF call[c].sawDone THEN Finish(c, "confirmed")
  ELSE call' = [call EXCEPT ![c].pc = "reread"]

ConfirmUnavailable(c) ==
  /\ call[c].pc = "open" /\ ~Active(c)
  /\ Unavailable(c)
  /\ UNCHANGED <<req, resident, lastId>>

Reread(c) ==
  /\ call[c].pc = "reread"
  /\ Finish(c, IF req[call[c].req].st = "confirmed" THEN "confirmed" ELSE "unavailable")
  /\ UNCHANGED <<req, resident, lastId>>

\* After 23505 the request is canceled by another statement.  The first-party
\* door answers handle_taken whatever that found, the hosted one only if the
\* request is canceled now (getAuthorizationRequestProgress).
CancelAfterViolation(c) ==
  /\ call[c].pc = "violated"
  /\ LET r == call[c].req IN
     /\ req' = IF Cancelable(r) THEN [req EXCEPT ![r] = Canceled(req[r])] ELSE req
     /\ Finish(c, IF r \in Web \/ req'[r].st = "canceled" THEN "handle_taken" ELSE "error")
  /\ UNCHANGED <<resident, lastId>>

-----------------------------------------------------------------------------

Crash(c) ==
  /\ call[c].pc \in {"open", "violated", "reread"}
  /\ Finish(c, "error")
  /\ UNCHANGED <<req, resident, lastId>>

StageExpires(r) ==
  /\ ~req[r].late /\ req[r].st \in {"new", "staged"}
  /\ r \in Web => req[r].st = "staged"
  /\ req' = [req EXCEPT ![r].late = TRUE]
  /\ UNCHANGED <<resident, lastId, call>>

Next ==
  \/ \E r \in Requests : Cancel(r) \/ StageExpires(r)
  \/ \E r \in Requests, h \in Handles :
       stageResidentRegistration(r, h) \/ stageNewResidentRegistration(r, h)
  \/ createAuthorizationRequest
  \/ \E c \in Calls, r \in Requests : ConfirmOpen(c, r)
  \/ \E c \in Calls : \/ ConfirmConflict(c) \/ ConfirmInsert(c) \/ ConfirmViolates(c)
                      \/ ConfirmUnavailable(c) \/ Reread(c) \/ CancelAfterViolation(c)
                      \/ Crash(c)

Spec == Init /\ [][Next]_vars

-----------------------------------------------------------------------------
(* Properties                                                              *)

\* Residents and confirmed requests match one to one, across both doors: no
\* resident without its request, none confirmed twice, no name overwritten.
OneResidentPerRequest ==
  /\ \A r \in Requests : req[r].st = "confirmed" =>
       Cardinality({h \in Handles : resident[h] = req[r].id}) = 1
  /\ \A h \in Handles : Taken(h) =>
       Cardinality({r \in Requests : req[r].id = resident[h]}) = 1

\* A rolled-back confirmation costs no number: the residents are numbered
\* without a gap, but for 4.
NumbersDense ==
  {resident[h] : h \in {g \in Handles : Taken(g)}} = (StartId + 1 .. lastId) \ {4}

\* Whoever is told the name is taken can confirm nothing any more with that
\* request, although the constraint and the cancel are two statements; whoever
\* is told confirmed has a resident.
AnswersTrue ==
  \A c \in Calls :
    /\ call[c].answer = "handle_taken" =>
         req[call[c].req].st = "canceled" \/ req[call[c].req].late
    /\ call[c].answer = "confirmed" => req[call[c].req].st = "confirmed"

\* Confirmations of one first-party registration that overlap agree: when one
\* of them confirmed it in time, no other is told it is unavailable.
RepeatAgrees ==
  \A c, d \in Calls :
    /\ call[c].req = call[d].req /\ call[c].req \in Web
    /\ call[c].answer = "confirmed" /\ call[d].answer = "unavailable"
    => req[call[c].req].late \/ ~call[d].inTime

\* Requests, residents and numbers agree, and so do the answers given.
RegistrationIsExact == OneResidentPerRequest /\ NumbersDense
AnswersAgree == AnswersTrue /\ RepeatAgrees
=============================================================================
