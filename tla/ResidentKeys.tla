------------------------------ MODULE ResidentKeys ------------------------------
(***************************************************************************)
(* One resident's root key (src/src/identity-store.ts) and what is granted *)
(* under it (src/src/oauth-store.ts): staged rotations, recovery-code sets *)
(* with their generation, pairing codes, and the browser sign-ins that     *)
(* become an authorization code and then a token family.                   *)
(*                                                                         *)
(* Keys are numbered in the order they are generated; the hash of a key is *)
(* the key.  A statement that others can overlap has a step that opens it  *)
(* (its READ COMMITTED snapshot) and one that commits it: there, rows it   *)
(* locks are re-read, and rows that appeared meanwhile stay invisible.     *)
(* With Serial = TRUE no two of those statements overlap.                  *)
(***************************************************************************)
EXTENDS Naturals, FiniteSets

CONSTANTS
  MaxKeys,        \* bound: replacement keys ever generated
  Recoveries,     \* recovery codes, numbered in the order of their sets
  SetSize,        \* IDENTITY_LIMITS.recoveryCodeCount
  Rotations,      \* browser sessions that stage a rotation
  Pairings,       \* pairing codes
  Requests,       \* sign-in requests, and the code and family made from them
  Calls,          \* statements in flight
  DailyMax,       \* IDENTITY_LIMITS.rotationsPerResidentDay
  Serial          \* TRUE: statements do not overlap

Keys == 0 .. MaxKeys
RecoveryCodes == 1 .. Recoveries

VARIABLES
  key,       \* residents.secret_hash
  gen,       \* residents.recovery_generation
  nextKey,   \* keys generated so far
  recovery,  \* resident_recovery_codes
  rotation,  \* resident_key_rotations
  pairing,   \* pairing_codes
  grant,     \* oauth_authorization_requests with the code and family of each
  call       \* statements in flight

vars == <<key, gen, nextKey, recovery, rotation, pairing, grant, call>>

NoCode == [st |-> "absent", gen |-> 0, repl |-> 0, late |-> FALSE]
NoRotation == [st |-> "absent", gen |-> 0, old |-> 0, repl |-> 0, late |-> FALSE, today |-> FALSE]
NoPairing == [st |-> "absent", secret |-> 0, inv |-> FALSE, late |-> FALSE]
Idle == [pc |-> "idle", kind |-> "none", arg |-> 0, key |-> 0,
         codes |-> {}, fams |-> {}, rows |-> {}, done |-> 0]
Kinds == {"none", "rotate", "recover", "generate", "approve", "redeem", "mint"}
Args == RecoveryCodes \cup Rotations \cup Pairings \cup Requests \cup {0}

\* Types, and the row checks of db/schema.sql: a replacement key is stored only
\* while its stage is open.
TypeOK ==
  /\ \A x \in RecoveryCodes : recovery[x].st # "staged" => recovery[x].repl = 0
  /\ \A x \in Rotations : rotation[x].st # "staged" => rotation[x].repl = 0
  /\ key \in Keys /\ gen \in Nat /\ nextKey \in 1 .. MaxKeys + 1
  /\ recovery \in [RecoveryCodes -> [st : {"absent", "free", "staged", "used", "invalid"},
                             gen : Nat, repl : Keys, late : BOOLEAN]]
  /\ rotation \in [Rotations -> [st : {"absent", "staged", "confirmed", "dead"},
                                 gen : Nat, old : Keys, repl : Keys,
                                 late : BOOLEAN, today : BOOLEAN]]
  /\ pairing \in [Pairings -> [st : {"absent", "unused", "used"}, secret : Keys,
                               inv : BOOLEAN, late : BOOLEAN]]
  /\ grant \in [Requests -> [st : {"open", "over", "code", "void", "family", "revoked"},
                             by : Keys]]
  /\ \A c \in Calls :
       /\ call[c] \in [pc : {"idle", "open", "clear"}, kind : Kinds, arg : {call[c].arg},
                      key : Keys, codes : SUBSET Requests, fams : SUBSET Requests,
                      rows : SUBSET (RecoveryCodes \cup Rotations), done : 0 .. Cardinality(Rotations)]
       /\ call[c].arg \in IF call[c].kind = "redeem" THEN Requests \X Pairings ELSE Args

Init ==
  /\ key = 0 /\ gen = 1 /\ nextKey = 1
  /\ recovery = [x \in RecoveryCodes |-> IF x <= SetSize
                                 THEN [NoCode EXCEPT !.st = "free", !.gen = 1] ELSE NoCode]
  /\ rotation = [x \in Rotations |-> NoRotation]
  /\ pairing = [x \in Pairings |-> NoPairing]
  /\ grant = [r \in Requests |-> [st |-> "open", by |-> 0]]
  /\ call = [c \in Calls |-> Idle]

-----------------------------------------------------------------------------

\* No statement is open, if statements are serial.
Alone == Serial => \A d \in Calls : call[d].pc # "open"

CanOpen(c) == call[c].pc = "idle" /\ Alone

\* Unresolved rows: what the invalidating updates look for.
LiveCode(x) == recovery[x].st \in {"free", "staged"}
LiveRotation(x) == rotation[x].st = "staged"

\* The snapshot: unresolved recovery codes and rotations, codes and families,
\* and the number of rotations confirmed today.
Open(c, kind, arg, k) ==
  call' = [call EXCEPT ![c] =
    [pc |-> "open", kind |-> kind, arg |-> arg, key |-> k,
     codes |-> {r \in Requests : grant[r].st = "code"},
     fams |-> {r \in Requests : grant[r].st = "family"},
     rows |-> {x \in RecoveryCodes : LiveCode(x)} \cup {x \in Rotations : LiveRotation(x)},
     done |-> Cardinality({x \in Rotations : rotation[x].today})]]

Opened(c, kind) == call[c].pc = "open" /\ call[c].kind = kind

Close(c) == call' = [call EXCEPT ![c] = Idle]

\* What the invalidating updates make of the rows the snapshot showed and that
\* are still unresolved; every stage secret is erased.
InvalidCodes(c) ==
  [x \in RecoveryCodes |-> IF x \in call[c].rows /\ LiveCode(x)
                   THEN [NoCode EXCEPT !.st = "invalid", !.gen = recovery[x].gen]
                   ELSE recovery[x]]

MutantDeadKeepsSecrets(x) == [rotation[x] EXCEPT !.st = "dead"]

\* canceled_at or invalidated_at is set, the secrets are erased.
DeadRotation(x) == [NoRotation EXCEPT !.st = "dead", !.gen = rotation[x].gen]

DeadRotations(c) ==
  [x \in Rotations |-> IF x \in call[c].rows /\ LiveRotation(x) THEN DeadRotation(x)
                       ELSE rotation[x]]

MutantKeepsUnusedCodes(c) ==
  [r \in Requests |->
     IF r \in call[c].fams /\ grant[r].st = "family" THEN [grant[r] EXCEPT !.st = "revoked"]
     ELSE grant[r]]

\* revoked_families, revoked_tokens, invalidated_codes of both key changes.
RevokeGrants(c) ==
  [r \in Requests |->
     IF r \in call[c].fams /\ grant[r].st = "family" THEN [grant[r] EXCEPT !.st = "revoked"]
     ELSE IF r \in call[c].codes /\ grant[r].st = "code" THEN [grant[r] EXCEPT !.st = "void"]
     ELSE grant[r]]

-----------------------------------------------------------------------------
(* Recovery codes                                                          *)

generateRecoveryCodesOpen(c) ==
  /\ CanOpen(c)
  /\ Open(c, "generate", 0, key)
  /\ UNCHANGED <<key, gen, nextKey, recovery, rotation, pairing, grant>>

MutantSameGeneration(g) == g

\* recovery_generation + 1
Advance(g) == g + 1

Unset == {x \in RecoveryCodes : recovery[x].st = "absent"}
NextSet == {x \in Unset : Cardinality({y \in Unset : y < x}) < SetSize}

\* The resident row is re-read when it is locked: the key must still be the
\* presented one.  RecoveryCodes of a set that appeared after the snapshot are missed.
generateRecoveryCodes(c) ==
  /\ Opened(c, "generate")
  /\ \/ /\ key = call[c].key /\ Cardinality(NextSet) = SetSize
        /\ gen' = Advance(gen)
        /\ recovery' = [x \in RecoveryCodes |->
             IF x \in NextSet THEN [NoCode EXCEPT !.st = "free", !.gen = Advance(gen)]
             ELSE InvalidCodes(c)[x]]
        /\ rotation' = DeadRotations(c)
     \/ /\ key # call[c].key
        /\ UNCHANGED <<gen, recovery, rotation>>
  /\ Close(c)
  /\ UNCHANGED <<key, nextKey, pairing, grant>>

\* The update that clears expired stages and the read of the eligible code
\* share a snapshot: a code whose stage expired is freed and still refused.
stageRootRecovery(x) ==
  /\ LET staged == recovery[x].st = "free" /\ recovery[x].gen = gen IN
     /\ staged => nextKey \in Keys
     /\ recovery' = [y \in RecoveryCodes |->
          IF recovery[y].st = "staged" /\ recovery[y].late
          THEN [recovery[y] EXCEPT !.st = "free", !.repl = 0, !.late = FALSE]
          ELSE IF y = x /\ staged
          THEN [recovery[x] EXCEPT !.st = "staged", !.repl = nextKey]
          ELSE recovery[y]]
     /\ nextKey' = IF staged THEN nextKey + 1 ELSE nextKey
  /\ UNCHANGED <<key, gen, rotation, pairing, grant, call>>

cancelRootRecovery(x) ==
  /\ recovery[x].st = "staged" /\ ~recovery[x].late
  /\ recovery' = [recovery EXCEPT ![x].st = "free", ![x].repl = 0]
  /\ UNCHANGED <<key, gen, nextKey, rotation, pairing, grant, call>>

MutantRecoveryIgnoresGeneration(x) == recovery[x].st = "staged"

\* active_request and available_request, on the locked rows.
Recoverable(x) == recovery[x].st = "staged" /\ recovery[x].gen = gen

\* A stage that is late at now() is not found: no replacement is key 0.
Presented(row) == IF row.late THEN 0 ELSE row.repl

confirmRootRecoveryOpen(c, x) ==
  /\ CanOpen(c) /\ recovery[x].st = "staged"
  /\ Open(c, "recover", x, Presented(recovery[x]))
  /\ UNCHANGED <<key, gen, nextKey, recovery, rotation, pairing, grant>>

confirmRootRecovery(c) ==
  /\ Opened(c, "recover")
  /\ LET x == call[c].arg
         eligible == Recoverable(x) /\ recovery[x].repl = call[c].key IN
     \/ /\ eligible
        /\ key' = recovery[x].repl
        /\ gen' = Advance(gen)
        /\ recovery' = [InvalidCodes(c) EXCEPT ![x] =
             [NoCode EXCEPT !.st = "used", !.gen = recovery[x].gen]]
        /\ rotation' = DeadRotations(c)
        /\ grant' = RevokeGrants(c)
        /\ call' = [call EXCEPT ![c] = [Idle EXCEPT !.pc = "clear"]]
     \/ /\ ~eligible
        /\ Close(c)
        /\ UNCHANGED <<key, gen, recovery, rotation, grant>>
  /\ UNCHANGED <<nextKey, pairing>>

-----------------------------------------------------------------------------
(* Voluntary rotation                                                      *)

ClearedRotations ==
  [x \in Rotations |-> IF LiveRotation(x) /\ rotation[x].late
                       THEN DeadRotation(x) ELSE rotation[x]]

stageRootRotation(x) ==
  /\ rotation[x].st = "absent" /\ nextKey \in Keys
  /\ rotation' = [ClearedRotations EXCEPT ![x] =
       [NoRotation EXCEPT !.st = "staged", !.gen = gen, !.old = key, !.repl = nextKey]]
  /\ nextKey' = nextKey + 1
  /\ UNCHANGED <<key, gen, recovery, pairing, grant, call>>

cancelRootRotation(x) ==
  /\ LiveRotation(x) /\ ~rotation[x].late
  /\ rotation' = [rotation EXCEPT ![x] = DeadRotation(x)]
  /\ UNCHANGED <<key, gen, nextKey, recovery, pairing, grant, call>>

confirmRootRotationOpen(c, x) ==
  /\ CanOpen(c) /\ LiveRotation(x)
  /\ Open(c, "rotate", x, Presented(rotation[x]))
  /\ UNCHANGED <<key, gen, nextKey, recovery, rotation, pairing, grant>>

MutantRotatesOverNewGeneration(x) == LiveRotation(x)

\* active_rotation and available_rotation, on the locked rows.
Rotatable(x) == LiveRotation(x) /\ rotation[x].old = key /\ rotation[x].gen = gen

MutantOneTooMany(c) == call[c].done <= DailyMax

\* daily_successes, as the snapshot shows it.
UnderDailyLimit(c) == call[c].done < DailyMax

confirmRootRotation(c) ==
  /\ Opened(c, "rotate")
  /\ LET x == call[c].arg
         eligible == Rotatable(x) /\ rotation[x].repl = call[c].key IN
     \/ /\ eligible /\ UnderDailyLimit(c)
        /\ key' = rotation[x].repl
        /\ gen' = Advance(gen)
        /\ rotation' = [DeadRotations(c) EXCEPT ![x] =
             [NoRotation EXCEPT !.st = "confirmed", !.gen = rotation[x].gen, !.today = TRUE]]
        /\ recovery' = InvalidCodes(c)
        /\ grant' = RevokeGrants(c)
        /\ call' = [call EXCEPT ![c] = [Idle EXCEPT !.pc = "clear"]]
     \/ /\ ~(eligible /\ UnderDailyLimit(c))
        /\ rotation' = IF eligible THEN [ClearedRotations EXCEPT ![x] = DeadRotation(x)]
                                   ELSE ClearedRotations
        /\ Close(c)
        /\ UNCHANGED <<key, gen, recovery, grant>>
  /\ UNCHANGED <<nextKey, pairing>>

\* invalidatePairingCodesForResident: a statement of its own, after the key
\* change has committed, and only with the coding doors on.
invalidatePairingCodesForResident(c) ==
  /\ call[c].pc = "clear"
  /\ pairing' = [x \in Pairings |-> IF pairing[x].st = "unused"
                                    THEN [pairing[x] EXCEPT !.inv = TRUE] ELSE pairing[x]]
  /\ Close(c)
  /\ UNCHANGED <<key, gen, nextKey, recovery, rotation, grant>>

-----------------------------------------------------------------------------
(* Pairing codes and sign-ins                                              *)

mintPairingCodeOpen(c, x) ==
  /\ CanOpen(c) /\ pairing[x].st = "absent"
  /\ Open(c, "mint", x, key)
  /\ UNCHANGED <<key, gen, nextKey, recovery, rotation, pairing, grant>>

mintPairingCode(c) ==
  /\ Opened(c, "mint")
  /\ pairing' = [pairing EXCEPT ![call[c].arg] =
       [NoPairing EXCEPT !.st = "unused", !.secret = call[c].key]]
  /\ Close(c)
  /\ UNCHANGED <<key, gen, nextKey, recovery, rotation, grant>>

MutantProvenWithoutSecret(x) ==
  pairing[x].st = "unused" /\ ~pairing[x].inv /\ ~pairing[x].late

\* proven_code: also what peekPairingCodeResident shows the human.
Proven(x) ==
  /\ pairing[x].st = "unused" /\ ~pairing[x].inv /\ ~pairing[x].late
  /\ pairing[x].secret = key

\* The resident row is read, not locked: the key is the snapshot's.
approveByKeyOpen(c, r) ==
  /\ CanOpen(c) /\ grant[r].st = "open"
  /\ Open(c, "approve", r, key)
  /\ UNCHANGED <<key, gen, nextKey, recovery, rotation, pairing, grant>>

approveExistingResident(c) ==
  /\ Opened(c, "approve")
  /\ grant' = IF grant[call[c].arg].st = "open"
              THEN [grant EXCEPT ![call[c].arg] = [st |-> "code", by |-> call[c].key]]
              ELSE grant
  /\ Close(c)
  /\ UNCHANGED <<key, gen, nextKey, recovery, rotation, pairing>>

approveByPairingOpen(c, r, x) ==
  /\ CanOpen(c) /\ grant[r].st = "open" /\ Proven(x)
  /\ Open(c, "redeem", <<r, x>>, pairing[x].secret)
  /\ UNCHANGED <<key, gen, nextKey, recovery, rotation, pairing, grant>>

\* Request and pairing code are locked and re-read; both are consumed with
\* the code that is issued, or neither.
approveExistingResidentByPairingCode(c) ==
  /\ Opened(c, "redeem")
  /\ LET r == call[c].arg[1]
         x == call[c].arg[2] IN
     \/ /\ grant[r].st = "open"
        /\ pairing[x].st = "unused" /\ ~pairing[x].inv
        /\ grant' = [grant EXCEPT ![r] = [st |-> "code", by |-> call[c].key]]
        /\ pairing' = [pairing EXCEPT ![x].st = "used"]
     \/ /\ ~(grant[r].st = "open" /\ pairing[x].st = "unused" /\ ~pairing[x].inv)
        /\ UNCHANGED <<grant, pairing>>
  /\ Close(c)
  /\ UNCHANGED <<key, gen, nextKey, recovery, rotation>>

\* exchangeAuthorizationCode, as OAuthTokens details it.
Exchange(r) ==
  /\ grant[r].st = "code"
  /\ grant' = [grant EXCEPT ![r].st = "family"]
  /\ UNCHANGED <<key, gen, nextKey, recovery, rotation, pairing, call>>

\* cancelAuthorizationRequest, or the request or its code expires.
SignInEnds(r) ==
  /\ grant[r].st \in {"open", "code"}
  /\ grant' = [grant EXCEPT ![r].st = IF grant[r].st = "open" THEN "over" ELSE "void"]
  /\ UNCHANGED <<key, gen, nextKey, recovery, rotation, pairing, call>>

-----------------------------------------------------------------------------
(* Faults and time                                                         *)

\* The process dies, or the statement is aborted: an open statement changed
\* nothing, a key change that committed keeps its pairing codes.
Crash(c) ==
  /\ call[c].pc # "idle"
  /\ Close(c)
  /\ UNCHANGED <<key, gen, nextKey, recovery, rotation, pairing, grant>>

RowExpires ==
  \/ \E x \in RecoveryCodes : /\ recovery[x].st = "staged" /\ ~recovery[x].late
                      /\ recovery' = [recovery EXCEPT ![x].late = TRUE]
                      /\ UNCHANGED <<key, gen, nextKey, rotation, pairing, grant, call>>
  \/ \E x \in Rotations : /\ LiveRotation(x) /\ ~rotation[x].late
                          /\ rotation' = [rotation EXCEPT ![x].late = TRUE]
                          /\ UNCHANGED <<key, gen, nextKey, recovery, pairing, grant, call>>
  \/ \E x \in Pairings : /\ pairing[x].st = "unused" /\ ~pairing[x].late
                         /\ pairing' = [pairing EXCEPT ![x].late = TRUE]
                         /\ UNCHANGED <<key, gen, nextKey, recovery, rotation, grant, call>>

\* date_trunc('day', now(), 'UTC') moves on, between statements.
NextDay ==
  /\ \A c \in Calls : call[c].pc # "open"
  /\ rotation' = [x \in Rotations |-> [rotation[x] EXCEPT !.today = FALSE]]
  /\ UNCHANGED <<key, gen, nextKey, recovery, pairing, grant, call>>

OpenStep(c) ==
  \/ generateRecoveryCodesOpen(c)
  \/ \E x \in RecoveryCodes : confirmRootRecoveryOpen(c, x)
  \/ \E x \in Rotations : confirmRootRotationOpen(c, x)
  \/ \E x \in Pairings : mintPairingCodeOpen(c, x)
  \/ \E r \in Requests : approveByKeyOpen(c, r)
  \/ \E r \in Requests, x \in Pairings : approveByPairingOpen(c, r, x)

CommitStep(c) ==
  \/ generateRecoveryCodes(c) \/ confirmRootRecovery(c) \/ confirmRootRotation(c)
  \/ invalidatePairingCodesForResident(c) \/ mintPairingCode(c)
  \/ approveExistingResident(c) \/ approveExistingResidentByPairingCode(c)

\* The operations of one statement that is a single step.
Statement ==
  \/ \E x \in RecoveryCodes : stageRootRecovery(x) \/ cancelRootRecovery(x)
  \/ \E x \in Rotations : stageRootRotation(x) \/ cancelRootRotation(x)
  \/ \E r \in Requests : Exchange(r) \/ SignInEnds(r)

Next ==
  \/ \E c \in Calls : OpenStep(c) \/ CommitStep(c) \/ Crash(c)
  \/ Alone /\ Statement
  \/ RowExpires \/ NextDay

Spec == Init /\ [][Next]_vars

-----------------------------------------------------------------------------
(* Properties                                                              *)

\* Every authorization code and token family that still works was approved
\* under the key that is current: a key change ends what the earlier key
\* granted, pairing codes of the earlier key included, even when the process
\* dies between the key change and the invalidation of the pairing codes
\* (confirmRootRecoveryOnce, confirmRootRotationOnce, proven_code).
NoGrantOfOldKey ==
  \A r \in Requests : grant[r].st \in {"code", "family"} => grant[r].by = key

\* A generation ends once, by one key change or by a new code set, whichever of
\* its recovery codes and staged rotations are confirmed at once or long after:
\* a stage made under an earlier key or code set never replaces a later key.
OneChangePerGeneration ==
  LET Recovered == {x \in RecoveryCodes : recovery[x].st = "used"}
      Rotated == {x \in Rotations : rotation[x].st = "confirmed"} IN
  /\ \A x, y \in Recovered : recovery[x].gen = recovery[y].gen => x = y
  /\ \A x, y \in Rotated : rotation[x].gen = rotation[y].gen => x = y
  /\ \A x \in Recovered, y \in Rotated : recovery[x].gen # rotation[y].gen
  /\ \A y \in RecoveryCodes : /\ \A x \in Recovered : recovery[y].gen # recovery[x].gen + 1
                      /\ \A x \in Rotated : recovery[y].gen # rotation[x].gen + 1

\* The recovery codes of the current generation are one complete set in which
\* every code still works, or there are none: of two sets generated at once
\* the one shown last is the one that counts, and no invalidation reaches it.
OneCurrentSet ==
  LET current == {x \in RecoveryCodes : recovery[x].st # "absent" /\ recovery[x].gen = gen} IN
  current = {} \/ (Cardinality(current) = SetSize /\ \A x \in current : LiveCode(x))

\* Voluntary rotations of a UTC day stay within the limit although the count
\* is the snapshot's (daily_successes).
RotationsWithinDay == Cardinality({x \in Rotations : rotation[x].today}) <= DailyMax

\* A key change is one change: it ends its generation, leaves one complete code
\* set or none, and counts towards the day's limit.
KeyChangeIsOne == OneChangePerGeneration /\ OneCurrentSet /\ RotationsWithinDay
=============================================================================
