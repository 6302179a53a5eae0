--------------------------- MODULE ResidentKeysProofs ---------------------------
(***************************************************************************)
(* Proofs about ResidentKeys, for every number of keys, codes, stages,     *)
(* sign-ins and overlapping statements.                                    *)
(***************************************************************************)
EXTENDS ResidentKeys, TLAPS, FiniteSetTheorems

\* What the proofs need of the constants: there are codes for a first set.
KeysAssumption ==
  /\ MaxKeys \in Nat /\ Recoveries \in Nat /\ SetSize \in 1 .. Recoveries
  /\ DailyMax \in Nat /\ IsFiniteSet(Rotations)

-----------------------------------------------------------------------------
(* The inductive invariant                                                 *)

CodeRow == [st : {"absent", "free", "staged", "used", "invalid"}, gen : Nat, repl : Keys, late : BOOLEAN]
RotationRow == [st : {"absent", "staged", "confirmed", "dead"}, gen : Nat, old : Keys, repl : Keys,
                late : BOOLEAN, today : BOOLEAN]
PairingRow == [st : {"absent", "unused", "used"}, secret : Keys, inv : BOOLEAN, late : BOOLEAN]
GrantRow == [st : {"open", "over", "code", "void", "family", "revoked"}, by : Keys]
CallRow(arg) == [pc : {"idle", "open", "clear"}, kind : Kinds, arg : {arg}, key : Keys,
                 codes : SUBSET Requests, fams : SUBSET Requests,
                 rows : SUBSET (RecoveryCodes \cup Rotations), done : 0 .. Cardinality(Rotations)]

\* The argument of a statement is what its kind says.
ArgFits(q) ==
  /\ q.pc # "open" => q.kind = "none" /\ q.arg = 0
  /\ q.kind = "recover" => q.arg \in RecoveryCodes
  /\ q.kind = "rotate" => q.arg \in Rotations
  /\ q.kind = "mint" => q.arg \in Pairings
  /\ q.kind = "approve" => q.arg \in Requests
  /\ q.kind = "redeem" => q.arg \in Requests \X Pairings
  /\ q.kind \in {"none", "generate"} => q.arg = 0

\* A replacement key is stored only while its stage is open.
SecretsErased ==
  /\ \A x \in RecoveryCodes : recovery[x].st # "staged" => recovery[x].repl = 0
  /\ \A x \in Rotations : rotation[x].st # "staged" => rotation[x].repl = 0

KeysTyped ==
  /\ key \in Keys /\ gen \in Nat /\ nextKey \in 1 .. MaxKeys + 1
  /\ recovery \in [RecoveryCodes -> CodeRow] /\ rotation \in [Rotations -> RotationRow]
  /\ pairing \in [Pairings -> PairingRow] /\ grant \in [Requests -> GrantRow]
  /\ call = [c \in Calls |-> call[c]]
  /\ \A c \in Calls : call[c] \in CallRow(call[c].arg) /\ ArgFits(call[c])

\* No row is of a later generation, and what changed the key is of an earlier one.
Generations ==
  /\ \A x \in RecoveryCodes : /\ recovery[x].gen <= gen
                              /\ recovery[x].st = "used" => recovery[x].gen < gen
  /\ \A x \in Rotations : /\ rotation[x].gen <= gen
                          /\ rotation[x].st = "confirmed" => rotation[x].gen < gen

Today == {x \in Rotations : rotation[x].today}

\* A confirmation that can still succeed has counted the rotations of the day: the
\* count is stale only when its generation is over.
CountIsFresh(q) ==
  q.pc = "open" /\ q.kind = "rotate" =>
    /\ rotation[q.arg].st # "absent"
    /\ rotation[q.arg].gen = gen => q.done = Cardinality(Today)

CountsFresh ==
  /\ \A x \in Rotations : rotation[x].today => rotation[x].st = "confirmed"
  /\ \A c \in Calls : CountIsFresh(call[c])

\* Statements that do not overlap see what is there when they commit.
SeesNow(q) ==
  q.pc = "open" =>
    /\ q.codes = {r \in Requests : grant[r].st = "code"}
    /\ q.fams = {r \in Requests : grant[r].st = "family"}
    /\ q.kind \in {"approve", "redeem"} => q.key = key

OneAtATime ==
  Serial => /\ \A c, d \in Calls : call[c].pc = "open" /\ call[d].pc = "open" => c = d
            /\ \A c \in Calls : SeesNow(call[c])
            /\ NoGrantOfOldKey

KeysInv ==
  /\ KeysTyped /\ SecretsErased
  /\ Generations /\ OneChangePerGeneration /\ OneCurrentSet
  /\ CountsFresh /\ RotationsWithinDay /\ OneAtATime

-----------------------------------------------------------------------------
(* The rows                                                                *)

LEMMA RowTypes ==
  ASSUME KeysTyped
  PROVE  /\ \A x \in RecoveryCodes : recovery[x] \in CodeRow
         /\ \A x \in Rotations : rotation[x] \in RotationRow
         /\ \A x \in Pairings : pairing[x] \in PairingRow
         /\ \A r \in Requests : grant[r] \in GrantRow
         /\ \A c \in Calls : call[c] \in CallRow(call[c].arg) /\ ArgFits(call[c])
  BY DEF KeysTyped

\* The rows that the statements write.
FreshCode(st, g) == [NoCode EXCEPT !.st = st, !.gen = g]
DoneRotation(g) == [NoRotation EXCEPT !.st = "confirmed", !.gen = g, !.today = TRUE]
StagedRotation(g, k, n) == [NoRotation EXCEPT !.st = "staged", !.gen = g, !.old = k, !.repl = n]
ClearCall == [Idle EXCEPT !.pc = "clear"]

LEMMA ZeroTyped ==
  KeysAssumption => 0 \in Keys /\ 0 \in Nat /\ 0 \in 0 .. Cardinality(Rotations)
  BY FS_CardinalityType DEF KeysAssumption, Keys

LEMMA FreshCodeRow ==
  ASSUME KeysAssumption, NEW g \in Nat, NEW st \in {"free", "used", "invalid"}
  PROVE  LET row == FreshCode(st, g)
         IN  row \in CodeRow /\ row.st = st /\ row.gen = g /\ row.repl = 0
<1> SUFFICES ASSUME NEW row, row = FreshCode(st, g)
             PROVE  row \in CodeRow /\ row.st = st /\ row.gen = g /\ row.repl = 0
  OBVIOUS
<1> QED BY ZeroTyped DEF FreshCode, NoCode, CodeRow

LEMMA DoneRotationRow ==
  ASSUME KeysAssumption, NEW g \in Nat
  PROVE  LET row == DoneRotation(g)
         IN  /\ row \in RotationRow /\ row.st = "confirmed" /\ row.gen = g /\ row.repl = 0
             /\ row.today = TRUE
<1> SUFFICES ASSUME NEW row, row = DoneRotation(g)
             PROVE  /\ row \in RotationRow /\ row.st = "confirmed" /\ row.gen = g /\ row.repl = 0
                    /\ row.today = TRUE
  OBVIOUS
<1> QED BY ZeroTyped DEF DoneRotation, NoRotation, RotationRow

LEMMA StagedRotationRow ==
  ASSUME KeysAssumption, NEW g \in Nat, NEW k \in Keys, NEW n \in Keys
  PROVE  LET row == StagedRotation(g, k, n)
         IN  row \in RotationRow /\ row.st = "staged" /\ row.gen = g /\ row.today = FALSE
<1> SUFFICES ASSUME NEW row, row = StagedRotation(g, k, n)
             PROVE  row \in RotationRow /\ row.st = "staged" /\ row.gen = g /\ row.today = FALSE
  OBVIOUS
<1> QED BY ZeroTyped DEF StagedRotation, NoRotation, RotationRow

LEMMA DeadRotationRow ==
  ASSUME KeysAssumption, NEW x, rotation[x].gen \in Nat
  PROVE  LET row == DeadRotation(x)
         IN  /\ row \in RotationRow /\ row.st = "dead" /\ row.gen = rotation[x].gen /\ row.repl = 0
             /\ row.today = FALSE
<1> SUFFICES ASSUME NEW row, row = DeadRotation(x)
             PROVE  /\ row \in RotationRow /\ row.st = "dead" /\ row.gen = rotation[x].gen /\ row.repl = 0
                    /\ row.today = FALSE
  OBVIOUS
<1> QED BY ZeroTyped DEF DeadRotation, NoRotation, RotationRow

LEMMA IdleRow ==
  ASSUME KeysAssumption
  PROVE  /\ Idle \in CallRow(Idle.arg) /\ ArgFits(Idle) /\ Idle.pc = "idle"
         /\ ClearCall \in CallRow(ClearCall.arg) /\ ArgFits(ClearCall) /\ ClearCall.pc = "clear"
<1>1. Idle \in CallRow(0) /\ Idle.pc = "idle" /\ Idle.arg = 0 /\ Idle.kind = "none"
  BY ZeroTyped DEF Idle, CallRow, Kinds
<1>2. ClearCall \in CallRow(0) /\ ClearCall.pc = "clear" /\ ClearCall.arg = 0 /\ ClearCall.kind = "none"
  <2> SUFFICES ASSUME NEW q, q = ClearCall
               PROVE  q \in CallRow(0) /\ q.pc = "clear" /\ q.arg = 0 /\ q.kind = "none"
    OBVIOUS
  <2> QED BY ZeroTyped DEF ClearCall, Idle, CallRow, Kinds
<1>3. ArgFits(Idle) /\ ArgFits(ClearCall)
  BY <1>1, <1>2 DEF ArgFits
<1> QED BY <1>1, <1>2, <1>3

\* One statement moves on to q.
LEMMA CallMoves ==
  ASSUME KeysTyped, NEW c \in Calls, NEW q, call' = [call EXCEPT ![c] = q],
         q \in CallRow(q.arg), ArgFits(q)
  PROVE  /\ call' = [d \in Calls |-> call'[d]] /\ call'[c] = q
         /\ \A d \in Calls \ {c} : call'[d] = call[d]
         /\ \A d \in Calls : call'[d] \in CallRow(call'[d].arg) /\ ArgFits(call'[d])
<1>1. call = [d \in Calls |-> call[d]] /\ \A d \in Calls : call[d] \in CallRow(call[d].arg) /\ ArgFits(call[d])
  BY DEF KeysTyped
<1> QED BY <1>1

LEMMA TodayFinite ==
  ASSUME KeysAssumption
  PROVE  /\ IsFiniteSet(Today) /\ Cardinality(Today) \in 0 .. Cardinality(Rotations)
         /\ Cardinality(Rotations) \in Nat
  BY FS_Subset, FS_CardinalityType DEF Today, KeysAssumption

-----------------------------------------------------------------------------
(* Steps within a generation                                               *)

\* What happens to codes and stages within a generation.
SameGeneration ==
  /\ gen' = gen
  /\ \A x \in RecoveryCodes :
       /\ recovery'[x].gen = recovery[x].gen
       /\ recovery'[x].st = "absent" <=> recovery[x].st = "absent"
       /\ recovery'[x].st = "used" <=> recovery[x].st = "used"
       /\ recovery'[x].st \in {"free", "staged"} <=> recovery[x].st \in {"free", "staged"}
  /\ \A x \in Rotations :
       /\ rotation'[x].st = "confirmed" <=> rotation[x].st = "confirmed"
       /\ \/ rotation'[x].gen = rotation[x].gen /\ (rotation[x].st # "absent" => rotation'[x].st # "absent")
          \/ rotation[x].st = "absent" /\ rotation'[x].st = "staged" /\ rotation'[x].gen = gen

LEMMA GenerationKept ==
  ASSUME KeysInv, SameGeneration
  PROVE  Generations' /\ OneChangePerGeneration' /\ OneCurrentSet'
<1>1. Generations'
  BY DEF KeysInv, KeysTyped, Generations, SameGeneration
<1>2. OneChangePerGeneration'
  BY DEF KeysInv, OneChangePerGeneration, SameGeneration
<1>3. OneCurrentSet'
  <2>1. {x \in RecoveryCodes : recovery'[x].st # "absent" /\ recovery'[x].gen = gen'}
          = {x \in RecoveryCodes : recovery[x].st # "absent" /\ recovery[x].gen = gen}
    BY DEF SameGeneration
  <2> QED BY <2>1 DEF KeysInv, OneCurrentSet, SameGeneration, LiveCode
<1> QED BY <1>1, <1>2, <1>3

\* The day's rotations are what they were, and the statements count them or end.
LEMMA CountsKept ==
  ASSUME KeysInv, SameGeneration, \A x \in Rotations : rotation'[x].today = rotation[x].today,
         \A d \in Calls : call'[d] = call[d] \/ call'[d].pc # "open" \/ CountIsFresh(call[d])'
  PROVE  CountsFresh' /\ RotationsWithinDay'
<1>1. Today' = Today
  BY DEF Today
<1>2. \A x \in Rotations : rotation'[x].today => rotation'[x].st = "confirmed"
  BY DEF KeysInv, CountsFresh, SameGeneration
<1>3. ASSUME NEW d \in Calls PROVE CountIsFresh(call[d])'
  <2>1. CASE call'[d] = call[d]
    <3>1. CASE call[d].pc = "open" /\ call[d].kind = "rotate"
      <4>1. /\ call[d].arg \in Rotations /\ rotation[call[d].arg].st # "absent"
            /\ rotation[call[d].arg].gen = gen => call[d].done = Cardinality(Today)
        BY <3>1, RowTypes DEF KeysInv, CountsFresh, CountIsFresh, ArgFits
      <4>2. rotation'[call[d].arg].st # "absent" /\ rotation'[call[d].arg].gen = rotation[call[d].arg].gen
        BY <4>1 DEF SameGeneration
      <4> QED BY <2>1, <4>1, <4>2, <1>1 DEF CountIsFresh, SameGeneration
    <3> QED BY <2>1, <3>1 DEF CountIsFresh
  <2>2. CASE call'[d].pc # "open"
    BY <2>2 DEF CountIsFresh
  <2> QED BY <2>1, <2>2
<1>4. RotationsWithinDay'
  BY <1>1 DEF KeysInv, RotationsWithinDay, Today
<1> QED BY <1>2, <1>3, <1>4 DEF CountsFresh

\* Key and grants are what they were, and no statement opens.
LEMMA SerialKept ==
  ASSUME KeysInv, UNCHANGED <<key, grant>>, \A d \in Calls : call'[d] = call[d] \/ call'[d].pc # "open"
  PROVE  OneAtATime'
  BY DEF KeysInv, OneAtATime, SeesNow, NoGrantOfOldKey

\* With serial statements, whoever commits leaves none open.
LEMMA NoneLeftOpen ==
  ASSUME KeysInv, NEW c \in Calls, call[c].pc = "open", Serial,
         call'[c].pc # "open", \A d \in Calls \ {c} : call'[d] = call[d]
  PROVE  \A d \in Calls : call'[d].pc # "open"
  BY DEF KeysInv, OneAtATime

-----------------------------------------------------------------------------
(* One lemma for each kind of step                                         *)

LEMMA KeysInit == KeysAssumption /\ Init => KeysInv
<1> SUFFICES ASSUME KeysAssumption, Init PROVE KeysInv
  OBVIOUS
<1>0. 0 \in Keys /\ 0 \in Nat /\ 1 \in 1 .. MaxKeys + 1 /\ 1 \in Nat
  BY DEF KeysAssumption, Keys
<1>1. ASSUME NEW x \in RecoveryCodes
      PROVE  /\ recovery[x] \in CodeRow /\ recovery[x].repl = 0
             /\ \/ x <= SetSize /\ recovery[x].st = "free" /\ recovery[x].gen = 1
                \/ ~(x <= SetSize) /\ recovery[x].st = "absent" /\ recovery[x].gen = 0
  <2>1. CASE x <= SetSize
    <3>1. recovery[x] = FreshCode("free", 1)
      BY <2>1 DEF Init, FreshCode
    <3> QED BY <2>1, <3>1, <1>0, FreshCodeRow
  <2>2. CASE ~(x <= SetSize)
    <3>1. recovery[x] = NoCode
      BY <2>2 DEF Init
    <3> QED BY <2>2, <3>1, <1>0 DEF NoCode, CodeRow
  <2> QED BY <2>1, <2>2
<1>2. ASSUME NEW x \in Rotations
      PROVE  /\ rotation[x] \in RotationRow /\ rotation[x].repl = 0 /\ rotation[x].st = "absent"
             /\ rotation[x].gen = 0 /\ rotation[x].today = FALSE
  BY <1>0 DEF Init, NoRotation, RotationRow
<1>3. \A c \in Calls : call[c] = Idle
  BY DEF Init
<1>4. KeysTyped
  <2>1. recovery \in [RecoveryCodes -> CodeRow]
    BY <1>1 DEF Init
  <2>2. rotation \in [Rotations -> RotationRow]
    BY <1>2 DEF Init
  <2>3. pairing \in [Pairings -> PairingRow] /\ grant \in [Requests -> GrantRow]
    BY <1>0 DEF Init, NoPairing, PairingRow, GrantRow
  <2>4. call = [c \in Calls |-> call[c]]
    BY DEF Init
  <2>5. \A c \in Calls : call[c] \in CallRow(call[c].arg) /\ ArgFits(call[c])
    BY <1>3, IdleRow
  <2> QED BY <1>0, <2>1, <2>2, <2>3, <2>4, <2>5 DEF KeysTyped, Init
<1>5. gen = 1
  BY DEF Init
<1>6. SecretsErased /\ Generations /\ OneChangePerGeneration
  <2>1. \A x \in RecoveryCodes : recovery[x].st # "used" /\ recovery[x].repl = 0 /\ recovery[x].gen <= 1
    BY <1>1
  <2>2. \A x \in Rotations : rotation[x].st # "confirmed" /\ rotation[x].repl = 0 /\ rotation[x].gen <= 1
    <3> SUFFICES ASSUME NEW x \in Rotations
                 PROVE  rotation[x].st # "confirmed" /\ rotation[x].repl = 0 /\ rotation[x].gen <= 1
      OBVIOUS
    <3>1. rotation[x].st = "absent" /\ rotation[x].repl = 0 /\ rotation[x].gen = 0
      BY <1>2
    <3> QED BY <3>1
  <2> QED BY <2>1, <2>2, <1>5 DEF SecretsErased, Generations, OneChangePerGeneration
<1>7. OneCurrentSet
  <2>1. {x \in RecoveryCodes : recovery[x].st # "absent" /\ recovery[x].gen = gen} = 1 .. SetSize
    BY <1>1, <1>5 DEF RecoveryCodes, KeysAssumption
  <2>2. Cardinality(1 .. SetSize) = SetSize
    BY FS_Interval DEF KeysAssumption
  <2>3. \A x \in 1 .. SetSize : x \in RecoveryCodes /\ LiveCode(x)
    BY <1>1 DEF RecoveryCodes, KeysAssumption, LiveCode
  <2> QED BY <2>1, <2>2, <2>3 DEF OneCurrentSet
<1>8. CountsFresh /\ RotationsWithinDay
  <2>1. {x \in Rotations : rotation[x].today} = {}
    BY <1>2
  <2>2. Cardinality({x \in Rotations : rotation[x].today}) <= DailyMax
    BY <2>1, FS_EmptySet DEF KeysAssumption
  <2> QED BY <1>2, <1>3, <2>2, IdleRow DEF CountsFresh, CountIsFresh, RotationsWithinDay
<1>9. OneAtATime
  BY <1>3, IdleRow DEF OneAtATime, SeesNow, NoGrantOfOldKey, Init
<1> QED BY <1>4, <1>6, <1>7, <1>8, <1>9 DEF KeysInv

\* A statement opens: it sees what is there.
LEMMA OpenKeeps ==
  ASSUME KeysAssumption, KeysInv, NEW c \in Calls, CanOpen(c), NEW kind \in Kinds, NEW arg, NEW k \in Keys,
         Open(c, kind, arg, k), UNCHANGED <<key, gen, nextKey, recovery, rotation, pairing, grant>>,
         kind # "none",
         kind = "recover" => arg \in RecoveryCodes,
         kind = "rotate" => arg \in Rotations /\ rotation[arg].st # "absent",
         kind = "mint" => arg \in Pairings,
         kind = "approve" => arg \in Requests,
         kind = "redeem" => arg \in Requests \X Pairings,
         kind = "generate" => arg = 0,
         kind \in {"approve", "redeem"} => k = key
  PROVE  KeysInv'
<1> DEFINE q == [pc |-> "open", kind |-> kind, arg |-> arg, key |-> k,
                 codes |-> {r \in Requests : grant[r].st = "code"},
                 fams |-> {r \in Requests : grant[r].st = "family"},
                 rows |-> {x \in RecoveryCodes : LiveCode(x)} \cup {x \in Rotations : LiveRotation(x)},
                 done |-> Cardinality({x \in Rotations : rotation[x].today})]
<1>1. call' = [call EXCEPT ![c] = q]
  BY DEF Open
<1>2. /\ q.pc = "open" /\ q.kind = kind /\ q.arg = arg /\ q.key = k /\ q.done = Cardinality(Today)
      /\ q.codes = {r \in Requests : grant[r].st = "code"}
      /\ q.fams = {r \in Requests : grant[r].st = "family"}
  BY DEF Today
<1>3. q \in CallRow(q.arg)
  <2>1. Cardinality({x \in Rotations : rotation[x].today}) \in 0 .. Cardinality(Rotations)
    BY TodayFinite DEF Today
  <2>2. {x \in RecoveryCodes : LiveCode(x)} \cup {x \in Rotations : LiveRotation(x)}
          \in SUBSET (RecoveryCodes \cup Rotations)
    OBVIOUS
  <2>3. /\ {r \in Requests : grant[r].st = "code"} \in SUBSET Requests
        /\ {r \in Requests : grant[r].st = "family"} \in SUBSET Requests
    OBVIOUS
  <2> QED BY <2>1, <2>2, <2>3 DEF CallRow
<1> HIDE DEF q
<1>4. ArgFits(q)
  BY <1>2 DEF ArgFits
<1>5. KeysTyped
  BY DEF KeysInv
<1>6. /\ call' = [d \in Calls |-> call'[d]] /\ call'[c] = q
      /\ \A d \in Calls \ {c} : call'[d] = call[d]
      /\ \A d \in Calls : call'[d] \in CallRow(call'[d].arg) /\ ArgFits(call'[d])
  BY <1>1, <1>3, <1>4, <1>5, CallMoves
<1>7. KeysTyped'
  BY <1>5, <1>6 DEF KeysTyped, CallRow
<1>8. SameGeneration
  BY DEF SameGeneration
<1>9. SecretsErased'
  BY DEF KeysInv, SecretsErased
<1>10. \A d \in Calls : call'[d] = call[d] \/ CountIsFresh(call[d])'
  <2>1. Today' = Today
    BY DEF Today
  <2> QED BY <1>2, <1>6, <2>1 DEF CountIsFresh
<1>11. OneAtATime'
  <2>2. Serial => \A d \in Calls : call'[d].pc = "open" => d = c
    BY <1>6 DEF CanOpen, Alone
  <2>3. NoGrantOfOldKey' <=> NoGrantOfOldKey
    BY DEF NoGrantOfOldKey
  <2>4. Serial => \A d \in Calls : SeesNow(call[d])'
    <3> SUFFICES ASSUME Serial, NEW d \in Calls PROVE SeesNow(call[d])'
      OBVIOUS
    <3>1. CASE d = c
      BY <3>1, <1>2, <1>6 DEF SeesNow
    <3>2. CASE d # c
      BY <3>2, <2>2 DEF SeesNow
    <3> QED BY <3>1, <3>2
  <2> QED BY <2>2, <2>3, <2>4 DEF KeysInv, OneAtATime
<1> QED BY <1>7, <1>8, <1>9, <1>10, <1>11, GenerationKept, CountsKept DEF KeysInv

LEMMA OpenStepKeeps ==
  ASSUME KeysAssumption, KeysInv, NEW c \in Calls, OpenStep(c)
  PROVE  KeysInv'
<1>0. KeysTyped /\ key \in Keys /\ 0 \in Keys
  BY ZeroTyped DEF KeysInv, KeysTyped
<1>1. CASE generateRecoveryCodesOpen(c)
  BY <1>0, <1>1, OpenKeeps DEF generateRecoveryCodesOpen, Kinds
<1>2. ASSUME NEW x \in RecoveryCodes, confirmRootRecoveryOpen(c, x) PROVE KeysInv'
  <2>1. Presented(recovery[x]) \in Keys
    BY <1>0, RowTypes DEF Presented, CodeRow
  <2> QED BY <1>2, <2>1, OpenKeeps DEF confirmRootRecoveryOpen, Kinds
<1>3. ASSUME NEW x \in Rotations, confirmRootRotationOpen(c, x) PROVE KeysInv'
  <2>1. Presented(rotation[x]) \in Keys
    BY <1>0, RowTypes DEF Presented, RotationRow
  <2>2. rotation[x].st # "absent"
    BY <1>3 DEF confirmRootRotationOpen, LiveRotation
  <2> QED BY <1>3, <2>1, <2>2, OpenKeeps DEF confirmRootRotationOpen, Kinds
<1>4. ASSUME NEW x \in Pairings, mintPairingCodeOpen(c, x) PROVE KeysInv'
  BY <1>0, <1>4, OpenKeeps DEF mintPairingCodeOpen, Kinds
<1>5. ASSUME NEW r \in Requests, approveByKeyOpen(c, r) PROVE KeysInv'
  BY <1>0, <1>5, OpenKeeps DEF approveByKeyOpen, Kinds
<1>6. ASSUME NEW r \in Requests, NEW x \in Pairings, approveByPairingOpen(c, r, x) PROVE KeysInv'
  <2>1. pairing[x].secret = key /\ <<r, x>> \in Requests \X Pairings
    BY <1>6 DEF approveByPairingOpen, Proven
  <2>2. CanOpen(c) /\ Open(c, "redeem", <<r, x>>, key)
        /\ UNCHANGED <<key, gen, nextKey, recovery, rotation, pairing, grant>>
    BY <1>6, <2>1 DEF approveByPairingOpen
  <2> QED BY <1>0, <2>1, <2>2, OpenKeeps DEF Kinds
<1> QED BY <1>1, <1>2, <1>3, <1>4, <1>5, <1>6 DEF OpenStep

\* A step that leaves key, grants and the calls alone, or ends one call.
LEMMA QuietKeeps ==
  ASSUME KeysAssumption, KeysInv, SameGeneration, UNCHANGED <<key, grant>>,
         nextKey' \in 1 .. MaxKeys + 1,
         recovery' \in [RecoveryCodes -> CodeRow], rotation' \in [Rotations -> RotationRow],
         pairing' \in [Pairings -> PairingRow], SecretsErased',
         \A x \in Rotations : rotation'[x].today = rotation[x].today,
         call' = call \/ \E c \in Calls : Close(c)
  PROVE  KeysInv'
<1>1. KeysTyped
  BY DEF KeysInv
<1>2. /\ call' = [d \in Calls |-> call'[d]]
      /\ \A d \in Calls : call'[d] = call[d] \/ call'[d].pc # "open"
      /\ \A d \in Calls : call'[d] \in CallRow(call'[d].arg) /\ ArgFits(call'[d])
  <2>1. CASE call' = call
    BY <1>1, <2>1 DEF KeysTyped
  <2>2. ASSUME NEW c \in Calls, Close(c)
        PROVE  /\ call' = [d \in Calls |-> call'[d]]
               /\ \A d \in Calls : call'[d] = call[d] \/ call'[d].pc # "open"
               /\ \A d \in Calls : call'[d] \in CallRow(call'[d].arg) /\ ArgFits(call'[d])
    <3>1. call' = [call EXCEPT ![c] = Idle]
      BY <2>2 DEF Close
    <3>2. /\ call' = [d \in Calls |-> call'[d]] /\ call'[c] = Idle
          /\ \A d \in Calls \ {c} : call'[d] = call[d]
          /\ \A d \in Calls : call'[d] \in CallRow(call'[d].arg) /\ ArgFits(call'[d])
      BY <1>1, <3>1, IdleRow, CallMoves
    <3> QED BY <3>2, IdleRow
  <2> QED BY <2>1, <2>2
<1>3. KeysTyped'
  BY <1>1, <1>2 DEF KeysTyped, SameGeneration, CallRow, GrantRow
<1> QED BY <1>2, <1>3, GenerationKept, CountsKept, SerialKept DEF KeysInv

\* Pairing codes, refused statements and crashes: codes and stages stay.
LEMMA PairingKeeps ==
  ASSUME KeysAssumption, KeysInv, NEW c \in Calls,
         invalidatePairingCodesForResident(c) \/ mintPairingCode(c) \/ Crash(c)
  PROVE  KeysInv'
<1>0. KeysTyped /\ 0 \in Keys
  BY ZeroTyped DEF KeysInv
<1>1. UNCHANGED <<key, gen, nextKey, recovery, rotation, grant>> /\ Close(c)
  BY DEF invalidatePairingCodesForResident, mintPairingCode, Crash
<1>2. pairing' \in [Pairings -> PairingRow]
  <2>1. CASE invalidatePairingCodesForResident(c)
    <3>1. ASSUME NEW x \in Pairings PROVE [pairing[x] EXCEPT !.inv = TRUE] \in PairingRow
      BY <1>0, RowTypes DEF PairingRow
    <3> QED BY <2>1, <3>1, <1>0, RowTypes DEF invalidatePairingCodesForResident
  <2>2. CASE mintPairingCode(c)
    <3>1. call[c].key \in Keys /\ call[c].arg \in Pairings
      BY <2>2, <1>0, RowTypes DEF mintPairingCode, Opened, CallRow, ArgFits
    <3>2. ASSUME NEW row, row = [NoPairing EXCEPT !.st = "unused", !.secret = call[c].key]
          PROVE  row \in PairingRow
      BY <1>0, <3>1, <3>2 DEF NoPairing, PairingRow
    <3> DEFINE row == [NoPairing EXCEPT !.st = "unused", !.secret = call[c].key]
    <3>3. row \in PairingRow /\ pairing' = [pairing EXCEPT ![call[c].arg] = row]
      BY <2>2, <3>2 DEF mintPairingCode
    <3> HIDE DEF row
    <3> QED BY <3>1, <3>3, <1>0 DEF KeysTyped
  <2>3. CASE Crash(c)
    BY <2>3, <1>0 DEF Crash, KeysTyped
  <2> QED BY <2>1, <2>2, <2>3
<1>3. SameGeneration /\ SecretsErased' /\ \A x \in Rotations : rotation'[x].today = rotation[x].today
  BY <1>1 DEF SameGeneration, KeysInv, SecretsErased
<1>4. /\ nextKey' \in 1 .. MaxKeys + 1 /\ recovery' \in [RecoveryCodes -> CodeRow]
      /\ rotation' \in [Rotations -> RotationRow]
  BY <1>0, <1>1 DEF KeysTyped
<1> QED BY <1>1, <1>2, <1>3, <1>4, QuietKeeps

LEMMA ExpiredPairingKeeps ==
  ASSUME KeysAssumption, KeysInv, NEW x \in Pairings, pairing' = [pairing EXCEPT ![x].late = TRUE],
         UNCHANGED <<key, gen, nextKey, recovery, rotation, grant, call>>
  PROVE  KeysInv'
<1>1. KeysTyped
  BY DEF KeysInv
<1>2. pairing' \in [Pairings -> PairingRow]
  BY <1>1 DEF KeysTyped, PairingRow
<1>3. SameGeneration /\ SecretsErased' /\ \A y \in Rotations : rotation'[y].today = rotation[y].today
  BY DEF SameGeneration, KeysInv, SecretsErased
<1>4. /\ nextKey' \in 1 .. MaxKeys + 1 /\ recovery' \in [RecoveryCodes -> CodeRow]
      /\ rotation' \in [Rotations -> RotationRow]
  BY <1>1 DEF KeysTyped
<1> QED BY <1>2, <1>3, <1>4, QuietKeeps

\* What the statements about recovery codes do within a generation.
CodeMoves(x) ==
  \/ recovery'[x] = recovery[x]
  \/ /\ recovery[x].st = "staged"
     /\ recovery'[x] = [recovery[x] EXCEPT !.st = "free", !.repl = 0, !.late = FALSE]
  \/ recovery[x].st = "staged" /\ recovery'[x] = [recovery[x] EXCEPT !.st = "free", !.repl = 0]
  \/ /\ recovery[x].st = "free" /\ nextKey \in Keys
     /\ recovery'[x] = [recovery[x] EXCEPT !.st = "staged", !.repl = nextKey]
  \/ recovery[x].st = "staged" /\ recovery'[x] = [recovery[x] EXCEPT !.late = TRUE]

LEMMA CodesMove ==
  ASSUME KeysAssumption, KeysInv, UNCHANGED <<key, gen, rotation, pairing, grant, call>>,
         nextKey' \in 1 .. MaxKeys + 1,
         recovery' = [x \in RecoveryCodes |-> recovery'[x]], \A x \in RecoveryCodes : CodeMoves(x)
  PROVE  KeysInv'
<1>0. KeysTyped /\ 0 \in Keys
  BY ZeroTyped DEF KeysInv
<1>1. ASSUME NEW x \in RecoveryCodes
      PROVE  /\ recovery'[x] \in CodeRow /\ recovery'[x].gen = recovery[x].gen
             /\ recovery'[x].st = "absent" <=> recovery[x].st = "absent"
             /\ recovery'[x].st = "used" <=> recovery[x].st = "used"
             /\ recovery'[x].st \in {"free", "staged"} <=> recovery[x].st \in {"free", "staged"}
             /\ recovery'[x].st # "staged" => recovery'[x].repl = 0
  <2>1. recovery[x] \in CodeRow /\ CodeMoves(x) /\ (recovery[x].st # "staged" => recovery[x].repl = 0)
    BY <1>0, RowTypes DEF KeysInv, SecretsErased
  <2>2. CASE recovery'[x] = recovery[x]
    BY <2>1, <2>2
  <2>3. CASE /\ recovery[x].st = "staged"
             /\ recovery'[x] = [recovery[x] EXCEPT !.st = "free", !.repl = 0, !.late = FALSE]
    BY <1>0, <2>1, <2>3 DEF CodeRow
  <2>4. CASE recovery[x].st = "staged" /\ recovery'[x] = [recovery[x] EXCEPT !.st = "free", !.repl = 0]
    BY <1>0, <2>1, <2>4 DEF CodeRow
  <2>5. CASE /\ recovery[x].st = "free" /\ nextKey \in Keys
             /\ recovery'[x] = [recovery[x] EXCEPT !.st = "staged", !.repl = nextKey]
    BY <1>0, <2>1, <2>5 DEF CodeRow
  <2>6. CASE recovery[x].st = "staged" /\ recovery'[x] = [recovery[x] EXCEPT !.late = TRUE]
    BY <1>0, <2>1, <2>6 DEF CodeRow
  <2> QED BY <2>1, <2>2, <2>3, <2>4, <2>5, <2>6 DEF CodeMoves
<1>2. recovery' \in [RecoveryCodes -> CodeRow]
  BY <1>1
<1>3. SameGeneration /\ SecretsErased' /\ \A x \in Rotations : rotation'[x].today = rotation[x].today
  BY <1>1 DEF SameGeneration, KeysInv, SecretsErased
<1>4. rotation' \in [Rotations -> RotationRow] /\ pairing' \in [Pairings -> PairingRow]
  BY <1>0 DEF KeysTyped
<1> QED BY <1>2, <1>3, <1>4, QuietKeeps

LEMMA RecoverySteps ==
  ASSUME KeysAssumption, KeysInv, NEW x \in RecoveryCodes,
         \/ stageRootRecovery(x) \/ cancelRootRecovery(x)
         \/ /\ recovery[x].st = "staged" /\ recovery' = [recovery EXCEPT ![x].late = TRUE]
            /\ UNCHANGED <<key, gen, nextKey, rotation, pairing, grant, call>>
  PROVE  KeysInv'
<1>0. KeysTyped /\ recovery \in [RecoveryCodes -> CodeRow] /\ nextKey \in 1 .. MaxKeys + 1
  BY DEF KeysInv, KeysTyped
<1>1. /\ UNCHANGED <<key, gen, rotation, pairing, grant, call>>
      /\ recovery' = [y \in RecoveryCodes |-> recovery'[y]]
  BY <1>0 DEF stageRootRecovery, cancelRootRecovery
<1>2. nextKey' \in 1 .. MaxKeys + 1
  <2>1. nextKey' = nextKey \/ (nextKey \in Keys /\ nextKey' = nextKey + 1)
    BY DEF stageRootRecovery, cancelRootRecovery
  <2> QED BY <1>0, <2>1 DEF Keys, KeysAssumption
<1>3. ASSUME NEW y \in RecoveryCodes PROVE CodeMoves(y)
  <2>1. CASE stageRootRecovery(x)
    BY <2>1 DEF stageRootRecovery, CodeMoves
  <2>2. CASE cancelRootRecovery(x)
    BY <1>0, <2>2 DEF cancelRootRecovery, CodeMoves
  <2>3. CASE recovery[x].st = "staged" /\ recovery' = [recovery EXCEPT ![x].late = TRUE]
    BY <1>0, <2>3 DEF CodeMoves
  <2> QED BY <2>1, <2>2, <2>3
<1> QED BY <1>1, <1>2, <1>3, CodesMove

\* What the statements about rotations do within a generation.
StageMoves(x) ==
  \/ rotation'[x] = rotation[x]
  \/ rotation[x].st = "staged" /\ rotation'[x] = DeadRotation(x)
  \/ /\ rotation[x].st = "absent" /\ nextKey \in Keys
     /\ rotation'[x] = StagedRotation(gen, key, nextKey)
  \/ rotation[x].st = "staged" /\ rotation'[x] = [rotation[x] EXCEPT !.late = TRUE]

LEMMA StagesMove ==
  ASSUME KeysAssumption, KeysInv, UNCHANGED <<key, gen, recovery, pairing, grant>>,
         nextKey' \in 1 .. MaxKeys + 1, call' = call \/ \E c \in Calls : Close(c),
         rotation' = [x \in Rotations |-> rotation'[x]], \A x \in Rotations : StageMoves(x)
  PROVE  KeysInv'
<1>0. KeysTyped /\ key \in Keys /\ gen \in Nat
  BY DEF KeysInv, KeysTyped
<1>1. ASSUME NEW x \in Rotations
      PROVE  /\ rotation'[x] \in RotationRow /\ rotation'[x].today = rotation[x].today
             /\ rotation'[x].st = "confirmed" <=> rotation[x].st = "confirmed"
             /\ \/ /\ rotation'[x].gen = rotation[x].gen
                   /\ rotation[x].st # "absent" => rotation'[x].st # "absent"
                \/ rotation[x].st = "absent" /\ rotation'[x].st = "staged" /\ rotation'[x].gen = gen
             /\ rotation'[x].st # "staged" => rotation'[x].repl = 0
  <2>1. /\ rotation[x] \in RotationRow /\ StageMoves(x)
        /\ rotation[x].st # "staged" => rotation[x].repl = 0
        /\ rotation[x].today => rotation[x].st = "confirmed"
    BY <1>0, RowTypes DEF KeysInv, SecretsErased, CountsFresh
  <2>2. rotation[x].today \in BOOLEAN /\ rotation[x].gen \in Nat
    BY <2>1 DEF RotationRow
  <2>3. CASE rotation'[x] = rotation[x]
    BY <2>1, <2>3
  <2>4. CASE rotation[x].st = "staged" /\ rotation'[x] = DeadRotation(x)
    BY <2>1, <2>2, <2>4, DeadRotationRow
  <2>5. CASE /\ rotation[x].st = "absent" /\ nextKey \in Keys
             /\ rotation'[x] = StagedRotation(gen, key, nextKey)
    <3>1. /\ rotation'[x] \in RotationRow /\ rotation'[x].st = "staged" /\ rotation'[x].gen = gen
          /\ rotation'[x].today = FALSE
      <4>1. gen \in Nat /\ key \in Keys /\ nextKey \in Keys
        BY <1>0, <2>5
      <4>2. LET row == StagedRotation(gen, key, nextKey)
            IN  row \in RotationRow /\ row.st = "staged" /\ row.gen = gen /\ row.today = FALSE
        BY <4>1, StagedRotationRow, Zenon
      <4> QED BY <2>5, <4>2
    <3>2. rotation[x].today = FALSE
      BY <2>1, <2>2, <2>5
    <3> QED BY <2>5, <3>1, <3>2
  <2>6. CASE rotation[x].st = "staged" /\ rotation'[x] = [rotation[x] EXCEPT !.late = TRUE]
    BY <2>1, <2>6 DEF RotationRow
  <2> QED BY <2>1, <2>3, <2>4, <2>5, <2>6 DEF StageMoves
<1>2. rotation' \in [Rotations -> RotationRow]
  BY <1>1
<1>3. SameGeneration /\ SecretsErased' /\ \A x \in Rotations : rotation'[x].today = rotation[x].today
  BY <1>1 DEF SameGeneration, KeysInv, SecretsErased
<1>4. recovery' \in [RecoveryCodes -> CodeRow] /\ pairing' \in [Pairings -> PairingRow]
  BY <1>0 DEF KeysTyped
<1> QED BY <1>2, <1>3, <1>4, QuietKeeps

LEMMA RotationSteps ==
  ASSUME KeysAssumption, KeysInv, NEW x \in Rotations,
         \/ stageRootRotation(x) \/ cancelRootRotation(x)
         \/ /\ LiveRotation(x) /\ rotation' = [rotation EXCEPT ![x].late = TRUE]
            /\ UNCHANGED <<key, gen, nextKey, recovery, pairing, grant, call>>
  PROVE  KeysInv'
<1>0. KeysTyped /\ rotation \in [Rotations -> RotationRow] /\ nextKey \in 1 .. MaxKeys + 1
  BY DEF KeysInv, KeysTyped
<1>1. UNCHANGED <<key, gen, recovery, pairing, grant, call>>
  BY DEF stageRootRotation, cancelRootRotation
<1>2. nextKey' \in 1 .. MaxKeys + 1
  BY <1>0 DEF stageRootRotation, cancelRootRotation, Keys, KeysAssumption
<1>3. CASE stageRootRotation(x)
  <2>1. /\ rotation[x].st = "absent" /\ nextKey \in Keys
        /\ rotation' = [ClearedRotations EXCEPT ![x] = StagedRotation(gen, key, nextKey)]
    BY <1>3 DEF stageRootRotation, StagedRotation
  <2>2. rotation' = [y \in Rotations |-> rotation'[y]] /\ \A y \in Rotations : StageMoves(y)
    BY <2>1 DEF ClearedRotations, LiveRotation, StageMoves
  <2> QED BY <1>1, <1>2, <2>2, StagesMove
<1>4. CASE ~stageRootRotation(x)
  <2>1. rotation' = [y \in Rotations |-> rotation'[y]] /\ \A y \in Rotations : StageMoves(y)
    BY <1>0, <1>4 DEF cancelRootRotation, LiveRotation, StageMoves
  <2> QED BY <1>1, <1>2, <2>1, StagesMove
<1> QED BY <1>3, <1>4

\* Sign-ins: what is granted is granted under the current key.
LEMMA GrantsKeep ==
  ASSUME KeysAssumption, KeysInv, UNCHANGED <<key, gen, nextKey, recovery, rotation>>,
         pairing' \in [Pairings -> PairingRow], grant' \in [Requests -> GrantRow],
         call' = call \/ \E c \in Calls : Close(c),
         Serial => /\ \A d \in Calls : call'[d].pc # "open"
                   /\ \A r \in Requests : grant'[r].st \in {"code", "family"} => grant'[r].by = key
  PROVE  KeysInv'
<1>1. KeysTyped
  BY DEF KeysInv
<1>2. /\ call' = [d \in Calls |-> call'[d]]
      /\ \A d \in Calls : call'[d] = call[d] \/ call'[d].pc # "open"
      /\ \A d \in Calls : call'[d] \in CallRow(call'[d].arg) /\ ArgFits(call'[d])
  <2>1. CASE call' = call
    BY <1>1, <2>1 DEF KeysTyped
  <2>2. ASSUME NEW c \in Calls, Close(c)
        PROVE  /\ call' = [d \in Calls |-> call'[d]]
               /\ \A d \in Calls : call'[d] = call[d] \/ call'[d].pc # "open"
               /\ \A d \in Calls : call'[d] \in CallRow(call'[d].arg) /\ ArgFits(call'[d])
    <3>1. call' = [call EXCEPT ![c] = Idle]
      BY <2>2 DEF Close
    <3>2. /\ call' = [d \in Calls |-> call'[d]] /\ call'[c] = Idle
          /\ \A d \in Calls \ {c} : call'[d] = call[d]
          /\ \A d \in Calls : call'[d] \in CallRow(call'[d].arg) /\ ArgFits(call'[d])
      BY <1>1, <3>1, IdleRow, CallMoves
    <3> QED BY <3>2, IdleRow
  <2> QED BY <2>1, <2>2
<1>3. KeysTyped'
  BY <1>1, <1>2 DEF KeysTyped, CallRow
<1>4. SameGeneration /\ SecretsErased' /\ \A x \in Rotations : rotation'[x].today = rotation[x].today
  BY DEF SameGeneration, KeysInv, SecretsErased
<1>5. OneAtATime'
  BY DEF OneAtATime, SeesNow, NoGrantOfOldKey
<1> QED BY <1>2, <1>3, <1>4, <1>5, GenerationKept, CountsKept DEF KeysInv

LEMMA SignInSteps ==
  ASSUME KeysAssumption, KeysInv, NEW r \in Requests, Alone, Exchange(r) \/ SignInEnds(r)
  PROVE  KeysInv'
<1>0. KeysTyped /\ grant \in [Requests -> GrantRow] /\ pairing \in [Pairings -> PairingRow]
  BY DEF KeysInv, KeysTyped
<1>1. UNCHANGED <<key, gen, nextKey, recovery, rotation, pairing, call>>
  BY DEF Exchange, SignInEnds
<1>2. \E st \in {"over", "void", "family"} :
        grant' = [grant EXCEPT ![r].st = st] /\ (st = "family" => grant[r].st = "code")
  BY DEF Exchange, SignInEnds
<1>3. grant' \in [Requests -> GrantRow]
  BY <1>0, <1>2 DEF GrantRow
<1>4. Serial => \A s \in Requests : grant'[s].st \in {"code", "family"} => grant'[s].by = key
  <2> SUFFICES ASSUME Serial, NEW s \in Requests, grant'[s].st \in {"code", "family"}
               PROVE  grant'[s].by = key
    OBVIOUS
  <2>1. grant[s] \in GrantRow /\ grant[s].st \in {"code", "family"} /\ grant'[s].by = grant[s].by
    BY <1>0, <1>2 DEF GrantRow
  <2> QED BY <2>1 DEF KeysInv, OneAtATime, NoGrantOfOldKey
<1> QED BY <1>0, <1>1, <1>3, <1>4, GrantsKeep DEF Alone

LEMMA ApproveKeeps ==
  ASSUME KeysAssumption, KeysInv, NEW c \in Calls,
         approveExistingResident(c) \/ approveExistingResidentByPairingCode(c)
  PROVE  KeysInv'
<1>0. /\ KeysTyped /\ grant \in [Requests -> GrantRow] /\ pairing \in [Pairings -> PairingRow]
      /\ call[c] \in CallRow(call[c].arg) /\ ArgFits(call[c])
  BY DEF KeysInv, KeysTyped
<1>1. /\ UNCHANGED <<key, gen, nextKey, recovery, rotation>> /\ Close(c) /\ call[c].pc = "open"
      /\ call[c].kind \in {"approve", "redeem"}
  BY DEF approveExistingResident, approveExistingResidentByPairingCode, Opened
<1> DEFINE g == [st |-> "code", by |-> call[c].key]
<1>2. g \in GrantRow /\ g.st = "code" /\ g.by = call[c].key
  BY <1>0 DEF GrantRow, CallRow
<1>3. pairing' \in [Pairings -> PairingRow] /\ \E r \in Requests : grant' = grant \/ grant' = [grant EXCEPT ![r] = g]
  <2>1. CASE approveExistingResident(c)
    BY <1>0, <2>1 DEF approveExistingResident, Opened, ArgFits
  <2>2. CASE approveExistingResidentByPairingCode(c)
    <3>1. call[c].arg[1] \in Requests /\ call[c].arg[2] \in Pairings
      BY <1>0, <2>2 DEF approveExistingResidentByPairingCode, Opened, ArgFits
    <3>2. pairing' = pairing \/ pairing' = [pairing EXCEPT ![call[c].arg[2]].st = "used"]
      BY <2>2 DEF approveExistingResidentByPairingCode
    <3>3. pairing' \in [Pairings -> PairingRow]
      BY <1>0, <3>1, <3>2 DEF PairingRow
    <3>4. grant' = grant \/ grant' = [grant EXCEPT ![call[c].arg[1]] = g]
      BY <2>2 DEF approveExistingResidentByPairingCode
    <3> QED BY <3>1, <3>3, <3>4
  <2> QED BY <2>1, <2>2
<1>4. PICK r \in Requests : grant' = grant \/ grant' = [grant EXCEPT ![r] = g]
  BY <1>3
<1> HIDE DEF g
<1>5. grant' \in [Requests -> GrantRow]
  BY <1>0, <1>2, <1>4
<1>6. Serial => \A d \in Calls : call'[d].pc # "open"
  <2>1. call'[c] = Idle /\ \A d \in Calls \ {c} : call'[d] = call[d]
    BY <1>0, <1>1, IdleRow, CallMoves DEF Close
  <2> QED BY <1>1, <2>1, IdleRow, NoneLeftOpen
<1>7. Serial => \A s \in Requests : grant'[s].st \in {"code", "family"} => grant'[s].by = key
  <2> SUFFICES ASSUME Serial, NEW s \in Requests, grant'[s].st \in {"code", "family"}
               PROVE  grant'[s].by = key
    OBVIOUS
  <2>1. g.by = key
    BY <1>1, <1>2 DEF KeysInv, OneAtATime, SeesNow
  <2>2. grant'[s] = g \/ grant'[s] = grant[s]
    BY <1>0, <1>4
  <2> QED BY <2>1, <2>2 DEF KeysInv, OneAtATime, NoGrantOfOldKey
<1> QED BY <1>1, <1>3, <1>5, <1>6, <1>7, GrantsKeep

-----------------------------------------------------------------------------
(* A new day, and a new generation                                         *)

LEMMA NextDayKeeps ==
  ASSUME KeysAssumption, KeysInv, NextDay
  PROVE  KeysInv'
<1>0. KeysTyped /\ rotation \in [Rotations -> RotationRow]
  BY DEF KeysInv, KeysTyped
<1>1. /\ UNCHANGED <<key, gen, nextKey, recovery, pairing, grant, call>>
      /\ rotation' = [x \in Rotations |-> [rotation[x] EXCEPT !.today = FALSE]]
      /\ \A c \in Calls : call[c].pc # "open"
  BY DEF NextDay
<1>2. ASSUME NEW x \in Rotations
      PROVE  /\ rotation'[x] \in RotationRow /\ rotation'[x].today = FALSE
             /\ rotation'[x].st = rotation[x].st /\ rotation'[x].gen = rotation[x].gen
             /\ rotation'[x].repl = rotation[x].repl
  BY <1>0, <1>1 DEF RotationRow
<1>3. KeysTyped'
  BY <1>0, <1>1, <1>2 DEF KeysTyped, CallRow
<1>4. SameGeneration /\ SecretsErased'
  BY <1>1, <1>2 DEF SameGeneration, KeysInv, SecretsErased
<1>5. CountsFresh'
  BY <1>1, <1>2 DEF CountsFresh, CountIsFresh
<1>6. RotationsWithinDay'
  <2>1. {x \in Rotations : rotation'[x].today} = {}
    BY <1>2
  <2> QED BY <2>1, FS_EmptySet DEF RotationsWithinDay, KeysAssumption
<1>7. OneAtATime'
  BY <1>1, SerialKept
<1> QED BY <1>3, <1>4, <1>5, <1>6, <1>7, GenerationKept DEF KeysInv

\* The invalidating updates, row by row.
LEMMA InvalidRows ==
  ASSUME KeysAssumption, KeysInv, NEW c \in Calls
  PROVE  /\ InvalidCodes(c) \in [RecoveryCodes -> CodeRow]
         /\ DeadRotations(c) \in [Rotations -> RotationRow]
         /\ RevokeGrants(c) \in [Requests -> GrantRow]
         /\ \A x \in RecoveryCodes :
              LET row == InvalidCodes(c)[x]
              IN  /\ row.gen = recovery[x].gen /\ (row.st = "used" <=> recovery[x].st = "used")
                  /\ row.st # "staged" => row.repl = 0
         /\ \A x \in Rotations :
              LET row == DeadRotations(c)[x]
              IN  /\ row.gen = rotation[x].gen /\ (row.st = "confirmed" <=> rotation[x].st = "confirmed")
                  /\ row.today = rotation[x].today /\ (row.st # "staged" => row.repl = 0)
                  /\ rotation[x].st # "absent" => row.st # "absent"
<1>0. KeysTyped
  BY DEF KeysInv
<1>1. ASSUME NEW x \in RecoveryCodes, NEW row, row = InvalidCodes(c)[x]
      PROVE  /\ row \in CodeRow
             /\ row.gen = recovery[x].gen /\ (row.st = "used" <=> recovery[x].st = "used")
             /\ row.st # "staged" => row.repl = 0
  <2>1. /\ recovery[x] \in CodeRow /\ recovery[x].gen \in Nat
        /\ recovery[x].st # "staged" => recovery[x].repl = 0
    BY <1>0, RowTypes DEF KeysInv, SecretsErased, CodeRow
  <2>2. row = recovery[x] \/ (LiveCode(x) /\ row = FreshCode("invalid", recovery[x].gen))
    BY <1>1 DEF InvalidCodes, FreshCode
  <2> QED BY <2>1, <2>2, FreshCodeRow DEF LiveCode
<1>2. ASSUME NEW x \in Rotations, NEW row, row = DeadRotations(c)[x]
      PROVE  /\ row \in RotationRow
             /\ row.gen = rotation[x].gen /\ (row.st = "confirmed" <=> rotation[x].st = "confirmed")
             /\ row.today = rotation[x].today /\ (row.st # "staged" => row.repl = 0)
             /\ rotation[x].st # "absent" => row.st # "absent"
  <2>1. /\ rotation[x] \in RotationRow /\ rotation[x].gen \in Nat /\ rotation[x].today \in BOOLEAN
        /\ rotation[x].st # "staged" => rotation[x].repl = 0
        /\ rotation[x].today => rotation[x].st = "confirmed"
    BY <1>0, RowTypes DEF KeysInv, SecretsErased, RotationRow, CountsFresh
  <2>2. row = rotation[x] \/ (LiveRotation(x) /\ row = DeadRotation(x))
    BY <1>2 DEF DeadRotations
  <2>3. CASE row = rotation[x]
    BY <2>1, <2>3
  <2>4. CASE LiveRotation(x) /\ row = DeadRotation(x)
    BY <2>1, <2>4, DeadRotationRow DEF LiveRotation
  <2> QED BY <2>2, <2>3, <2>4
<1>3. ASSUME NEW r \in Requests PROVE RevokeGrants(c)[r] \in GrantRow
  BY <1>0, RowTypes DEF RevokeGrants, GrantRow
<1>4. InvalidCodes(c) \in [RecoveryCodes -> CodeRow]
  BY <1>1 DEF InvalidCodes
<1>5. DeadRotations(c) \in [Rotations -> RotationRow]
  BY <1>2 DEF DeadRotations
<1>6. RevokeGrants(c) \in [Requests -> GrantRow]
  BY <1>3 DEF RevokeGrants
<1> QED BY <1>1, <1>2, <1>4, <1>5, <1>6

\* A generation ends: by the codes U or the rotations R that changed the key, of which
\* there is one at most, or by the new set of codes F.  All others keep what they were.
LEMMA GenerationEnds ==
  ASSUME KeysAssumption, KeysInv, gen' = gen + 1,
         recovery' \in [RecoveryCodes -> CodeRow], rotation' \in [Rotations -> RotationRow],
         NEW U \in SUBSET RecoveryCodes, NEW F \in SUBSET RecoveryCodes, NEW R \in SUBSET Rotations,
         \A x \in F : recovery'[x].st = "free" /\ recovery'[x].gen = gen + 1,
         \A x \in RecoveryCodes \ F : recovery'[x].gen = recovery[x].gen,
         \A x \in RecoveryCodes : recovery'[x].st = "used" => x \in U \/ recovery[x].st = "used",
         \A x \in Rotations : rotation'[x].gen = rotation[x].gen,
         \A x \in Rotations : rotation'[x].st = "confirmed" => x \in R \/ rotation[x].st = "confirmed",
         \A x \in U : recovery[x].gen = gen, \A x \in R : rotation[x].gen = gen,
         \A x, y \in U : x = y, \A x, y \in R : x = y, U = {} \/ R = {},
         F = {} \/ (U = {} /\ R = {} /\ Cardinality(F) = SetSize)
  PROVE  Generations' /\ OneChangePerGeneration' /\ OneCurrentSet'
<1>0. gen \in Nat /\ \A x \in RecoveryCodes : recovery[x].gen \in Nat /\ recovery[x].gen <= gen
  BY RowTypes DEF KeysInv, KeysTyped, Generations, CodeRow
<1>1. \A x \in Rotations : rotation[x].gen \in Nat /\ rotation[x].gen <= gen
  BY RowTypes DEF KeysInv, Generations, RotationRow
<1>2. ASSUME NEW x \in RecoveryCodes, recovery'[x].st = "used"
      PROVE  /\ x \notin F /\ recovery'[x].gen = recovery[x].gen
             /\ \/ x \in U /\ recovery[x].gen = gen
                \/ recovery[x].st = "used" /\ recovery[x].gen < gen
  BY <1>2 DEF KeysInv, Generations
<1>3. ASSUME NEW x \in Rotations, rotation'[x].st = "confirmed"
      PROVE  \/ x \in R /\ rotation[x].gen = gen
             \/ rotation[x].st = "confirmed" /\ rotation[x].gen < gen
  BY <1>3 DEF KeysInv, Generations
<1>4. Generations'
  <2>1. ASSUME NEW x \in RecoveryCodes
        PROVE  recovery'[x].gen <= gen + 1 /\ (recovery'[x].st = "used" => recovery'[x].gen < gen + 1)
    BY <1>0, <1>2
  <2>2. ASSUME NEW x \in Rotations
        PROVE  rotation'[x].gen <= gen + 1 /\ (rotation'[x].st = "confirmed" => rotation'[x].gen < gen + 1)
    BY <1>0, <1>1
  <2> QED BY <2>1, <2>2 DEF Generations
<1>5. OneChangePerGeneration'
  <2>1. ASSUME NEW x \in RecoveryCodes, NEW y \in RecoveryCodes, recovery'[x].st = "used",
               recovery'[y].st = "used", recovery'[x].gen = recovery'[y].gen
        PROVE  x = y
    BY <1>0, <1>2, <2>1 DEF KeysInv, OneChangePerGeneration
  <2>2. ASSUME NEW x \in Rotations, NEW y \in Rotations, rotation'[x].st = "confirmed",
               rotation'[y].st = "confirmed", rotation'[x].gen = rotation'[y].gen
        PROVE  x = y
    BY <1>0, <1>1, <1>3, <2>2 DEF KeysInv, OneChangePerGeneration
  <2>3. ASSUME NEW x \in RecoveryCodes, NEW y \in Rotations, recovery'[x].st = "used",
               rotation'[y].st = "confirmed"
        PROVE  recovery'[x].gen # rotation'[y].gen
    BY <1>0, <1>1, <1>2, <1>3, <2>3 DEF KeysInv, OneChangePerGeneration
  <2>4. ASSUME NEW y \in RecoveryCodes, NEW x \in RecoveryCodes, recovery'[x].st = "used"
        PROVE  recovery'[y].gen # recovery'[x].gen + 1
    BY <1>0, <1>2, <2>4 DEF KeysInv, OneChangePerGeneration
  <2>5. ASSUME NEW y \in RecoveryCodes, NEW x \in Rotations, rotation'[x].st = "confirmed"
        PROVE  recovery'[y].gen # rotation'[x].gen + 1
    BY <1>0, <1>1, <1>3, <2>5 DEF KeysInv, OneChangePerGeneration
  <2> QED BY <2>1, <2>2, <2>3, <2>4, <2>5 DEF OneChangePerGeneration
<1>6. OneCurrentSet'
  <2>1. {x \in RecoveryCodes : recovery'[x].st # "absent" /\ recovery'[x].gen = gen + 1} = F
    BY <1>0
  <2> QED BY ZenonT(40), <2>1 DEF OneCurrentSet, LiveCode
<1> QED BY <1>4, <1>5, <1>6

\* The statement c that ends the generation goes on to q; the counts of the others are
\* of the generation that ended.
LEMMA CountsEnd ==
  ASSUME KeysInv, gen' = gen + 1, NEW c \in Calls, call'[c].pc # "open",
         \A d \in Calls \ {c} : call'[d] = call[d],
         \A x \in Rotations : /\ rotation'[x].gen = rotation[x].gen
                              /\ rotation[x].st # "absent" => rotation'[x].st # "absent"
                              /\ rotation'[x].today => rotation'[x].st = "confirmed"
  PROVE  CountsFresh'
<1>1. ASSUME NEW d \in Calls PROVE CountIsFresh(call[d])'
  <2>1. CASE d # c /\ call[d].pc = "open" /\ call[d].kind = "rotate"
    <3>1. call'[d] = call[d] /\ call[d].arg \in Rotations /\ rotation[call[d].arg].st # "absent"
      BY <2>1, RowTypes DEF KeysInv, CountsFresh, CountIsFresh, ArgFits
    <3>2. rotation'[call[d].arg].st # "absent" /\ rotation'[call[d].arg].gen # gen'
      <4>1. rotation[call[d].arg].gen \in Nat /\ rotation[call[d].arg].gen <= gen /\ gen \in Nat
        BY <3>1, RowTypes DEF KeysInv, KeysTyped, RotationRow, Generations
      <4> QED BY <3>1, <4>1
    <3> QED BY <3>1, <3>2 DEF CountIsFresh
  <2> QED BY <2>1 DEF CountIsFresh
<1> QED BY <1>1 DEF CountsFresh

LEMMA GenerateKeeps ==
  ASSUME KeysAssumption, KeysInv, NEW c \in Calls, generateRecoveryCodes(c)
  PROVE  KeysInv'
<1>0. /\ KeysTyped /\ gen \in Nat /\ recovery \in [RecoveryCodes -> CodeRow]
      /\ rotation \in [Rotations -> RotationRow] /\ pairing \in [Pairings -> PairingRow]
  BY DEF KeysInv, KeysTyped
<1>1. UNCHANGED <<key, nextKey, pairing, grant>> /\ Close(c)
  BY DEF generateRecoveryCodes
<1>2. CASE UNCHANGED <<gen, recovery, rotation>>
  <2>1. SameGeneration /\ SecretsErased' /\ \A x \in Rotations : rotation'[x].today = rotation[x].today
    BY <1>2 DEF SameGeneration, KeysInv, SecretsErased
  <2>2. nextKey' \in 1 .. MaxKeys + 1
    BY <1>0, <1>1 DEF KeysTyped
  <2> QED BY <1>0, <1>1, <1>2, <2>1, <2>2, QuietKeeps
<1>3. CASE /\ Cardinality(NextSet) = SetSize /\ gen' = gen + 1 /\ rotation' = DeadRotations(c)
           /\ recovery' = [x \in RecoveryCodes |-> IF x \in NextSet THEN FreshCode("free", gen + 1)
                                                   ELSE InvalidCodes(c)[x]]
  <2>1. ASSUME NEW x \in RecoveryCodes
        PROVE  /\ recovery'[x] \in CodeRow /\ (recovery'[x].st # "staged" => recovery'[x].repl = 0)
               /\ x \in NextSet => recovery'[x].st = "free" /\ recovery'[x].gen = gen + 1
               /\ x \notin NextSet => recovery'[x].gen = recovery[x].gen
               /\ recovery'[x].st = "used" => recovery[x].st = "used"
    <3>1. CASE x \in NextSet
      <4>1. recovery'[x] = FreshCode("free", gen + 1) /\ gen + 1 \in Nat
        BY <1>0, <1>3, <3>1
      <4> QED BY <3>1, <4>1, FreshCodeRow
    <3>2. CASE x \notin NextSet
      <4>1. recovery'[x] = InvalidCodes(c)[x]
        BY <1>3, <3>2
      <4> QED BY <3>2, <4>1, InvalidRows
    <3> QED BY <3>1, <3>2
  <2>2. recovery' \in [RecoveryCodes -> CodeRow]
    BY <1>3, <2>1
  <2>3. /\ rotation' \in [Rotations -> RotationRow]
        /\ \A x \in Rotations : /\ rotation'[x].gen = rotation[x].gen
                                /\ rotation'[x].st = "confirmed" <=> rotation[x].st = "confirmed"
                                /\ rotation'[x].today = rotation[x].today
                                /\ rotation'[x].st # "staged" => rotation'[x].repl = 0
                                /\ rotation[x].st # "absent" => rotation'[x].st # "absent"
    BY <1>3, InvalidRows
  <2>4. Generations' /\ OneChangePerGeneration' /\ OneCurrentSet'
    <3>1. NextSet \in SUBSET RecoveryCodes /\ {} \in SUBSET RecoveryCodes /\ {} \in SUBSET Rotations
      BY DEF NextSet, Unset
    <3> DEFINE F == NextSet
               U == {}
               R == {}
    <3>2. /\ F \in SUBSET RecoveryCodes /\ U \in SUBSET RecoveryCodes /\ R \in SUBSET Rotations
          /\ \A x \in F : recovery'[x].st = "free" /\ recovery'[x].gen = gen + 1
          /\ \A x \in RecoveryCodes \ F : recovery'[x].gen = recovery[x].gen
          /\ \A x \in RecoveryCodes : recovery'[x].st = "used" => x \in U \/ recovery[x].st = "used"
          /\ \A x \in Rotations : rotation'[x].gen = rotation[x].gen
          /\ \A x \in Rotations : rotation'[x].st = "confirmed" => x \in R \/ rotation[x].st = "confirmed"
          /\ \A x \in U : recovery[x].gen = gen
          /\ \A x \in R : rotation[x].gen = gen
          /\ \A x, y \in U : x = y
          /\ \A x, y \in R : x = y
          /\ U = {} \/ R = {}
          /\ F = {} \/ (U = {} /\ R = {} /\ Cardinality(F) = SetSize)
      BY <1>3, <2>1, <2>3, <3>1
    <3>3. gen' = gen + 1
      BY <1>3
    <3> HIDE DEF F, U, R
    <3> QED BY <2>2, <2>3, <3>2, <3>3, GenerationEnds
  <2>5. /\ call' = [d \in Calls |-> call'[d]] /\ call'[c] = Idle
        /\ \A d \in Calls \ {c} : call'[d] = call[d]
        /\ \A d \in Calls : call'[d] \in CallRow(call'[d].arg) /\ ArgFits(call'[d])
    BY <1>0, <1>1, IdleRow, CallMoves DEF Close
  <2>6. KeysTyped'
    BY <1>0, <1>1, <1>3, <2>2, <2>3, <2>5 DEF KeysTyped, CallRow
  <2>7. SecretsErased'
    BY <2>1, <2>3 DEF SecretsErased
  <2>8. CountsFresh'
    <3>1. \A x \in Rotations : rotation'[x].today => rotation'[x].st = "confirmed"
      BY <2>3 DEF KeysInv, CountsFresh
    <3> QED BY <1>3, <2>3, <2>5, <3>1, IdleRow, CountsEnd
  <2>9. RotationsWithinDay'
    <3>1. {x \in Rotations : rotation'[x].today} = {x \in Rotations : rotation[x].today}
      BY <2>3
    <3> QED BY <3>1 DEF KeysInv, RotationsWithinDay
  <2>10. OneAtATime'
    BY <1>1, <2>5, IdleRow, SerialKept
  <2> QED BY <2>4, <2>6, <2>7, <2>8, <2>9, <2>10 DEF KeysInv
<1> QED BY <1>2, <1>3 DEF generateRecoveryCodes, Advance, FreshCode

\* The key changes: the grants that the snapshot showed end.
LEMMA KeyChangeSerial ==
  ASSUME KeysInv, NEW c \in Calls, call[c].pc = "open", call'[c].pc # "open",
         \A d \in Calls \ {c} : call'[d] = call[d], grant' = RevokeGrants(c)
  PROVE  OneAtATime'
<1> SUFFICES ASSUME Serial
             PROVE  /\ \A d \in Calls : call'[d].pc # "open"
                    /\ \A r \in Requests : grant'[r].st \notin {"code", "family"}
  BY DEF OneAtATime, SeesNow, NoGrantOfOldKey
<1>1. \A d \in Calls : call'[d].pc # "open"
  BY NoneLeftOpen
<1>2. /\ call[c].codes = {r \in Requests : grant[r].st = "code"}
      /\ call[c].fams = {r \in Requests : grant[r].st = "family"}
  BY DEF KeysInv, OneAtATime, SeesNow
<1>3. ASSUME NEW r \in Requests PROVE grant'[r].st \notin {"code", "family"}
  <2>1. grant[r] \in GrantRow
    BY RowTypes DEF KeysInv
  <2>2. CASE grant[r].st = "family"
    <3>1. grant'[r] = [grant[r] EXCEPT !.st = "revoked"]
      BY <1>2, <2>2 DEF RevokeGrants
    <3> QED BY <2>1, <3>1 DEF GrantRow
  <2>3. CASE grant[r].st = "code"
    <3>1. grant'[r] = [grant[r] EXCEPT !.st = "void"]
      BY <1>2, <2>3 DEF RevokeGrants
    <3> QED BY <2>1, <3>1 DEF GrantRow
  <2>4. CASE grant[r].st \notin {"code", "family"}
    <3>1. grant'[r] = grant[r]
      BY <2>4 DEF RevokeGrants
    <3> QED BY <2>4, <3>1
  <2> QED BY <2>2, <2>3, <2>4
<1> QED BY <1>1, <1>3

LEMMA RecoverKeeps ==
  ASSUME KeysAssumption, KeysInv, NEW c \in Calls, confirmRootRecovery(c)
  PROVE  KeysInv'
<1> DEFINE x == call[c].arg
           row == FreshCode("used", recovery[x].gen)
<1>0. /\ KeysTyped /\ gen \in Nat /\ recovery \in [RecoveryCodes -> CodeRow]
      /\ rotation \in [Rotations -> RotationRow] /\ pairing \in [Pairings -> PairingRow]
      /\ x \in RecoveryCodes /\ call[c].pc = "open"
  BY DEF KeysInv, KeysTyped, confirmRootRecovery, Opened, ArgFits
<1>1. UNCHANGED <<nextKey, pairing>> /\ nextKey' \in 1 .. MaxKeys + 1
  BY <1>0 DEF confirmRootRecovery, KeysTyped
<1>2. CASE Close(c) /\ UNCHANGED <<key, gen, recovery, rotation, grant>>
  <2>1. SameGeneration /\ SecretsErased' /\ \A y \in Rotations : rotation'[y].today = rotation[y].today
    BY <1>2 DEF SameGeneration, KeysInv, SecretsErased
  <2> QED BY <1>0, <1>1, <1>2, <2>1, QuietKeeps
<1>3. CASE /\ Recoverable(x) /\ key' = recovery[x].repl /\ gen' = gen + 1
           /\ recovery' = [InvalidCodes(c) EXCEPT ![x] = row]
           /\ rotation' = DeadRotations(c) /\ grant' = RevokeGrants(c)
           /\ call' = [call EXCEPT ![c] = ClearCall]
  <2>0. recovery[x].gen = gen /\ recovery[x].st = "staged" /\ recovery[x].repl \in Keys
    BY <1>0, <1>3 DEF Recoverable, CodeRow
  <2>1. row \in CodeRow /\ row.st = "used" /\ row.gen = recovery[x].gen /\ row.repl = 0
    BY <1>0, <2>0, FreshCodeRow
  <2> HIDE DEF row
  <2>2. /\ recovery' \in [RecoveryCodes -> CodeRow] /\ recovery'[x] = row
        /\ \A y \in RecoveryCodes \ {x} : recovery'[y] = InvalidCodes(c)[y]
    BY <1>0, <1>3, <2>1, InvalidRows
  <2>3. ASSUME NEW y \in RecoveryCodes
        PROVE  /\ recovery'[y].gen = recovery[y].gen
               /\ recovery'[y].st = "used" => y \in {x} \/ recovery[y].st = "used"
               /\ recovery'[y].st # "staged" => recovery'[y].repl = 0
    BY <2>1, <2>2, InvalidRows
  <2>4. /\ rotation' \in [Rotations -> RotationRow]
        /\ \A y \in Rotations : /\ rotation'[y].gen = rotation[y].gen
                                /\ rotation'[y].st = "confirmed" <=> rotation[y].st = "confirmed"
                                /\ rotation'[y].today = rotation[y].today
                                /\ rotation'[y].st # "staged" => rotation'[y].repl = 0
                                /\ rotation[y].st # "absent" => rotation'[y].st # "absent"
    BY <1>3, InvalidRows
  <2>5. Generations' /\ OneChangePerGeneration' /\ OneCurrentSet'
    <3> DEFINE F == {}
               U == {x}
               R == {}
    <3>2. /\ F \in SUBSET RecoveryCodes /\ U \in SUBSET RecoveryCodes /\ R \in SUBSET Rotations
          /\ \A y \in F : recovery'[y].st = "free" /\ recovery'[y].gen = gen + 1
          /\ \A y \in RecoveryCodes \ F : recovery'[y].gen = recovery[y].gen
          /\ \A y \in RecoveryCodes : recovery'[y].st = "used" => y \in U \/ recovery[y].st = "used"
          /\ \A y \in Rotations : rotation'[y].gen = rotation[y].gen
          /\ \A y \in Rotations : rotation'[y].st = "confirmed" => y \in R \/ rotation[y].st = "confirmed"
          /\ \A y \in U : recovery[y].gen = gen
          /\ \A y \in R : rotation[y].gen = gen
          /\ \A y, z \in U : y = z
          /\ \A y, z \in R : y = z
          /\ U = {} \/ R = {}
          /\ F = {} \/ (U = {} /\ R = {} /\ Cardinality(F) = SetSize)
      BY <1>0, <2>0, <2>3, <2>4
    <3>3. gen' = gen + 1
      BY <1>3
    <3> HIDE DEF F, U, R
    <3> QED BY <2>2, <2>4, <3>2, <3>3, GenerationEnds
  <2>6. /\ call' = [d \in Calls |-> call'[d]] /\ call'[c].pc = "clear"
        /\ \A d \in Calls \ {c} : call'[d] = call[d]
        /\ \A d \in Calls : call'[d] \in CallRow(call'[d].arg) /\ ArgFits(call'[d])
    BY <1>0, <1>3, IdleRow, CallMoves
  <2>7. KeysTyped'
    <3>1. grant' \in [Requests -> GrantRow]
      BY <1>3, InvalidRows
    <3> QED BY <1>0, <1>1, <1>3, <2>0, <2>2, <2>4, <2>6, <3>1 DEF KeysTyped, CallRow
  <2>8. SecretsErased'
    BY <2>3, <2>4 DEF SecretsErased
  <2>9. CountsFresh'
    <3>1. \A y \in Rotations : rotation'[y].today => rotation'[y].st = "confirmed"
      BY <2>4 DEF KeysInv, CountsFresh
    <3> QED BY <1>3, <2>4, <2>6, <3>1, CountsEnd
  <2>10. RotationsWithinDay'
    <3>1. {y \in Rotations : rotation'[y].today} = {y \in Rotations : rotation[y].today}
      BY <2>4
    <3> QED BY <3>1 DEF KeysInv, RotationsWithinDay
  <2>11. OneAtATime'
    BY <1>0, <1>3, <2>6, KeyChangeSerial
  <2> QED BY <2>5, <2>7, <2>8, <2>9, <2>10, <2>11 DEF KeysInv
<1> QED BY <1>2, <1>3 DEF confirmRootRecovery, Advance, FreshCode, ClearCall

LEMMA RotateKeeps ==
  ASSUME KeysAssumption, KeysInv, NEW c \in Calls, confirmRootRotation(c)
  PROVE  KeysInv'
<1> DEFINE x == call[c].arg
           row == DoneRotation(rotation[x].gen)
<1>0. /\ KeysTyped /\ gen \in Nat /\ recovery \in [RecoveryCodes -> CodeRow]
      /\ rotation \in [Rotations -> RotationRow] /\ pairing \in [Pairings -> PairingRow]
      /\ x \in Rotations /\ call[c].pc = "open" /\ call[c].kind = "rotate"
  BY DEF KeysInv, KeysTyped, confirmRootRotation, Opened, ArgFits
<1>1. UNCHANGED <<nextKey, pairing>> /\ nextKey' \in 1 .. MaxKeys + 1
  BY <1>0 DEF confirmRootRotation, KeysTyped
<1>2. CASE /\ \/ rotation' = ClearedRotations
              \/ LiveRotation(x) /\ rotation' = [ClearedRotations EXCEPT ![x] = DeadRotation(x)]
           /\ Close(c) /\ UNCHANGED <<key, gen, recovery, grant>>
  <2>1. rotation' = [y \in Rotations |-> rotation'[y]] /\ \A y \in Rotations : StageMoves(y)
    BY <1>0, <1>2 DEF ClearedRotations, LiveRotation, StageMoves
  <2> QED BY <1>1, <1>2, <2>1, StagesMove
<1>3. CASE /\ Rotatable(x) /\ UnderDailyLimit(c) /\ key' = rotation[x].repl /\ gen' = gen + 1
           /\ rotation' = [DeadRotations(c) EXCEPT ![x] = row]
           /\ recovery' = InvalidCodes(c) /\ grant' = RevokeGrants(c)
           /\ call' = [call EXCEPT ![c] = ClearCall]
  <2>0. /\ rotation[x].gen = gen /\ rotation[x].st = "staged" /\ rotation[x].repl \in Keys
        /\ call[c].done = Cardinality(Today) /\ Cardinality(Today) < DailyMax /\ x \notin Today
    BY <1>0, <1>3 DEF Rotatable, LiveRotation, RotationRow, KeysInv, CountsFresh, CountIsFresh,
                      UnderDailyLimit, Today
  <2>1. row \in RotationRow /\ row.st = "confirmed" /\ row.gen = rotation[x].gen /\ row.repl = 0
        /\ row.today = TRUE
    BY <1>0, <2>0, DoneRotationRow
  <2> HIDE DEF row
  <2>2. /\ rotation' \in [Rotations -> RotationRow] /\ rotation'[x] = row
        /\ \A y \in Rotations \ {x} : rotation'[y] = DeadRotations(c)[y]
    BY <1>0, <1>3, <2>1, InvalidRows
  <2>3. ASSUME NEW y \in Rotations
        PROVE  /\ rotation'[y].gen = rotation[y].gen
               /\ rotation'[y].st = "confirmed" => y \in {x} \/ rotation[y].st = "confirmed"
               /\ rotation'[y].st # "staged" => rotation'[y].repl = 0
               /\ rotation[y].st # "absent" => rotation'[y].st # "absent"
               /\ rotation'[y].today => rotation'[y].st = "confirmed"
               /\ rotation'[y].today <=> (y = x \/ rotation[y].today)
    <3>1. CASE y = x
      BY <2>1, <2>2, <3>1
    <3>2. CASE y # x
      <4>1. rotation'[y] = DeadRotations(c)[y]
        BY <2>2, <3>2
      <4> QED BY <3>2, <4>1, InvalidRows DEF KeysInv, CountsFresh
    <3> QED BY <3>1, <3>2
  <2>4. /\ recovery' \in [RecoveryCodes -> CodeRow]
        /\ \A y \in RecoveryCodes : /\ recovery'[y].gen = recovery[y].gen
                                    /\ recovery'[y].st = "used" => recovery[y].st = "used"
                                    /\ recovery'[y].st # "staged" => recovery'[y].repl = 0
    BY <1>3, InvalidRows
  <2>5. Generations' /\ OneChangePerGeneration' /\ OneCurrentSet'
    <3> DEFINE F == {}
               U == {}
               R == {x}
    <3>2. /\ F \in SUBSET RecoveryCodes /\ U \in SUBSET RecoveryCodes /\ R \in SUBSET Rotations
          /\ \A y \in F : recovery'[y].st = "free" /\ recovery'[y].gen = gen + 1
          /\ \A y \in RecoveryCodes \ F : recovery'[y].gen = recovery[y].gen
          /\ \A y \in RecoveryCodes : recovery'[y].st = "used" => y \in U \/ recovery[y].st = "used"
          /\ \A y \in Rotations : rotation'[y].gen = rotation[y].gen
          /\ \A y \in Rotations : rotation'[y].st = "confirmed" => y \in R \/ rotation[y].st = "confirmed"
          /\ \A y \in U : recovery[y].gen = gen
          /\ \A y \in R : rotation[y].gen = gen
          /\ \A y, z \in U : y = z
          /\ \A y, z \in R : y = z
          /\ U = {} \/ R = {}
          /\ F = {} \/ (U = {} /\ R = {} /\ Cardinality(F) = SetSize)
      BY <1>0, <2>0, <2>3, <2>4
    <3>3. gen' = gen + 1
      BY <1>3
    <3> HIDE DEF F, U, R
    <3> QED BY <2>2, <2>4, <3>2, <3>3, GenerationEnds
  <2>6. /\ call' = [d \in Calls |-> call'[d]] /\ call'[c].pc = "clear"
        /\ \A d \in Calls \ {c} : call'[d] = call[d]
        /\ \A d \in Calls : call'[d] \in CallRow(call'[d].arg) /\ ArgFits(call'[d])
    BY <1>0, <1>3, IdleRow, CallMoves
  <2>7. KeysTyped'
    <3>1. grant' \in [Requests -> GrantRow]
      BY <1>3, InvalidRows
    <3> QED BY <1>0, <1>1, <1>3, <2>0, <2>2, <2>4, <2>6, <3>1 DEF KeysTyped, CallRow
  <2>8. SecretsErased'
    BY <2>3, <2>4 DEF SecretsErased
  <2>9. CountsFresh'
    BY <1>3, <2>3, <2>6, CountsEnd
  <2>10. RotationsWithinDay'
    <3>1. {y \in Rotations : rotation'[y].today} = Today \cup {x}
      BY <1>0, <2>3 DEF Today
    <3>2. Cardinality(Today \cup {x}) = Cardinality(Today) + 1
      BY <2>0, TodayFinite, FS_AddElement
    <3>3. Cardinality(Today) \in Nat /\ DailyMax \in Nat
      BY TodayFinite DEF KeysAssumption
    <3>4. Cardinality(Today \cup {x}) <= DailyMax
      BY <2>0, <3>2, <3>3
    <3> QED BY <3>1, <3>4 DEF RotationsWithinDay
  <2>11. OneAtATime'
    BY <1>0, <1>3, <2>6, KeyChangeSerial
  <2> QED BY <2>5, <2>7, <2>8, <2>9, <2>10, <2>11 DEF KeysInv
<1> QED BY <1>2, <1>3 DEF confirmRootRotation, Advance, DoneRotation, ClearCall, Rotatable

-----------------------------------------------------------------------------
(* The theorems                                                            *)

LEMMA KeysStep == KeysAssumption /\ KeysInv /\ [Next]_vars => KeysInv'
<1> SUFFICES ASSUME KeysAssumption, KeysInv, [Next]_vars PROVE KeysInv'
  OBVIOUS
<1>1. CASE UNCHANGED vars
  <2>1. /\ SameGeneration /\ SecretsErased' /\ \A x \in Rotations : rotation'[x].today = rotation[x].today
        /\ UNCHANGED <<key, grant>> /\ call' = call
    BY <1>1 DEF vars, SameGeneration, KeysInv, SecretsErased
  <2>2. /\ nextKey' \in 1 .. MaxKeys + 1 /\ recovery' \in [RecoveryCodes -> CodeRow]
        /\ rotation' \in [Rotations -> RotationRow] /\ pairing' \in [Pairings -> PairingRow]
    BY <1>1 DEF vars, KeysInv, KeysTyped
  <2> QED BY <2>1, <2>2, QuietKeeps
<1>2. ASSUME NEW c \in Calls, OpenStep(c) \/ CommitStep(c) \/ Crash(c) PROVE KeysInv'
  BY <1>2, OpenStepKeeps, GenerateKeeps, RecoverKeeps, RotateKeeps, PairingKeeps, ApproveKeeps
     DEF CommitStep
<1>3. CASE Alone /\ Statement
  BY <1>3, RecoverySteps, RotationSteps, SignInSteps DEF Statement
<1>4. CASE RowExpires
  BY <1>4, RecoverySteps, RotationSteps, ExpiredPairingKeeps DEF RowExpires
<1>5. CASE NextDay
  BY <1>5, NextDayKeeps
<1> QED BY <1>1, <1>2, <1>3, <1>4, <1>5 DEF Next

LEMMA KeysSafety ==
  KeysInv => TypeOK /\ KeyChangeIsOne /\ (Serial => NoGrantOfOldKey)
<1> SUFFICES ASSUME KeysInv PROVE TypeOK /\ KeyChangeIsOne /\ (Serial => NoGrantOfOldKey)
  OBVIOUS
<1>1. ASSUME NEW c \in Calls
      PROVE  /\ call[c] \in CallRow(call[c].arg)
             /\ call[c].arg \in IF call[c].kind = "redeem" THEN Requests \X Pairings ELSE Args
  <2>1. call[c] \in CallRow(call[c].arg) /\ ArgFits(call[c]) /\ call[c].kind \in Kinds
    BY RowTypes DEF KeysInv, CallRow
  <2> QED BY <2>1 DEF ArgFits, Kinds, Args
<1>2. TypeOK
  BY <1>1 DEF KeysInv, KeysTyped, SecretsErased, TypeOK, CallRow, CodeRow, RotationRow, PairingRow, GrantRow
<1> QED BY <1>2 DEF KeysInv, KeyChangeIsOne, OneAtATime

\* Whatever statements overlap, each generation of a resident's recovery codes ends by
\* one key change or one new code set, the current set is complete or absent, the day's
\* limit of rotations holds although its count is a snapshot's; and when statements do
\* not overlap, what works was granted under the current key (confirmRootRecovery,
\* confirmRootRotation, generateRecoveryCodes, approveExistingResidentAndIssueAuthorizationCode).
THEOREM KeysCorrect ==
  ASSUME KeysAssumption
  PROVE  Spec => [](TypeOK /\ KeyChangeIsOne /\ (Serial => NoGrantOfOldKey))
<1>1. Init => KeysInv
  BY KeysInit
<1>2. KeysInv /\ [Next]_vars => KeysInv'
  BY KeysStep
<1>3. KeysInv => TypeOK /\ KeyChangeIsOne /\ (Serial => NoGrantOfOldKey)
  BY KeysSafety
<1> QED BY <1>1, <1>2, <1>3, PTL DEF Spec
=============================================================================
