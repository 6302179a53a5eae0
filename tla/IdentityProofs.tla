----------------------------- MODULE IdentityProofs -----------------------------
(***************************************************************************)
(* Proofs about the identity components of MCIdentity.                     *)
(***************************************************************************)
EXTENDS MCIdentity, Sequences, FiniteSetTheorems, TLAPS

-----------------------------------------------------------------------------
(* OAuthTokens: the inductive invariant                                    *)

\* Rows are issued in the order of their numbers, each for a code that was exchanged,
\* and a client knows only issued ones.
RowsInOrder ==
  /\ \A p \in Pairs : p >= nextPair => pair[p] = NoPair
  /\ \A p \in Pairs : p < nextPair => /\ pair[p].st # "free" /\ pair[p].fam \in Codes
                                      /\ code[pair[p].fam] = "used"
  /\ \A p \in known : p < nextPair

\* Of one family one row is not used yet, whether pruned or not.
OneUnused ==
  \A p, q \in Pairs :
    /\ p < nextPair /\ q < nextPair /\ pair[p].fam = pair[q].fam
    /\ ~pair[p].used /\ ~pair[q].used
    => p = q

\* A row was rotated from an older row of its family.
LinksGoBack ==
  \A p \in Pairs : pair[p].from # 0 =>
    pair[p].from < p /\ pair[pair[p].from].fam = pair[p].fam

\* Only what is past its retention window is pruned.
PrunedIsRetired == \A p \in Pairs : pair[p].st = "pruned" => age[pair[p].fam] = "retired"

\* Where a request is, and what it remembers of the row it presented.
CallFollows(c) ==
  /\ call[c].pc = "idle" => call[c].kind = "none"
  /\ call[c].pc = "exchange" => call[c].code \in Codes /\ call[c].kind = "code"
  /\ call[c].pc \in {"throttle", "rotate", "rotating", "reuse"} => call[c].kind = "refresh"
  /\ call[c].pc = "end" => call[c].kind = "revoke"
  /\ call[c].pc = "revoking" => /\ call[c].kind \in {"refresh", "revoke"}
                                /\ call[c].saw \subseteq 1 .. nextPair - 1
  /\ call[c].pc \notin {"answer", "done"} => call[c].result = "none"
  /\ call[c].pc = "revoking" /\ call[c].kind = "refresh" => pair[call[c].arg].used
  /\ call[c].pc = "answer" => /\ call[c].kind \in {"code", "refresh"}
                              /\ call[c].kind = "code" => call[c].arg \in 1 .. nextPair - 1
                              /\ call[c].kind = "refresh" => call[c].saw \subseteq 1 .. nextPair - 1
  /\ call[c].kind \in {"refresh", "revoke"} =>
       /\ call[c].arg \in Pairs /\ call[c].arg < nextPair
       /\ call[c].fam = pair[call[c].arg].fam
  /\ call[c].subject # "none" => call[c].kind = "refresh"
  /\ call[c].result \in {"reused", "revoked"} => call[c].fam \in revoked

\* A request that saw a replay goes on to the revocation.
ReplayGoesOn(c) ==
  call[c].subject = "reused" =>
    /\ pair[call[c].arg].used
    /\ call[c].pc \in {"throttle", "rotate", "rotating", "reuse", "revoking", "done"}
    /\ call[c].pc = "done" =>
         \/ call[c].result \in {"unavailable", "overlapping"}
         \/ call[c].fam \in revoked
         \/ age[call[c].fam] = "retired"

\* A used row was rotated by a request that presented it.
UsedByRequest ==
  \A p \in Pairs : pair[p].used =>
    \E c \in Calls : call[c].kind = "refresh" /\ call[c].arg = p /\ call[c].result = "rotated"

RowInv == RowsInOrder /\ OneUnused /\ LinksGoBack /\ NoDanglingRotation /\ PrunedIsRetired

TokenInv ==
  /\ TypeOK /\ RowInv
  /\ \A c \in Calls : CallFollows(c) /\ ReplayGoesOn(c)
  /\ UsedByRequest /\ OnlyReuseRevokes

-----------------------------------------------------------------------------
(* OAuthTokens: the steps                                                  *)

LEMMA TokenInit == Init => TokenInv
  BY OAuthAssumption
  DEF Init, TokenInv, TypeOK, RowInv, RowsInOrder, OneUnused, LinksGoBack, NoDanglingRotation,
      PrunedIsRetired, CallFollows, ReplayGoesOn, UsedByRequest, OnlyReuseRevokes, Pairs, Ages,
      Subjects, Results, PCs, NoPair, NoCall, Issued

\* Steps that touch no row of the token tables.
LEMMA RowsUntouched ==
  ASSUME TokenInv, UNCHANGED <<code, pair, nextPair, age, known>>
  PROVE  RowInv'
  BY DEF TokenInv, RowInv, RowsInOrder, OneUnused, LinksGoBack, NoDanglingRotation,
         PrunedIsRetired, Issued, NoPair, Pairs

\* A newer retired row is pruned with an older one: the batch begins at the newest.
LEMMA NewestFirst ==
  ASSUME TokenInv, NEW p \in Retired, NEW q \in Retired, p < q, InBatch(p)
  PROVE  InBatch(q)
<1> DEFINE Newer(x) == {r \in Retired : r > x}
<1>1. IsFiniteSet(Newer(p))
  <2>1. IsFiniteSet(1 .. MaxPairs)
    BY FS_Interval, OAuthAssumption
  <2>2. Newer(p) \subseteq 1 .. MaxPairs
    BY DEF Retired, Pairs
  <2> QED BY <2>1, <2>2, FS_Subset
<1>2. Newer(q) \subseteq Newer(p)
  BY OAuthAssumption DEF Retired, Pairs
<1>3. Cardinality(Newer(q)) <= Cardinality(Newer(p)) /\ IsFiniteSet(Newer(q))
  BY <1>1, <1>2, FS_Subset
<1>4. Cardinality(Newer(q)) \in Nat /\ Cardinality(Newer(p)) \in Nat
  BY <1>1, <1>3, FS_CardinalityType
<1> QED BY <1>3, <1>4, OAuthAssumption DEF InBatch

\* Pruning changes the state of rows and nothing else about them.
LEMMA PruneChanges ==
  ASSUME TokenInv, Prune
  PROVE  /\ \A p \in Pairs : /\ pair'[p].fam = pair[p].fam /\ pair'[p].from = pair[p].from
                             /\ pair'[p].used = pair[p].used /\ pair'[p].rev = pair[p].rev
                             /\ pair'[p].st = IF p \in Retired /\ InBatch(p) THEN "pruned"
                                              ELSE pair[p].st
         /\ pair' \in [Pairs -> [st : {"free", "issued", "pruned"}, fam : Codes \cup {None},
                                 from : 0 .. MaxPairs, used : BOOLEAN, rev : BOOLEAN]]
  BY DEF TokenInv, TypeOK, Prune

LEMMA PruneKeepsRows ==
  ASSUME TokenInv, Prune, UNCHANGED <<code, nextPair, age, known>>
  PROVE  RowInv'
<1>1. RowsInOrder'
  <2>1. \A p \in Pairs : p >= nextPair => pair'[p] = pair[p]
    BY DEF TokenInv, RowInv, RowsInOrder, Prune, Retired, Issued, NoPair
  <2> QED BY <2>1, PruneChanges DEF TokenInv, RowInv, RowsInOrder, NoPair
<1>2. OneUnused'
  BY PruneChanges DEF TokenInv, RowInv, OneUnused
<1>3. LinksGoBack'
  <2> SUFFICES ASSUME NEW p \in Pairs, pair[p].from # 0
               PROVE  pair'[p].from < p /\ pair'[pair'[p].from].fam = pair'[p].fam
    BY PruneChanges DEF LinksGoBack
  <2>1. pair[p].from \in Pairs /\ pair[p].from < p /\ pair[pair[p].from].fam = pair[p].fam
    BY OAuthAssumption DEF TokenInv, TypeOK, RowInv, LinksGoBack, Pairs
  <2> QED BY <2>1, PruneChanges
<1>4. NoDanglingRotation'
  <2> SUFFICES ASSUME NEW p \in Pairs, Issued(p)', pair'[p].from # 0
               PROVE  Issued(pair[p].from)'
    BY DEF NoDanglingRotation
  <2> DEFINE f == pair[p].from
  <2>1. f \in Pairs /\ f < p /\ pair[f].fam = pair[p].fam /\ pair'[p].from = f
    BY PruneChanges, OAuthAssumption DEF TokenInv, TypeOK, RowInv, LinksGoBack, Pairs
  <2>2. Issued(p) /\ Issued(f)
    BY <2>1, PruneChanges DEF Issued, TokenInv, RowInv, NoDanglingRotation
  <2>3. ~(p \in Retired /\ InBatch(p))
    BY PruneChanges DEF Issued
  <2>4. ~(f \in Retired /\ InBatch(f))
    BY <2>1, <2>2, <2>3, NewestFirst DEF Retired
  <2> QED BY <2>1, <2>2, <2>4, PruneChanges DEF Issued
<1>5. PrunedIsRetired'
  BY PruneChanges DEF TokenInv, RowInv, PrunedIsRetired, Retired
<1> QED BY <1>1, <1>2, <1>3, <1>4, <1>5 DEF RowInv

CallRecord ==
  [pc : PCs, kind : {"none", "code", "refresh", "revoke"}, arg : 0 .. MaxPairs,
   code : Codes \cup {None}, fam : Codes \cup {None}, subject : Subjects,
   sawLive : BOOLEAN, saw : SUBSET Pairs, result : Results]

\* What every step leaves: rows keep their family and stay used, revoked families and
\* ended ones stay so.
Onward ==
  /\ \A p \in Pairs : p < nextPair =>
       pair'[p].fam = pair[p].fam /\ (pair[p].used => pair'[p].used)
  /\ nextPair' >= nextPair /\ revoked \subseteq revoked'
  /\ \A k \in Codes : age[k] = "retired" => age'[k] = "retired"

\* What a request was about is not forgotten, nor that it rotated a row.
Remembers ==
  \A d \in Calls : call[d].kind \in {"refresh", "revoke"} =>
    /\ call'[d].kind = call[d].kind /\ call'[d].arg = call[d].arg /\ call'[d].fam = call[d].fam
    /\ call[d].result = "rotated" => call'[d].result = "rotated"

LEMMA CallTyped ==
  ASSUME TokenInv
  PROVE  /\ call \in [Calls -> CallRecord]
         /\ nextPair \in 1 .. MaxPairs + 1 /\ known \subseteq Pairs
         /\ \A c \in Calls : CallFollows(c) /\ ReplayGoesOn(c)
         /\ \A c \in Calls : call[c].kind \in {"refresh", "revoke"} => call[c].fam \in Codes
  BY DEF TokenInv, TypeOK, CallRecord, CallFollows, RowInv, RowsInOrder

LEMMA KnownRow ==
  ASSUME TokenInv, NEW p \in known
  PROVE  p \in 0 .. MaxPairs /\ p \in Pairs /\ p < nextPair /\ pair[p].fam \in Codes
  BY OAuthAssumption DEF TokenInv, TypeOK, RowInv, RowsInOrder, Pairs

LEMMA RowsOfFamily ==
  ASSUME TokenInv
  PROVE  \A f : PairsOf(f) \subseteq 1 .. nextPair - 1
  BY OAuthAssumption DEF TokenInv, TypeOK, RowInv, RowsInOrder, PairsOf, Issued, NoPair, Pairs

LEMMA CallStays ==
  ASSUME TokenInv, TypeOK', Onward, NEW d \in Calls, call'[d] = call[d]
  PROVE  CallFollows(d)' /\ ReplayGoesOn(d)'
<1>1. nextPair \in Nat /\ nextPair' \in Nat /\ call[d].arg \in Nat
  BY OAuthAssumption DEF TokenInv, TypeOK
<1>2. CallFollows(d) /\ ReplayGoesOn(d)
  BY DEF TokenInv
<1>3. call[d].fam \in Codes \/ call[d].kind \notin {"refresh", "revoke"}
  BY <1>2 DEF TokenInv, RowInv, RowsInOrder, CallFollows
<1>4. CallFollows(d)'
  BY <1>1, <1>2 DEF CallFollows, Onward
<1>5. ReplayGoesOn(d)'
  BY <1>1, <1>2, <1>3 DEF CallFollows, ReplayGoesOn, Onward
<1> QED BY <1>4, <1>5

\* A step of one request that neither uses a row nor revokes a family.
LEMMA CallMoves ==
  ASSUME TokenInv, TypeOK', RowInv', Onward, Remembers, NEW c \in Calls,
         \A d \in Calls \ {c} : call'[d] = call[d],
         CallFollows(c)', ReplayGoesOn(c)',
         \A p \in Pairs : pair'[p].used => pair[p].used, revoked' = revoked
  PROVE  TokenInv'
<1>1. \A d \in Calls : CallFollows(d)' /\ ReplayGoesOn(d)'
  BY CallStays
<1>2. UsedByRequest'
  BY DEF TokenInv, UsedByRequest, Remembers
<1>3. OnlyReuseRevokes'
  BY DEF TokenInv, OnlyReuseRevokes, Remembers
<1> QED BY <1>1, <1>2, <1>3 DEF TokenInv

LEMMA RefreshStartKeeps ==
  ASSUME TokenInv, NEW c \in Calls, NEW p \in Pairs, RefreshStart(c, p)
  PROVE  TokenInv'
<1> USE CallTyped, OAuthAssumption
<1>1. PICK r \in CallRecord :
        /\ call[c].pc = "idle" /\ call' = [call EXCEPT ![c] = r]
        /\ r.pc = "throttle" /\ r.kind = "refresh" /\ r.arg = p /\ r.arg \in Pairs /\ r.arg < nextPair
        /\ r.fam = pair[p].fam /\ r.result = "none" /\ (r.subject = "reused" => pair[p].used)
  <2> DEFINE s == resolveRefreshRateLimitSubject(p)
  <2>1. s \in Subjects /\ (s = "reused" => pair[p].used)
    BY DEF resolveRefreshRateLimitSubject, Subjects
  <2>2. p \in 0 .. MaxPairs /\ p < nextPair /\ pair[p].fam \in Codes
    BY KnownRow DEF RefreshStart
  <2> DEFINE R == [NoCall EXCEPT !.pc = "throttle", !.kind = "refresh", !.arg = p,
                                !.fam = pair[p].fam, !.subject = s]
  <2>3. R \in CallRecord
    BY <2>1, <2>2 DEF NoCall, CallRecord, PCs, Results
  <2>4. /\ R.pc = "throttle" /\ R.kind = "refresh" /\ R.arg = p /\ R.fam = pair[p].fam
        /\ R.result = "none" /\ R.subject = s
    BY DEF NoCall
  <2>5. call' = [call EXCEPT ![c] = R] /\ call[c].pc = "idle"
    BY DEF RefreshStart
  <2> HIDE DEF R, s
  <2> QED BY <2>1, <2>2, <2>3, <2>4, <2>5
<1>2. TypeOK'
  <2>1. call' \in [Calls -> CallRecord]
    BY <1>1
  <2> QED BY <2>1 DEF TokenInv, TypeOK, CallRecord, RefreshStart
<1>3. RowInv'
  BY RowsUntouched DEF RefreshStart
<1>4. Onward
  BY DEF Onward, RefreshStart
<1>5. Remembers
  BY <1>1 DEF CallFollows, Remembers
<1>6. CallFollows(c)' /\ ReplayGoesOn(c)'
  BY <1>1 DEF CallFollows, ReplayGoesOn, RefreshStart
<1>7. (\A q \in Pairs : pair'[q].used => pair[q].used) /\ revoked' = revoked
  BY DEF RefreshStart
<1> QED BY <1>1, <1>2, <1>3, <1>4, <1>5, <1>6, <1>7, CallMoves

LEMMA ExchangeStartKeeps ==
  ASSUME TokenInv, NEW c \in Calls, NEW k \in Codes, ExchangeStart(c, k)
  PROVE  TokenInv'
<1> USE CallTyped, OAuthAssumption
<1>1. PICK r \in CallRecord :
        /\ call[c].pc = "idle" /\ call' = [call EXCEPT ![c] = r]
        /\ r.pc \in {"done", "exchange"} /\ r.kind = "code" /\ r.code = k
        /\ r.subject = "none" /\ r.result = IF r.pc = "done" THEN "invalid" ELSE "none"
  <2> DEFINE R == [NoCall EXCEPT !.pc = "done", !.kind = "code", !.code = k, !.result = "invalid"]
             S == [NoCall EXCEPT !.pc = "exchange", !.kind = "code", !.code = k]
  <2>0. 0 \in 0 .. MaxPairs
    OBVIOUS
  <2>1. /\ R \in CallRecord /\ R.pc = "done" /\ R.kind = "code" /\ R.code = k
        /\ R.subject = "none" /\ R.result = "invalid"
    BY <2>0 DEF NoCall, CallRecord, PCs, Results, Subjects
  <2>2. /\ S \in CallRecord /\ S.pc = "exchange" /\ S.kind = "code" /\ S.code = k
        /\ S.subject = "none" /\ S.result = "none"
    BY <2>0 DEF NoCall, CallRecord, PCs, Results, Subjects
  <2>3. /\ call[c].pc = "idle"
        /\ call' = [call EXCEPT ![c] = R] \/ call' = [call EXCEPT ![c] = S]
    BY DEF ExchangeStart
  <2> HIDE DEF R, S
  <2> QED BY <2>1, <2>2, <2>3
<1>2. TypeOK'
  <2>1. call' \in [Calls -> CallRecord]
    BY <1>1
  <2> QED BY <2>1, PruneChanges DEF TokenInv, TypeOK, CallRecord, ExchangeStart
<1>3. RowInv'
  BY PruneKeepsRows DEF ExchangeStart
<1>4. Onward
  BY PruneChanges DEF Onward, ExchangeStart
<1>5. Remembers
  BY <1>1 DEF CallFollows, Remembers
<1>6. CallFollows(c)' /\ ReplayGoesOn(c)'
  BY <1>1, PruneChanges DEF CallFollows, ReplayGoesOn, ExchangeStart
<1>7. (\A q \in Pairs : pair'[q].used => pair[q].used) /\ revoked' = revoked
  BY PruneChanges DEF ExchangeStart
<1> QED BY <1>1, <1>2, <1>3, <1>4, <1>5, <1>6, <1>7, CallMoves

LEMMA RevokeStartKeeps ==
  ASSUME TokenInv, NEW c \in Calls, NEW p \in Pairs, RevokeStart(c, p)
  PROVE  TokenInv'
<1> USE CallTyped, OAuthAssumption
<1>1. PICK r \in CallRecord :
        /\ call[c].pc = "idle" /\ call' = [call EXCEPT ![c] = r]
        /\ r.pc \in {"done", "end"} /\ r.kind = "revoke" /\ r.arg = p /\ r.arg \in Pairs
        /\ r.arg < nextPair /\ r.fam = pair[p].fam /\ r.subject = "none"
        /\ r.result = IF r.pc = "done" THEN "ignored" ELSE "none"
  <2>1. p \in 0 .. MaxPairs /\ p < nextPair /\ pair[p].fam \in Codes
    BY KnownRow DEF RevokeStart
  <2> DEFINE R(pc, result) == [NoCall EXCEPT !.kind = "revoke", !.arg = p, !.fam = pair[p].fam,
                                            !.pc = pc, !.result = result]
  <2>2. R("done", "ignored") \in CallRecord /\ R("end", "none") \in CallRecord
    BY <2>1 DEF NoCall, CallRecord, PCs, Results, Subjects
  <2>3. ASSUME NEW pc, NEW result
        PROVE  /\ R(pc, result).pc = pc /\ R(pc, result).kind = "revoke"
               /\ R(pc, result).arg = p /\ R(pc, result).fam = pair[p].fam
               /\ R(pc, result).subject = "none" /\ R(pc, result).result = result
    BY DEF NoCall
  <2>4. /\ call[c].pc = "idle"
        /\ \/ call' = [call EXCEPT ![c] = R("done", "ignored")]
           \/ call' = [call EXCEPT ![c] = R("end", "none")]
    BY DEF RevokeStart, NoCall
  <2> HIDE DEF R
  <2> QED BY <2>1, <2>2, <2>3, <2>4
<1>2. TypeOK'
  <2>1. call' \in [Calls -> CallRecord]
    BY <1>1
  <2> QED BY <2>1, PruneChanges DEF TokenInv, TypeOK, CallRecord, RevokeStart
<1>3. RowInv'
  BY PruneKeepsRows DEF RevokeStart
<1>4. Onward
  BY PruneChanges DEF Onward, RevokeStart
<1>5. Remembers
  BY <1>1 DEF CallFollows, Remembers
<1>6. CallFollows(c)' /\ ReplayGoesOn(c)'
  BY <1>1, PruneChanges DEF CallFollows, ReplayGoesOn, RevokeStart
<1>7. (\A q \in Pairs : pair'[q].used => pair[q].used) /\ revoked' = revoked
  BY PruneChanges DEF RevokeStart
<1> QED BY <1>1, <1>2, <1>3, <1>4, <1>5, <1>6, <1>7, CallMoves

LEMMA RotateOpenKeeps ==
  ASSUME TokenInv, NEW c \in Calls, RotateOpen(c)
  PROVE  TokenInv'
<1> USE CallTyped, OAuthAssumption
<1>1. TypeOK'
  <2>1. call' \in [Calls -> CallRecord]
    BY DEF CallRecord, PCs, Results, RotateOpen, Finish
  <2> QED BY <2>1 DEF TokenInv, TypeOK, CallRecord, RotateOpen
<1>2. RowInv'
  BY RowsUntouched DEF RotateOpen
<1>3. \A d \in Calls \ {c} : call'[d] = call[d]
  BY DEF RotateOpen, Finish
<1>4. Onward
  BY DEF Onward, RotateOpen
<1>5. Remembers
  BY <1>3 DEF CallRecord, CallFollows, Remembers, RotateOpen, Finish
<1>6. CallFollows(c)'
  BY DEF CallRecord, CallFollows, Pairs, RotateOpen, Finish
<1>7. ReplayGoesOn(c)'
  BY DEF CallRecord, CallFollows, ReplayGoesOn, RotateOpen, Finish
<1>8. (\A p \in Pairs : pair'[p].used => pair[p].used) /\ revoked' = revoked
  BY DEF RotateOpen
<1> QED BY <1>1, <1>2, <1>3, <1>4, <1>5, <1>6, <1>7, <1>8, CallMoves

LEMMA ReuseOpenKeeps ==
  ASSUME TokenInv, NEW c \in Calls, ReuseOpen(c)
  PROVE  TokenInv'
<1> USE CallTyped, OAuthAssumption
<1>1. TypeOK'
  <2>1. call' \in [Calls -> CallRecord]
    BY DEF CallRecord, PCs, Results, ReuseOpen, Reused, Finish, PairsOf
  <2> QED BY <2>1 DEF TokenInv, TypeOK, CallRecord, ReuseOpen
<1>2. RowInv'
  BY RowsUntouched DEF ReuseOpen
<1>3. \A d \in Calls \ {c} : call'[d] = call[d]
  BY DEF ReuseOpen, Reused, Finish, PairsOf
<1>4. Onward
  BY DEF Onward, ReuseOpen
<1>5. Remembers
  BY <1>3 DEF CallRecord, CallFollows, Remembers, ReuseOpen, Reused, Finish, PairsOf
<1>6. CallFollows(c)'
  BY RowsOfFamily DEF CallRecord, CallFollows, Reused, ReuseOpen, Finish
<1>7. ReplayGoesOn(c)'
  BY DEF CallRecord, CallFollows, ReplayGoesOn, ReuseOpen, Reused, Finish, PairsOf
<1>8. (\A p \in Pairs : pair'[p].used => pair[p].used) /\ revoked' = revoked
  BY DEF ReuseOpen
<1> QED BY <1>1, <1>2, <1>3, <1>4, <1>5, <1>6, <1>7, <1>8, CallMoves

LEMMA RevokeOpenKeeps ==
  ASSUME TokenInv, NEW c \in Calls, RevokeOpen(c)
  PROVE  TokenInv'
<1> USE CallTyped, OAuthAssumption
<1>1. TypeOK'
  <2>1. call' \in [Calls -> CallRecord]
    BY DEF CallRecord, PCs, Results, RevokeOpen, Finish, PairsOf
  <2> QED BY <2>1 DEF TokenInv, TypeOK, CallRecord, RevokeOpen
<1>2. RowInv'
  BY RowsUntouched DEF RevokeOpen
<1>3. \A d \in Calls \ {c} : call'[d] = call[d]
  BY DEF RevokeOpen, Finish, PairsOf
<1>4. Onward
  BY DEF Onward, RevokeOpen
<1>5. Remembers
  BY <1>3 DEF CallRecord, CallFollows, Remembers, RevokeOpen, Finish, PairsOf
<1>6. CallFollows(c)'
  BY RowsOfFamily DEF CallRecord, CallFollows, RevokeOpen, Finish
<1>7. ReplayGoesOn(c)'
  BY DEF CallRecord, CallFollows, ReplayGoesOn, RevokeOpen, Finish, PairsOf
<1>8. (\A p \in Pairs : pair'[p].used => pair[p].used) /\ revoked' = revoked
  BY DEF RevokeOpen
<1> QED BY <1>1, <1>2, <1>3, <1>4, <1>5, <1>6, <1>7, <1>8, CallMoves

LEMMA StatementFailsKeeps ==
  ASSUME TokenInv, NEW c \in Calls, StatementFails(c)
  PROVE  TokenInv'
<1> USE CallTyped, OAuthAssumption
<1>1. TypeOK'
  <2>1. call' \in [Calls -> CallRecord]
    <3> DEFINE result == IF call[c].kind = "revoke" THEN "ignored" ELSE "unavailable"
    <3>1. result \in Results /\ "done" \in PCs
      BY DEF Results, PCs
    <3>2. call' = [call EXCEPT ![c].pc = "done", ![c].result = result]
      BY DEF StatementFails, Finish
    <3> HIDE DEF result
    <3> DEFINE R == [call[c] EXCEPT !.pc = "done", !.result = result]
    <3>3. R \in CallRecord
      BY ZenonT(40), <3>1 DEF CallRecord
    <3>4. call' = [call EXCEPT ![c] = R]
      BY <3>2
    <3> HIDE DEF R
    <3> QED BY <3>3, <3>4
  <2> QED BY <2>1 DEF TokenInv, TypeOK, CallRecord, StatementFails
<1>2. RowInv'
  BY RowsUntouched DEF StatementFails
<1>3. \A d \in Calls \ {c} : call'[d] = call[d]
  BY DEF StatementFails, Finish
<1>4. Onward
  BY DEF Onward, StatementFails
<1>5. Remembers
  BY <1>3 DEF CallRecord, CallFollows, Remembers, StatementFails, Finish
<1>6. CallFollows(c)'
  BY DEF CallRecord, CallFollows, Pairs, StatementFails, Finish
<1>7. ReplayGoesOn(c)'
  BY DEF CallRecord, CallFollows, ReplayGoesOn, StatementFails, Finish
<1>8. (\A p \in Pairs : pair'[p].used => pair[p].used) /\ revoked' = revoked
  BY DEF StatementFails
<1> QED BY <1>1, <1>2, <1>3, <1>4, <1>5, <1>6, <1>7, <1>8, CallMoves

LEMMA RefreshThrottleKeeps ==
  ASSUME TokenInv, NEW c \in Calls, RefreshThrottle(c)
  PROVE  TokenInv'
<1> USE CallTyped, OAuthAssumption
<1>1. TypeOK'
  <2>1. call' \in [Calls -> CallRecord]
    BY DEF CallRecord, PCs, Results, RefreshThrottle, Finish, Goto
  <2>2. quota' \in [Codes -> 0 .. ConnMax] /\ junk' \in 0 .. JunkMax
    <3>1. quota \in [Codes -> 0 .. ConnMax] /\ junk \in 0 .. JunkMax
      BY DEF TokenInv, TypeOK
    <3>2. \A m \in Nat : \A n \in 0 .. m : Count(n, m) \in 0 .. m
      BY DEF Count
    <3>3. ASSUME NEW f, quota' = [quota EXCEPT ![f] = Count(@, ConnMax)]
          PROVE  quota' \in [Codes -> 0 .. ConnMax]
      <4>1. ConnMax \in Nat
        OBVIOUS
      <4> HIDE CallTyped, OAuthAssumption
      <4>2. f \in Codes => Count(quota[f], ConnMax) \in 0 .. ConnMax
        BY <3>1, <3>2, <4>1
      <4> QED BY <3>1, <3>3, <4>2
    <3>4. junk' = Count(junk, JunkMax) => junk' \in 0 .. JunkMax
      BY <3>1, <3>2
    <3>5. /\ quota' = [quota EXCEPT ![call[c].fam] = Count(@, ConnMax)] \/ quota' = quota
          /\ junk' = Count(junk, JunkMax) \/ junk' = junk
      BY DEF RefreshThrottle
    <3> HIDE CallTyped, OAuthAssumption
    <3> QED BY <3>1, <3>3, <3>4, <3>5
  <2> QED BY <2>1, <2>2, PruneChanges DEF TokenInv, TypeOK, CallRecord, RefreshThrottle
<1>2. RowInv'
  BY PruneKeepsRows DEF RefreshThrottle
<1>3. \A d \in Calls \ {c} : call'[d] = call[d]
  BY DEF RefreshThrottle, Finish, Goto
<1>4. Onward
  BY PruneChanges DEF Onward, RefreshThrottle
<1>5. Remembers
  BY <1>3 DEF CallRecord, CallFollows, Remembers, RefreshThrottle, Finish, Goto
<1>6. CallFollows(c)'
  BY PruneChanges DEF CallRecord, CallFollows, RefreshThrottle, Finish, Goto
<1>7. ReplayGoesOn(c)'
  BY PruneChanges DEF CallRecord, CallFollows, ReplayGoesOn, Admitted, RefreshThrottle, Finish, Goto
<1>8. (\A p \in Pairs : pair'[p].used => pair[p].used) /\ revoked' = revoked
  BY PruneChanges DEF RefreshThrottle
<1> QED BY <1>1, <1>2, <1>3, <1>4, <1>5, <1>6, <1>7, <1>8, CallMoves

\* The next row is written: the first of its family, or rotated from the one row of the
\* family that is not used, which is used now.
LEMMA RowAdded ==
  ASSUME TokenInv, nextPair \in Pairs, nextPair' = nextPair + 1, UNCHANGED <<age, known>>,
         NEW f \in Codes, NEW g \in 0 .. MaxPairs,
         \A k \in Codes : code[k] = "used" => code'[k] = "used", code'[f] = "used",
         g = 0 => \A q \in Pairs : q < nextPair => pair[q].fam # f,
         g # 0 => g < nextPair /\ pair[g].fam = f /\ Issued(g) /\ ~pair[g].used,
         pair'[nextPair] = [NoPair EXCEPT !.st = "issued", !.fam = f, !.from = g],
         \A q \in Pairs \ {nextPair, g} : pair'[q] = pair[q],
         g # 0 => pair'[g] = [pair[g] EXCEPT !.used = TRUE]
  PROVE  RowInv'
<1> USE OAuthAssumption
<1> DEFINE n == nextPair
<1>1. /\ n \in Nat /\ pair'[n].st = "issued" /\ pair'[n].fam = f /\ pair'[n].from = g
      /\ ~pair'[n].used
  BY DEF NoPair, Pairs
<1>2. \A q \in Pairs \ {n} :
        /\ pair'[q].st = pair[q].st /\ pair'[q].fam = pair[q].fam /\ pair'[q].from = pair[q].from
        /\ ~pair'[q].used => ~pair[q].used /\ q # g
  <2>1. ASSUME NEW q \in Pairs \ {n}, q # g
        PROVE  pair'[q] = pair[q]
    BY <2>1
  <2>2. ASSUME g \in Pairs \ {n}
        PROVE  /\ pair'[g].st = pair[g].st /\ pair'[g].fam = pair[g].fam
               /\ pair'[g].from = pair[g].from /\ pair'[g].used
    <3>1. g # 0 /\ pair[g] \in [st : {"free", "issued", "pruned"}, fam : Codes \cup {None},
                                from : 0 .. MaxPairs, used : BOOLEAN, rev : BOOLEAN]
      BY <2>2 DEF TokenInv, TypeOK, Pairs
    <3> QED BY <3>1
  <2> QED BY <2>1, <2>2
<1>3. \A q \in Pairs : pair[q].from # 0 => q < n /\ pair[q].from \in Pairs /\ pair[q].from < q
  BY <1>1 DEF TokenInv, TypeOK, RowInv, RowsInOrder, LinksGoBack, NoPair, Pairs
<1>4. RowsInOrder'
  <2>1. ASSUME NEW q \in Pairs, q >= nextPair'
        PROVE  pair'[q] = NoPair
    <3>1. q # n /\ q # g /\ pair[q] = NoPair
      BY <2>1, <1>1 DEF TokenInv, RowInv, RowsInOrder, Pairs
    <3> QED BY <3>1
  <2>2. ASSUME NEW q \in Pairs, q < nextPair'
        PROVE  /\ pair'[q].st # "free" /\ pair'[q].fam \in Codes /\ code'[pair'[q].fam] = "used"
    <3>1. CASE q = n
      BY <3>1, <1>1
    <3>2. CASE q # n
      <4>1. q < n
        BY <2>2, <3>2, <1>1 DEF Pairs
      <4> QED BY <4>1, <3>2, <1>2 DEF TokenInv, RowInv, RowsInOrder
    <3> QED BY <3>1, <3>2
  <2>3. \A q \in known' : q < nextPair'
    BY <1>1 DEF TokenInv, TypeOK, RowInv, RowsInOrder, Pairs
  <2> QED BY <2>1, <2>2, <2>3 DEF RowsInOrder
<1>5. OneUnused'
  <2> SUFFICES ASSUME NEW p \in Pairs, NEW q \in Pairs, p < n + 1, q < n + 1,
                      pair'[p].fam = pair'[q].fam, ~pair'[p].used, ~pair'[q].used
               PROVE  p = q
    BY DEF OneUnused
  <2>1. ASSUME NEW x \in Pairs, NEW y \in Pairs, x < n + 1, ~pair'[x].used, x # n, y = n
        PROVE  pair'[x].fam # pair'[y].fam
    <3>1. x < n /\ ~pair[x].used /\ x # g
      BY <2>1, <1>1, <1>2 DEF Pairs
    <3>2. pair[x].fam # f
      BY <3>1, <2>1 DEF TokenInv, RowInv, OneUnused, Issued
    <3> QED BY <3>1, <3>2, <1>1, <1>2, <2>1
  <2>2. CASE p # n /\ q # n
    BY <2>2, <1>1, <1>2 DEF TokenInv, RowInv, OneUnused, Pairs
  <2> QED BY <2>1, <2>2
<1>6. LinksGoBack'
  <2> SUFFICES ASSUME NEW q \in Pairs, pair'[q].from # 0
               PROVE  pair'[q].from < q /\ pair'[pair'[q].from].fam = pair'[q].fam
    BY DEF LinksGoBack
  <2>1. CASE q = n
    BY <2>1, <1>1, <1>2 DEF Issued, Pairs
  <2>2. CASE q # n
    <3>1. pair[q].from \in Pairs /\ pair[q].from < q /\ pair[q].from # n
      BY <2>2, <1>1, <1>2, <1>3 DEF Pairs
    <3>2. pair[pair[q].from].fam = pair[q].fam
      BY <2>2, <1>2 DEF TokenInv, RowInv, LinksGoBack
    <3> QED BY <3>1, <3>2, <1>2, <2>2
  <2> QED BY <2>1, <2>2
<1>7. NoDanglingRotation'
  <2> SUFFICES ASSUME NEW q \in Pairs, pair'[q].st = "issued", pair'[q].from # 0
               PROVE  pair'[q].from \in Pairs /\ pair'[pair'[q].from].st = "issued"
    BY DEF NoDanglingRotation, Issued
  <2>1. CASE q = n
    BY <2>1, <1>1, <1>2 DEF Issued, Pairs
  <2>2. CASE q # n
    <3>1. pair[q].from \in Pairs /\ pair[q].from # n
      BY <2>2, <1>1, <1>2, <1>3 DEF Pairs
    <3>2. pair[pair[q].from].st = "issued"
      BY <2>2, <1>2 DEF TokenInv, RowInv, NoDanglingRotation, Issued
    <3> QED BY <3>1, <3>2, <1>2, <2>2
  <2> QED BY <2>1, <2>2
<1>8. PrunedIsRetired'
  <2> SUFFICES ASSUME NEW q \in Pairs, pair'[q].st = "pruned"
               PROVE  age'[pair'[q].fam] = "retired"
    BY DEF PrunedIsRetired
  <2>1. q # n
    BY <1>1
  <2> QED BY <2>1, <1>2 DEF TokenInv, RowInv, PrunedIsRetired
<1> QED BY <1>4, <1>5, <1>6, <1>7, <1>8 DEF RowInv

LEMMA ExchangeKeeps ==
  ASSUME TokenInv, NEW c \in Calls, exchangeAuthorizationCode(c)
  PROVE  TokenInv'
<1> USE CallTyped, OAuthAssumption
<1> DEFINE k == call[c].code
<1>0. call[c].pc = "exchange" /\ k \in Codes /\ call[c].subject = "none"
      /\ call[c].kind = "code"
  BY DEF CallFollows, exchangeAuthorizationCode
<1>1. \A d \in Calls \ {c} : call'[d] = call[d]
  BY DEF exchangeAuthorizationCode, Finish
<1>2. CASE code[k] = "unused" /\ nextPair \in Pairs /\ nextPair' = nextPair + 1
  <2> DEFINE R == [call[c] EXCEPT !.pc = "answer", !.arg = nextPair, !.result = "issued"]
  <2>1. /\ code' = [code EXCEPT ![k] = "used"] /\ pair' = Insert(k, 0)
        /\ call' = [call EXCEPT ![c] = R]
        /\ UNCHANGED <<revoked, age, quota, junk, lock, known>>
    BY <1>2 DEF exchangeAuthorizationCode
  <2>2. /\ R \in CallRecord /\ R.pc = "answer" /\ R.kind = "code" /\ R.arg = nextPair
        /\ R.result = "issued" /\ R.subject = "none"
    <3>1. nextPair \in 0 .. MaxPairs
      BY <1>2 DEF Pairs
    <3> QED BY ZenonT(40), <3>1, <1>0 DEF CallRecord, PCs, Results
  <2> HIDE DEF R
  <2>3. TypeOK'
    <3>1. call' \in [Calls -> CallRecord]
      BY <2>1, <2>2
    <3>2. [NoPair EXCEPT !.st = "issued", !.fam = k, !.from = 0]
            \in [st : {"free", "issued", "pruned"}, fam : Codes \cup {None},
                 from : 0 .. MaxPairs, used : BOOLEAN, rev : BOOLEAN]
      <4>1. 0 \in 0 .. MaxPairs
        OBVIOUS
      <4> QED BY <4>1, <1>0 DEF NoPair
    <3>3. pair' \in [Pairs -> [st : {"free", "issued", "pruned"}, fam : Codes \cup {None},
                               from : 0 .. MaxPairs, used : BOOLEAN, rev : BOOLEAN]]
      BY <3>2, <2>1 DEF TokenInv, TypeOK, Insert
    <3>4. nextPair' \in 1 .. MaxPairs + 1
      BY <1>2 DEF Pairs
    <3> QED BY <3>1, <3>3, <3>4, <2>1 DEF TokenInv, TypeOK, CallRecord
  <2>4. RowInv'
    <3>1. \A q \in Pairs : q < nextPair => pair[q].fam # k
      BY <1>2 DEF TokenInv, RowInv, RowsInOrder
    <3>2. pair'[nextPair] = [NoPair EXCEPT !.st = "issued", !.fam = k, !.from = 0]
      BY <1>2, <2>1 DEF TokenInv, TypeOK, Insert
    <3>3. \A q \in Pairs \ {nextPair, 0} : pair'[q] = pair[q]
      BY <2>1 DEF TokenInv, TypeOK, Insert
    <3>4. (\A j \in Codes : code[j] = "used" => code'[j] = "used") /\ code'[k] = "used"
      BY <1>0, <2>1 DEF TokenInv, TypeOK
    <3>5. 0 \in 0 .. MaxPairs
      OBVIOUS
    <3> QED BY <3>1, <3>2, <3>3, <3>4, <3>5, <1>0, <1>2, <2>1, RowAdded
  <2>5. Onward
    BY <1>2, <2>1 DEF Onward, TokenInv, TypeOK, Insert, Pairs
  <2>6. Remembers
    BY <1>0, <1>1 DEF Remembers
  <2>7. CallFollows(c)' /\ ReplayGoesOn(c)'
    BY <1>2, <2>1, <2>2 DEF CallFollows, ReplayGoesOn, Pairs
  <2>8. (\A p \in Pairs : pair'[p].used => pair[p].used) /\ revoked' = revoked
    BY <1>2, <2>1 DEF TokenInv, TypeOK, Insert, NoPair
  <2> QED BY <1>1, <2>3, <2>4, <2>5, <2>6, <2>7, <2>8, CallMoves
<1>3. CASE UNCHANGED <<code, pair, nextPair>> /\ call' = Finish(c, "invalid")
  <2> DEFINE R == [call[c] EXCEPT !.pc = "done", !.result = "invalid"]
  <2>1. call' = [call EXCEPT ![c] = R] /\ UNCHANGED <<revoked, age, quota, junk, lock, known>>
    BY <1>3 DEF exchangeAuthorizationCode, Finish
  <2>2. /\ R \in CallRecord /\ R.pc = "done" /\ R.kind = "code"
        /\ R.result = "invalid" /\ R.subject = "none"
    BY ZenonT(40), <1>0 DEF CallRecord, PCs, Results
  <2> HIDE DEF R
  <2>3. TypeOK'
    <3>1. call' \in [Calls -> CallRecord]
      BY <2>1, <2>2
    <3> QED BY <3>1, <2>1, <1>3 DEF TokenInv, TypeOK, CallRecord
  <2>4. RowInv'
    BY <1>3, <2>1, RowsUntouched
  <2>5. Onward /\ Remembers
    BY <1>0, <1>1, <1>3, <2>1 DEF Onward, Remembers
  <2>6. CallFollows(c)' /\ ReplayGoesOn(c)'
    BY <2>1, <2>2 DEF CallFollows, ReplayGoesOn
  <2> QED BY <1>1, <1>3, <2>1, <2>3, <2>4, <2>5, <2>6, CallMoves
<1> QED BY <1>2, <1>3 DEF exchangeAuthorizationCode

PairRecord ==
  [st : {"free", "issued", "pruned"}, fam : Codes \cup {None}, from : 0 .. MaxPairs,
   used : BOOLEAN, rev : BOOLEAN]

LEMMA RotateCommitKeeps ==
  ASSUME TokenInv, NEW c \in Calls, RotateCommit(c)
  PROVE  TokenInv'
<1> USE CallTyped, OAuthAssumption
<1> DEFINE p == call[c].arg
           f == call[c].fam
<1>0. /\ call[c].pc = "rotating" /\ call[c].kind = "refresh" /\ call[c].result = "none"
      /\ p \in Pairs /\ p < nextPair /\ f = pair[p].fam /\ f \in Codes
  BY DEF CallFollows, RotateCommit
<1>1. \A d \in Calls \ {c} : call'[d] = call[d]
  BY DEF RotateCommit, Goto
<1>2. pair \in [Pairs -> PairRecord]
  BY DEF TokenInv, TypeOK, PairRecord
<1>3. lock' \in [Pairs -> Calls \cup {None}]
  BY DEF TokenInv, TypeOK, RotateCommit
<1>4. CASE Consumable(p) /\ nextPair \in Pairs /\ nextPair' = nextPair + 1
  <2> DEFINE R == [call[c] EXCEPT !.pc = "answer", !.result = "rotated", !.saw = {nextPair}]
             N == [NoPair EXCEPT !.st = "issued", !.fam = f, !.from = p]
  <2>1. /\ pair' = Consume(p) /\ call' = [call EXCEPT ![c] = R]
        /\ UNCHANGED <<code, revoked, age, quota, junk, known>>
    <3>1. nextPair' # nextPair
      BY <1>4
    <3> QED BY <3>1, <1>4 DEF RotateCommit
  <2>2. /\ R \in CallRecord /\ R.pc = "answer" /\ R.kind = "refresh" /\ R.arg = p /\ R.fam = f
        /\ R.result = "rotated" /\ R.subject = call[c].subject /\ R.saw = {nextPair}
    <3>1. {nextPair} \in SUBSET Pairs
      BY <1>4
    <3> QED BY ZenonT(40), <3>1, <1>0 DEF CallRecord, PCs, Results
  <2>3. p \in 0 .. MaxPairs /\ p # nextPair /\ p # 0
    BY <1>0 DEF Pairs
  <2>4. N \in PairRecord
    BY <1>0, <2>3 DEF NoPair, PairRecord
  <2>5. /\ pair'[nextPair] = N /\ pair'[p] = [pair[p] EXCEPT !.used = TRUE]
        /\ \A q \in Pairs \ {nextPair, p} : pair'[q] = pair[q]
        /\ pair' \in [Pairs -> PairRecord]
    <3>1. Insert(f, p) = [pair EXCEPT ![nextPair] = N]
      BY DEF Insert
    <3> HIDE DEF N
    <3>2. Insert(f, p) \in [Pairs -> PairRecord]
      BY <3>1, <2>4, <1>2
    <3>3. pair' = [Insert(f, p) EXCEPT ![p].used = TRUE]
      BY <2>1, <1>0 DEF Consume
    <3>4. pair' \in [Pairs -> PairRecord]
      BY ZenonT(40), <3>2, <3>3, <1>0 DEF PairRecord
    <3> QED BY <3>1, <3>2, <3>3, <3>4, <1>0, <1>2, <1>4, <2>3
  <2>6. pair'[p].used /\ pair'[p].fam = f
    BY <2>5, <1>0, <1>2 DEF PairRecord
  <2>7. TypeOK'
    <3>1. call' \in [Calls -> CallRecord]
      BY <2>1, <2>2
    <3>2. nextPair' \in 1 .. MaxPairs + 1
      BY <1>4 DEF Pairs
    <3> QED BY <3>1, <3>2, <2>1, <2>5, <1>3 DEF TokenInv, TypeOK, CallRecord, PairRecord
  <2>8. RowInv'
    <3>1. /\ \A k \in Codes : code[k] = "used" => code'[k] = "used"
          /\ code'[f] = "used" /\ Issued(p) /\ ~pair[p].used
      BY <1>0, <1>4, <2>1 DEF TokenInv, RowInv, RowsInOrder, Consumable
    <3> QED BY <3>1, <1>0, <1>4, <2>1, <2>3, <2>5, RowAdded
  <2>9. Onward
    <3>1. \A q \in Pairs : q < nextPair =>
            pair'[q].fam = pair[q].fam /\ (pair[q].used => pair'[q].used)
      <4> SUFFICES ASSUME NEW q \in Pairs, q < nextPair
                   PROVE  pair'[q].fam = pair[q].fam /\ (pair[q].used => pair'[q].used)
        OBVIOUS
      <4>1. q # nextPair
        BY DEF Pairs
      <4> QED BY <4>1, <2>5, <2>6, <1>0
    <3> QED BY <3>1, <1>4, <2>1 DEF Onward
  <2>10. call'[c] = R
    BY <2>1
  <2> HIDE DEF R, N
  <2>11. CallFollows(c)'
    <3>1. {nextPair} \subseteq 1 .. nextPair' - 1 /\ p < nextPair'
      BY <1>0, <1>4 DEF Pairs
    <3> QED BY <3>1, <2>2, <2>6, <2>10, <1>0 DEF CallFollows
  <2>12. ReplayGoesOn(c)'
    <3>1. call[c].subject # "reused"
      BY <1>4, <1>0 DEF ReplayGoesOn, Consumable
    <3> QED BY <3>1, <2>2, <2>10 DEF ReplayGoesOn
  <2>13. ASSUME NEW d \in Calls PROVE CallFollows(d)' /\ ReplayGoesOn(d)'
    BY <1>1, <2>7, <2>9, <2>11, <2>12, CallStays
  <2>14. Remembers
    BY <1>0, <1>1, <2>2, <2>10 DEF Remembers
  <2>15. UsedByRequest'
    <3> SUFFICES ASSUME NEW q \in Pairs, pair'[q].used
                 PROVE  \E d \in Calls : /\ call'[d].kind = "refresh" /\ call'[d].arg = q
                                         /\ call'[d].result = "rotated"
      BY DEF UsedByRequest
    <3>1. CASE q = p
      BY <3>1, <2>2, <2>10
    <3>2. CASE q # p
      <4>1. q # nextPair
        BY ZenonT(40), <2>5 DEF N, NoPair
      <4> QED BY <4>1, <3>2, <2>5, <2>14 DEF TokenInv, UsedByRequest, Remembers
    <3> QED BY <3>1, <3>2
  <2>16. OnlyReuseRevokes'
    BY <2>1, <2>14 DEF TokenInv, OnlyReuseRevokes, Remembers
  <2> QED BY <2>7, <2>8, <2>13, <2>15, <2>16 DEF TokenInv
<1>5. CASE UNCHANGED <<pair, nextPair>> /\ call' = Goto(c, "reuse")
  <2> DEFINE R == [call[c] EXCEPT !.pc = "reuse"]
  <2>1. call' = [call EXCEPT ![c] = R] /\ UNCHANGED <<code, revoked, age, quota, junk, known>>
    BY <1>5 DEF RotateCommit, Goto
  <2>2. /\ R \in CallRecord /\ R.pc = "reuse" /\ R.kind = "refresh" /\ R.arg = p /\ R.fam = f
        /\ R.result = "none" /\ R.subject = call[c].subject
    BY <1>0 DEF CallRecord, PCs
  <2> HIDE DEF R
  <2>3. TypeOK'
    <3>1. call' \in [Calls -> CallRecord]
      BY <2>1, <2>2
    <3> QED BY <3>1, <2>1, <1>3, <1>5 DEF TokenInv, TypeOK, CallRecord
  <2>4. RowInv'
    BY <1>5, <2>1, RowsUntouched
  <2>5. Onward /\ Remembers
    BY <1>0, <1>1, <1>5, <2>1, <2>2 DEF Onward, Remembers
  <2>6. CallFollows(c)' /\ ReplayGoesOn(c)'
    BY <1>0, <1>5, <2>1, <2>2 DEF CallFollows, ReplayGoesOn
  <2> QED BY <1>1, <1>5, <2>1, <2>3, <2>4, <2>5, <2>6, CallMoves
<1> QED BY <1>4, <1>5 DEF RotateCommit

LEMMA RevokeCommitKeeps ==
  ASSUME TokenInv, NEW c \in Calls, RevokeCommit(c)
  PROVE  TokenInv'
<1> USE CallTyped, OAuthAssumption
<1> DEFINE p == call[c].arg
           f == call[c].fam
           result == IF call[c].kind = "revoke" THEN "revoked" ELSE "reused"
           R == [call[c] EXCEPT !.pc = "done", !.result = result]
<1>0. /\ call[c].pc = "revoking" /\ call[c].kind \in {"refresh", "revoke"}
      /\ call[c].kind = "refresh" => pair[p].used
      /\ p \in Pairs /\ p < nextPair /\ f = pair[p].fam /\ f \in Codes
      /\ call[c].result = "none"
  BY DEF CallFollows, RevokeCommit
<1>1. /\ call' = [call EXCEPT ![c] = R] /\ revoked' = revoked \cup {f}
      /\ UNCHANGED <<code, nextPair, age, quota, junk, lock, known>>
  BY DEF RevokeCommit, Finish
<1>2. result \in {"revoked", "reused"}
  OBVIOUS
<1> HIDE DEF result
<1>3. /\ R \in CallRecord /\ R.pc = "done" /\ R.kind = call[c].kind /\ R.arg = p /\ R.fam = f
      /\ R.result = result /\ R.subject = call[c].subject
  <2>1. result \in Results /\ "done" \in PCs
    BY <1>2 DEF Results, PCs
  <2> QED BY ZenonT(40), <2>1 DEF CallRecord
<1> HIDE DEF R
<1>4. /\ \A q \in Pairs : /\ pair'[q].st = pair[q].st /\ pair'[q].fam = pair[q].fam
                          /\ pair'[q].from = pair[q].from /\ pair'[q].used = pair[q].used
                          /\ q >= nextPair => pair'[q] = pair[q]
      /\ pair' \in [Pairs -> PairRecord]
  <2>1. pair \in [Pairs -> PairRecord] /\ call[c].saw \subseteq 1 .. nextPair - 1
    BY <1>0 DEF TokenInv, TypeOK, PairRecord, CallFollows
  <2>2. pair' = [q \in Pairs |-> IF q \in call[c].saw THEN [pair[q] EXCEPT !.rev = TRUE] ELSE pair[q]]
    BY DEF RevokeCommit
  <2>3. \A q \in Pairs : q >= nextPair => q \notin call[c].saw
    BY <2>1 DEF Pairs
  <2> QED BY ZenonT(40), <2>1, <2>2, <2>3 DEF PairRecord
<1>5. TypeOK'
  <2>1. call' \in [Calls -> CallRecord] /\ revoked' \subseteq Codes
    BY <1>0, <1>1, <1>3 DEF TokenInv, TypeOK
  <2> QED BY <2>1, <1>1, <1>4 DEF TokenInv, TypeOK, CallRecord, PairRecord
<1>6. RowInv'
  <2>1. RowsInOrder'
    BY <1>1, <1>4 DEF TokenInv, RowInv, RowsInOrder
  <2>2. OneUnused'
    BY <1>1, <1>4 DEF TokenInv, RowInv, OneUnused
  <2>3. LinksGoBack' /\ NoDanglingRotation'
    <3> SUFFICES ASSUME NEW q \in Pairs, pair[q].from # 0
                 PROVE  /\ pair'[q].from < q /\ pair'[pair'[q].from].fam = pair'[q].fam
                        /\ pair[q].st = "issued" => /\ pair'[q].from \in Pairs
                                                    /\ pair'[pair'[q].from].st = "issued"
      BY <1>4 DEF LinksGoBack, NoDanglingRotation, Issued
    <3>1. /\ pair[q].from \in Pairs /\ pair[q].from < q /\ pair[pair[q].from].fam = pair[q].fam
          /\ pair[q].st = "issued" => pair[pair[q].from].st = "issued"
      BY DEF TokenInv, TypeOK, RowInv, LinksGoBack, NoDanglingRotation, Issued, Pairs
    <3> QED BY <3>1, <1>4
  <2>4. PrunedIsRetired'
    BY <1>1, <1>4 DEF TokenInv, RowInv, PrunedIsRetired
  <2> QED BY <2>1, <2>2, <2>3, <2>4 DEF RowInv
<1>7. Onward
  BY <1>1, <1>4 DEF Onward
<1>8. call'[c] = R /\ \A d \in Calls \ {c} : call'[d] = call[d]
  BY <1>1
<1>9. CallFollows(c)' /\ ReplayGoesOn(c)'
  BY <1>0, <1>1, <1>2, <1>3, <1>4, <1>8 DEF CallFollows, ReplayGoesOn
<1>10. ASSUME NEW d \in Calls PROVE CallFollows(d)' /\ ReplayGoesOn(d)'
  BY <1>5, <1>7, <1>8, <1>9, CallStays
<1>11. Remembers
  BY <1>0, <1>3, <1>8 DEF Remembers
<1>12. UsedByRequest'
  BY <1>4, <1>11 DEF TokenInv, UsedByRequest, Remembers
<1>13. OnlyReuseRevokes'
  <2> SUFFICES ASSUME NEW g \in revoked'
               PROVE  \/ \E d \in Calls : call'[d].kind = "revoke" /\ call'[d].fam = g
                      \/ \E d, e \in Calls : /\ d # e /\ call'[d].arg = call'[e].arg
                                             /\ call'[d].kind = "refresh" /\ call'[e].kind = "refresh"
                                             /\ call'[d].fam = g
    BY DEF OnlyReuseRevokes
  <2>1. CASE g \in revoked
    BY <2>1, <1>11 DEF TokenInv, OnlyReuseRevokes, Remembers
  <2>2. CASE g = f /\ call[c].kind = "revoke"
    BY <2>2, <1>3, <1>8
  <2>3. CASE g = f /\ call[c].kind = "refresh"
    <3>1. PICK e \in Calls : call[e].kind = "refresh" /\ call[e].arg = p /\ call[e].result = "rotated"
      BY <1>0, <2>3 DEF TokenInv, UsedByRequest
    <3>2. e # c
      BY <3>1, <1>0
    <3> QED BY <3>1, <3>2, <2>3, <1>3, <1>8
  <2> QED BY <2>1, <2>2, <2>3, <1>0, <1>1
<1> QED BY <1>5, <1>6, <1>10, <1>12, <1>13 DEF TokenInv

LEMMA AnswerKeeps ==
  ASSUME TokenInv, NEW c \in Calls, Answer(c)
  PROVE  TokenInv'
<1> USE CallTyped, OAuthAssumption
<1> DEFINE R == [call[c] EXCEPT !.pc = "done"]
<1>0. call[c].pc = "answer" /\ CallFollows(c) /\ ReplayGoesOn(c)
  BY DEF Answer
<1>1. /\ call' = [call EXCEPT ![c] = R]
      /\ UNCHANGED <<code, pair, nextPair, revoked, age, quota, junk, lock>>
  BY DEF Answer, Goto
<1>2. /\ R \in CallRecord /\ R.pc = "done" /\ R.kind = call[c].kind /\ R.arg = call[c].arg
      /\ R.fam = call[c].fam /\ R.result = call[c].result /\ R.subject = call[c].subject
  BY DEF CallRecord, PCs
<1> HIDE DEF R
<1>3. \A q \in known' : q \in Pairs /\ q < nextPair
  <2> SUFFICES ASSUME NEW q \in known', q \notin known
               PROVE  q \in Pairs /\ q < nextPair
    BY KnownRow
  <2>1. q \in IF call[c].kind = "code" THEN {call[c].arg} ELSE call[c].saw
    BY DEF Answer
  <2>2. q \in 1 .. nextPair - 1
    BY <2>1, <1>0 DEF CallFollows
  <2> QED BY <2>2 DEF Pairs
<1>4. TypeOK'
  <2>1. call' \in [Calls -> CallRecord] /\ known' \subseteq Pairs
    BY <1>1, <1>2, <1>3
  <2> QED BY <2>1, <1>1 DEF TokenInv, TypeOK, CallRecord
<1>5. RowInv'
  BY <1>1, <1>3 DEF TokenInv, RowInv, RowsInOrder, OneUnused, LinksGoBack, NoDanglingRotation,
                    PrunedIsRetired, Issued
<1>6. \A d \in Calls \ {c} : call'[d] = call[d]
  BY <1>1
<1>7. Onward /\ Remembers
  BY <1>1, <1>2, <1>6 DEF Onward, Remembers
<1>8. CallFollows(c)' /\ ReplayGoesOn(c)'
  BY <1>0, <1>1, <1>2 DEF CallFollows, ReplayGoesOn
<1> QED BY <1>1, <1>4, <1>5, <1>6, <1>7, <1>8, CallMoves

\* Time passes over the tables while no request moves.
LEMMA TimeKeeps ==
  ASSUME TokenInv, [\/ \E k \in Codes : CodeExpires(k) \/ FamilyAges(k)
                    \/ NextHour]_vars
  PROVE  TokenInv'
<1> USE OAuthAssumption
<1>1. /\ UNCHANGED <<pair, nextPair, revoked, lock, call, known>>
      /\ \A k \in Codes : code[k] = "used" => code'[k] = "used"
      /\ \A k \in Codes : age[k] = "retired" => age'[k] = "retired"
  BY DEF TokenInv, TypeOK, CodeExpires, FamilyAges, NextHour, vars
<1>2. TypeOK'
  <2>1. ASSUME NEW k \in Codes, CodeExpires(k) \/ FamilyAges(k)
        PROVE  TypeOK'
    BY <2>1 DEF TokenInv, TypeOK, CodeExpires, FamilyAges, Ages
  <2>2. CASE NextHour
    BY <2>2 DEF TokenInv, TypeOK, NextHour
  <2>3. CASE UNCHANGED vars
    BY <2>3 DEF TokenInv, TypeOK, vars
  <2> QED BY <2>1, <2>2, <2>3
<1>3. RowInv'
  <2>1. RowsInOrder' /\ OneUnused' /\ LinksGoBack' /\ NoDanglingRotation'
    BY <1>1 DEF TokenInv, RowInv, RowsInOrder, OneUnused, LinksGoBack, NoDanglingRotation, Issued
  <2>2. PrunedIsRetired'
    BY <1>1 DEF TokenInv, RowInv, RowsInOrder, PrunedIsRetired, NoPair, TypeOK, Pairs
  <2> QED BY <2>1, <2>2 DEF RowInv
<1>4. Onward
  BY <1>1 DEF Onward, TokenInv, TypeOK
<1>5. ASSUME NEW d \in Calls PROVE CallFollows(d)' /\ ReplayGoesOn(d)'
  BY <1>1, <1>2, <1>4, CallStays
<1>6. UsedByRequest' /\ OnlyReuseRevokes'
  BY <1>1 DEF TokenInv, UsedByRequest, OnlyReuseRevokes
<1> QED BY <1>2, <1>3, <1>5, <1>6 DEF TokenInv

LEMMA TokenStep == TokenInv /\ [Next]_vars => TokenInv'
  BY ExchangeStartKeeps, RefreshStartKeeps, RevokeStartKeeps, ExchangeKeeps, RefreshThrottleKeeps,
     RotateOpenKeeps, RotateCommitKeeps, ReuseOpenKeeps, RevokeOpenKeeps, RevokeCommitKeeps,
     AnswerKeeps, StatementFailsKeeps, TimeKeeps
  DEF Next, Step

LEMMA TokenSafety == TokenInv => TypeOK /\ RotationChain /\ RevocationIsExact
<1> SUFFICES ASSUME TokenInv PROVE TypeOK /\ RotationChain /\ RevocationIsExact
  OBVIOUS
<1>1. TypeOK /\ NoDanglingRotation /\ OnlyReuseRevokes
  BY DEF TokenInv, RowInv
<1>2. OneLiveRefresh
  BY OAuthAssumption
  DEF TokenInv, TypeOK, RowInv, RowsInOrder, OneUnused, OneLiveRefresh, Consumable, Issued, NoPair, Pairs
<1>3. AnsweredRevocation
  BY DEF TokenInv, CallFollows, AnsweredRevocation, PairsOf, resolveOAuthAccessToken, FamilyLive
<1>4. ReplayEndsFamily
  BY DEF TokenInv, ReplayGoesOn, ReplayEndsFamily
<1> QED BY <1>1, <1>2, <1>3, <1>4 DEF RotationChain, RevocationIsExact

-----------------------------------------------------------------------------
(* Registration: the inductive invariant                                   *)

\* Numbers are given once, to one name and one request.
NumbersGivenOnce ==
  /\ \A h \in Handles : resident[h] <= lastId
  /\ \A r \in Doors!Requests : req[r].id <= lastId
  /\ \A g, h \in Handles : Doors!Taken(g) /\ resident[g] = resident[h] => g = h
  /\ \A r, s \in Doors!Requests : req[r].id # 0 /\ req[r].id = req[s].id => r = s
  /\ \A r \in Doors!Requests : req[r].id # 0 => \E h \in Handles : resident[h] = req[r].id
  /\ \A h \in Handles : Doors!Taken(h) => \E r \in Doors!Requests : req[r].id = resident[h]

\* As many numbers were given as requests confirmed, one more when 4 was skipped.
NumbersCounted ==
  Settled <= lastId /\ lastId <= Settled + Cardinality({r \in Doors!Requests : req[r].st = "confirmed"})
            + (IF lastId > 4 THEN 1 ELSE 0)

\* What a confirmation has seen or answered is still so.
ConfirmFollows(c) ==
  /\ regCall[c].pc = "idle" => regCall[c].answer = "none"
  /\ regCall[c].pc # "idle" =>
       /\ regCall[c].req \in Doors!Requests /\ req[regCall[c].req].st # "new"
       /\ regCall[c].sawDone => req[regCall[c].req].st = "confirmed"
       /\ ~regCall[c].inTime => req[regCall[c].req].late
  /\ regCall[c].pc \in {"open", "violated", "reread"} => regCall[c].answer = "none"
  /\ regCall[c].pc = "violated" =>
       \/ req[regCall[c].req].st = "canceled"
       \/ req[regCall[c].req].st = "staged" /\ Doors!Taken(req[regCall[c].req].handle)
  /\ regCall[c].pc = "reread" /\ regCall[c].inTime =>
       req[regCall[c].req].st \in {"canceled", "confirmed"}
  /\ regCall[c].answer = "unavailable" /\ regCall[c].req \in Web /\ regCall[c].inTime =>
       req[regCall[c].req].st = "canceled"
  /\ regCall[c].answer = "handle_taken" =>
       req[regCall[c].req].st = "canceled" \/ req[regCall[c].req].late
  /\ regCall[c].answer = "confirmed" => req[regCall[c].req].st = "confirmed"

DoorInv ==
  /\ Doors!TypeOK /\ NumbersGivenOnce /\ NumbersCounted /\ Doors!NumbersDense
  /\ \A c \in Confirmers : ConfirmFollows(c)

DoorRow ==
  [st : {"new", "staged", "confirmed", "canceled"}, handle : Handles \cup {None},
   id : 0 .. Doors!MaxId, late : BOOLEAN]
DoorCall ==
  [pc : {"idle", "open", "violated", "reread", "done"}, req : Doors!Requests \cup {None},
   sawTaken : BOOLEAN, sawDone : BOOLEAN, inTime : BOOLEAN, answer : Doors!Answers]

\* What every step leaves of the rows: what is confirmed or canceled stays so, a staged
\* name does not change, and a row whose name is taken is not confirmed.
DoorOnward ==
  /\ \A r \in Doors!Requests :
       /\ req[r].st = "confirmed" => req'[r].st = "confirmed"
       /\ req[r].st = "canceled" => req'[r].st = "canceled"
       /\ req[r].st # "new" => req'[r].st # "new"
       /\ req[r].late => req'[r].late
       /\ req[r].st = "staged" /\ req'[r].st = "staged" => req'[r].handle = req[r].handle
       /\ req[r].st = "staged" /\ Doors!Taken(req[r].handle) => req'[r].st # "confirmed"
  /\ \A h \in Handles : Doors!Taken(h) => Doors!Taken(h)'

\* What every step leaves but the one that makes a resident.
NobodyNew ==
  /\ \A r \in Doors!Requests : /\ req'[r].st = "confirmed" <=> req[r].st = "confirmed"
                               /\ req'[r].id = req[r].id
  /\ UNCHANGED <<resident, lastId>>

LEMMA DoorTyped ==
  ASSUME DoorInv
  PROVE  /\ req \in [Doors!Requests -> DoorRow] /\ regCall \in [Confirmers -> DoorCall]
         /\ resident \in [Handles -> 0 .. Doors!MaxId] /\ lastId \in 0 .. Doors!MaxId
         /\ \A r \in Doors!Requests : /\ req[r].handle # None <=> req[r].st = "staged"
                                      /\ req[r].id # 0 <=> req[r].st = "confirmed"
         /\ \A c \in Confirmers : ConfirmFollows(c)
  BY DEF DoorInv, Doors!TypeOK, DoorRow, DoorCall

\* Registration counts with the Cardinality of its own instance of FiniteSets.
LEMMA DoorCardinality ==
  ASSUME NEW S
  PROVE  Doors!Cardinality(S) = Cardinality(S)
  BY DEF Doors!Cardinality, Cardinality

LEMMA DoorMaxId ==
  /\ IsFiniteSet(Doors!Requests) /\ Cardinality(Doors!Requests) \in Nat
  /\ Doors!MaxId = Settled + Cardinality(Doors!Requests) + 1 /\ Doors!MaxId \in Nat
<1>1. IsFiniteSet(Doors!Requests)
  BY DoorAssumption, FS_Union DEF Doors!Requests
<1>2. Cardinality(Doors!Requests) \in Nat
  BY <1>1, FS_CardinalityType
<1> QED BY <1>1, <1>2, DoorAssumption, DoorCardinality DEF Doors!MaxId

LEMMA DoorInit == Doors!Init => DoorInv
<1> SUFFICES ASSUME Doors!Init PROVE DoorInv
  OBVIOUS
<1> USE DoorAssumption DEF Doors!Init
<1>1. Doors!TypeOK
  <2>1. 0 \in 0 .. Doors!MaxId /\ Settled \in 0 .. Doors!MaxId
    BY DoorMaxId
  <2> QED BY <2>1 DEF Doors!TypeOK, Doors!NewReq, Doors!Idle, Doors!Answers
<1>2. NumbersGivenOnce
  BY DEF NumbersGivenOnce, Doors!Taken, Doors!NewReq
<1>3. NumbersCounted
  <2>1. {r \in Doors!Requests : req[r].st = "confirmed"} = {}
    BY DEF Doors!NewReq
  <2>2. Cardinality({r \in Doors!Requests : req[r].st = "confirmed"}) = 0
    BY <2>1, FS_EmptySet
  <2> QED BY <2>2 DEF NumbersCounted
<1>4. Doors!NumbersDense
  <2>1. {g \in Handles : Doors!Taken(g)} = {}
    BY DEF Doors!Taken
  <2>2. Settled + 1 .. lastId = {}
    OBVIOUS
  <2> QED BY <2>1, <2>2 DEF Doors!NumbersDense
<1>5. ASSUME NEW c \in Confirmers PROVE ConfirmFollows(c)
  BY DEF ConfirmFollows, Doors!Idle
<1> QED BY <1>1, <1>2, <1>3, <1>4, <1>5 DEF DoorInv

LEMMA ConfirmStays ==
  ASSUME DoorInv, DoorOnward, req' \in [Doors!Requests -> DoorRow],
         NEW c \in Confirmers, regCall'[c] = regCall[c]
  PROVE  ConfirmFollows(c)'
<1>1. CASE regCall[c].pc = "idle"
  BY <1>1, DoorTyped DEF ConfirmFollows
<1>2. CASE regCall[c].pc # "idle"
  <2> DEFINE r == regCall[c].req
  <2>1. r \in Doors!Requests /\ ConfirmFollows(c)
    BY <1>2, DoorTyped DEF ConfirmFollows
  <2>2. /\ req[r] \in DoorRow /\ req'[r] \in DoorRow
        /\ req[r].handle # None <=> req[r].st = "staged"
    BY <2>1, DoorTyped
  <2>3. req[r].st = "staged" => req[r].handle \in Handles
    BY <2>2 DEF DoorRow
  <2>4. req[r].st = "staged" /\ Doors!Taken(req[r].handle) /\ req'[r].st # "canceled" =>
          req'[r].st = "staged" /\ Doors!Taken(req[r].handle)' /\ Doors!Taken(req[r].handle)
    BY <2>1, <2>2, <2>3 DEF DoorOnward, DoorRow, Doors!Taken
  <2> QED BY <2>1, <2>2, <2>3, <2>4, <1>2 DEF DoorOnward, ConfirmFollows, Doors!Taken
<1> QED BY <1>1, <1>2

\* A step that makes nobody keeps the invariant when it keeps the types and what the
\* one confirmation that moves may have seen.
LEMMA NobodyNewKeeps ==
  ASSUME DoorInv, Doors!TypeOK', NobodyNew, DoorOnward,
         \A c \in Confirmers : regCall'[c] = regCall[c] \/ ConfirmFollows(c)'
  PROVE  DoorInv'
<1>1. NumbersGivenOnce' /\ Doors!NumbersDense'
  BY DEF DoorInv, NumbersGivenOnce, NobodyNew, Doors!NumbersDense, Doors!Taken
<1>2. NumbersCounted'
  <2>1. {r \in Doors!Requests : req'[r].st = "confirmed"}
          = {r \in Doors!Requests : req[r].st = "confirmed"}
    BY DEF NobodyNew
  <2> QED BY <2>1 DEF DoorInv, NumbersCounted, NobodyNew
<1>3. ASSUME NEW c \in Confirmers PROVE ConfirmFollows(c)'
  <2>1. req' \in [Doors!Requests -> DoorRow]
    BY DEF Doors!TypeOK, DoorRow
  <2> QED BY <2>1, ConfirmStays
<1> QED BY <1>1, <1>2, <1>3 DEF DoorInv

\* What the types say of the rows and calls, one by one.
LEMMA DoorTypes ==
  ASSUME DoorInv, req' \in [Doors!Requests -> DoorRow], regCall' \in [Confirmers -> DoorCall],
         UNCHANGED <<resident, lastId>>,
         \A r \in Doors!Requests : /\ req'[r].handle # None <=> req'[r].st = "staged"
                                   /\ req'[r].id # 0 <=> req'[r].st = "confirmed"
  PROVE  Doors!TypeOK'
  BY DEF DoorInv, Doors!TypeOK, DoorRow, DoorCall

\* Rows that were canceled, staged or left alone.
DoorRowMoves(r) ==
  \/ req'[r] = req[r]
  \/ req[r].st # "confirmed" /\ req'[r] = Doors!Canceled(req[r])
  \/ /\ req[r].st = "new"
     /\ \E h \in Handles : req'[r] = [req[r] EXCEPT !.st = "staged", !.handle = h]
  \/ req'[r] = [req[r] EXCEPT !.late = TRUE]

LEMMA DoorRowsMove ==
  ASSUME DoorInv, req' = [r \in Doors!Requests |-> req'[r]], UNCHANGED <<resident, lastId>>,
         \A r \in Doors!Requests : DoorRowMoves(r), regCall' \in [Confirmers -> DoorCall],
         \A c \in Confirmers : regCall'[c] = regCall[c] \/ ConfirmFollows(c)'
  PROVE  DoorInv'
<1> USE DoorTyped
<1>1. ASSUME NEW r \in Doors!Requests
      PROVE  /\ req'[r] \in DoorRow
             /\ req'[r].handle # None <=> req'[r].st = "staged"
             /\ req'[r].id = req[r].id
             /\ req'[r].st = "confirmed" <=> req[r].st = "confirmed"
             /\ req[r].st = "canceled" => req'[r].st = "canceled"
             /\ req[r].st # "new" => req'[r].st # "new"
             /\ req[r].late => req'[r].late
             /\ req[r].st = "staged" /\ req'[r].st = "staged" => req'[r].handle = req[r].handle
  <2>0. req[r] \in DoorRow /\ DoorRowMoves(r) /\ 0 \in 0 .. Doors!MaxId
    BY DoorMaxId
  <2>1. CASE req'[r] = req[r]
    BY <2>1
  <2>2. CASE req[r].st # "confirmed" /\ req'[r] = Doors!Canceled(req[r])
    <3>1. req'[r] = [st |-> "canceled", handle |-> None, id |-> 0, late |-> req[r].late]
      BY <2>2 DEF Doors!Canceled, Doors!NewReq
    <3>2. req[r].id = 0
      BY <2>2
    <3>3. req'[r] \in DoorRow
      BY <2>0, <3>1 DEF DoorRow
    <3> QED BY <2>2, <3>1, <3>2, <3>3
  <2>3. CASE /\ req[r].st = "new"
             /\ \E h \in Handles : req'[r] = [req[r] EXCEPT !.st = "staged", !.handle = h]
    <3>1. PICK h \in Handles : req'[r] = [req[r] EXCEPT !.st = "staged", !.handle = h]
      BY <2>3
    <3>2. /\ req'[r] \in DoorRow /\ req'[r].st = "staged" /\ req'[r].handle = h
          /\ req'[r].id = req[r].id /\ req'[r].late = req[r].late
      BY <2>0, <3>1 DEF DoorRow
    <3> QED BY <2>3, <3>2, DoorAssumption
  <2>4. CASE req'[r] = [req[r] EXCEPT !.late = TRUE]
    BY <2>0, <2>4 DEF DoorRow
  <2> QED BY <2>0, <2>1, <2>2, <2>3, <2>4 DEF DoorRowMoves
<1>2. req' \in [Doors!Requests -> DoorRow]
  BY <1>1
<1>3. Doors!TypeOK'
  BY <1>1, <1>2, DoorTypes
<1>4. NobodyNew
  BY <1>1 DEF NobodyNew
<1>5. DoorOnward
  BY <1>1 DEF DoorOnward, Doors!Taken
<1> QED BY <1>3, <1>4, <1>5, NobodyNewKeeps

LEMMA DoorRowSteps ==
  ASSUME DoorInv, NEW r \in Doors!Requests, NEW h \in Handles,
         \/ Doors!Cancel(r) \/ Doors!StageExpires(r) \/ Doors!stageResidentRegistration(r, h)
         \/ Doors!stageNewResidentRegistration(r, h) \/ Doors!createAuthorizationRequest
  PROVE  DoorInv'
<1> USE DoorTyped
<1>1. UNCHANGED <<resident, lastId, regCall>>
  BY DEF Doors!Cancel, Doors!StageExpires, Doors!stageResidentRegistration,
         Doors!stageNewResidentRegistration, Doors!createAuthorizationRequest
<1>2. ASSUME NEW door, NEW s \in Doors!Requests
      PROVE  \/ Doors!ClearExpired(door)[s] = req[s]
             \/ req[s].st # "confirmed" /\ Doors!ClearExpired(door)[s] = Doors!Canceled(req[s])
  BY DEF Doors!ClearExpired
<1>3. req' = [s \in Doors!Requests |-> req'[s]]
  BY DEF Doors!Cancel, Doors!StageExpires, Doors!stageResidentRegistration, Doors!ClearExpired,
         Doors!stageNewResidentRegistration, Doors!createAuthorizationRequest
<1>4. ASSUME NEW s \in Doors!Requests PROVE DoorRowMoves(s)
  <2>1. CASE Doors!Cancel(r)
    BY <2>1 DEF Doors!Cancel, Doors!Cancelable, DoorRowMoves
  <2>2. CASE Doors!StageExpires(r)
    BY <2>2 DEF Doors!StageExpires, DoorRowMoves
  <2>3. CASE Doors!stageResidentRegistration(r, h)
    <3>1. CASE Doors!Taken(h)
      <4>1. req'[s] = Doors!ClearExpired(Web)[s]
        BY <2>3, <3>1 DEF Doors!stageResidentRegistration
      <4> QED BY ZenonT(40), <4>1, <1>2 DEF DoorRowMoves
    <3>2. CASE ~Doors!Taken(h)
      <4>1. req' = [Doors!ClearExpired(Web) EXCEPT ![r].st = "staged", ![r].handle = h]
        BY <2>3, <3>2 DEF Doors!stageResidentRegistration
      <4>2. Doors!ClearExpired(Web) \in [Doors!Requests -> {Doors!ClearExpired(Web)[x] : x \in Doors!Requests}]
        BY DEF Doors!ClearExpired
      <4>3. Doors!ClearExpired(Web)[r] = req[r] /\ req[r].st = "new"
        BY <2>3 DEF Doors!stageResidentRegistration, Doors!ClearExpired
      <4>4. CASE s = r
        BY <4>1, <4>2, <4>3, <4>4 DEF DoorRowMoves
      <4>5. CASE s # r
        <5>1. req'[s] = Doors!ClearExpired(Web)[s]
          BY <4>1, <4>2, <4>5
        <5> QED BY ZenonT(40), <5>1, <1>2 DEF DoorRowMoves
      <4> QED BY <4>4, <4>5
    <3> QED BY <3>1, <3>2
  <2>4. CASE Doors!stageNewResidentRegistration(r, h)
    BY <2>4 DEF Doors!stageNewResidentRegistration, DoorRowMoves
  <2>5. CASE Doors!createAuthorizationRequest
    BY ZenonT(40), <2>5, <1>2 DEF Doors!createAuthorizationRequest, DoorRowMoves
  <2> QED BY <2>1, <2>2, <2>3, <2>4, <2>5
<1> QED BY <1>1, <1>3, <1>4, DoorRowsMove

\* The confirmation c moves on to q; nothing else changes.
LEMMA ConfirmMoves ==
  ASSUME DoorInv, NEW c \in Confirmers, NEW q \in DoorCall, regCall' = [regCall EXCEPT ![c] = q],
         req' \in [Doors!Requests -> DoorRow],
         \A r \in Doors!Requests : DoorRowMoves(r), UNCHANGED <<resident, lastId>>,
         q.pc # "idle", q.req \in Doors!Requests, req'[q.req].st # "new",
         q.sawDone => req'[q.req].st = "confirmed",
         ~q.inTime => req'[q.req].late,
         q.pc # "done" => q.answer = "none",
         q.pc = "violated" => \/ req'[q.req].st = "canceled"
                              \/ req'[q.req].st = "staged" /\ resident'[req'[q.req].handle] # 0,
         q.pc = "reread" /\ q.inTime => req'[q.req].st \in {"canceled", "confirmed"},
         q.answer = "unavailable" /\ q.req \in Web /\ q.inTime => req'[q.req].st = "canceled",
         q.answer = "handle_taken" => req'[q.req].st = "canceled" \/ req'[q.req].late,
         q.answer = "confirmed" => req'[q.req].st = "confirmed"
  PROVE  DoorInv'
<1>1. regCall' \in [Confirmers -> DoorCall] /\ regCall'[c] = q
      /\ \A d \in Confirmers \ {c} : regCall'[d] = regCall[d]
  BY DoorTyped
<1>2. ConfirmFollows(c)'
  BY <1>1 DEF ConfirmFollows, Doors!Taken
<1>3. req' = [r \in Doors!Requests |-> req'[r]]
  OBVIOUS
<1> QED BY <1>1, <1>2, <1>3, DoorRowsMove

LEMMA ConfirmOpenKeeps ==
  ASSUME DoorInv, NEW c \in Confirmers, NEW r \in Doors!Requests, Doors!ConfirmOpen(c, r)
  PROVE  DoorInv'
<1> USE DoorTyped
<1> DEFINE q == [Doors!Idle EXCEPT !.pc = "open", !.req = r, !.inTime = ~req[r].late,
                   !.sawTaken = req[r].st = "staged" /\ Doors!Taken(req[r].handle),
                   !.sawDone = req[r].st = "confirmed"]
<1>1. regCall' = [regCall EXCEPT ![c] = q] /\ UNCHANGED <<req, resident, lastId>> /\ req[r].st # "new"
  BY DEF Doors!ConfirmOpen
<1>2. /\ q \in DoorCall /\ q.pc = "open" /\ q.req = r /\ q.inTime = ~req[r].late
      /\ q.sawDone = (req[r].st = "confirmed") /\ q.answer = "none"
  BY DEF Doors!Idle, DoorCall, Doors!Answers
<1>3. \A s \in Doors!Requests : DoorRowMoves(s)
  BY <1>1 DEF DoorRowMoves
<1> HIDE DEF q
<1> QED BY <1>1, <1>2, <1>3, ConfirmMoves

\* The steps of a confirmation that leave the rows alone.
LEMMA ConfirmQuietKeeps ==
  ASSUME DoorInv, NEW c \in Confirmers,
         Doors!ConfirmViolates(c) \/ Doors!ConfirmUnavailable(c) \/ Doors!Reread(c) \/ Doors!Crash(c)
  PROVE  DoorInv'
<1> USE DoorTyped
<1> DEFINE r == regCall[c].req
           To(pc) == [regCall[c] EXCEPT !.pc = pc]
           End(answer) == [regCall[c] EXCEPT !.pc = "done", !.answer = answer]
<1>0. /\ regCall[c].pc # "idle" /\ UNCHANGED <<req, resident, lastId>> /\ regCall[c] \in DoorCall
      /\ regCall[c].answer = "none"
  BY DEF Doors!ConfirmViolates, Doors!ConfirmUnavailable, Doors!Reread, Doors!Crash, ConfirmFollows
<1>1. /\ r \in Doors!Requests /\ req[r].st # "new" /\ req[r] \in DoorRow
      /\ regCall[c].sawDone => req[r].st = "confirmed"
      /\ ~regCall[c].inTime => req[r].late
  BY <1>0 DEF ConfirmFollows
<1>2. \A s \in Doors!Requests : DoorRowMoves(s)
  BY <1>0 DEF DoorRowMoves
<1>3. ASSUME NEW pc \in {"violated", "reread"}
      PROVE  /\ To(pc) \in DoorCall /\ To(pc).pc = pc /\ To(pc).req = r
             /\ To(pc).sawDone = regCall[c].sawDone /\ To(pc).inTime = regCall[c].inTime
             /\ To(pc).answer = "none"
  BY <1>0 DEF DoorCall
<1>4. ASSUME NEW answer \in Doors!Answers
      PROVE  /\ End(answer) \in DoorCall /\ End(answer).pc = "done" /\ End(answer).req = r
             /\ End(answer).sawDone = regCall[c].sawDone /\ End(answer).inTime = regCall[c].inTime
             /\ End(answer).answer = answer
  BY <1>0 DEF DoorCall
<1>5. CASE Doors!ConfirmViolates(c)
  <2>1. regCall' = [regCall EXCEPT ![c] = To("violated")]
    BY <1>5 DEF Doors!ConfirmViolates
  <2>2. req[r].st = "staged" /\ resident[req[r].handle] # 0
    BY <1>5 DEF Doors!ConfirmViolates, Doors!Active, Doors!NameFree, Doors!Taken
  <2> HIDE DEF To
  <2> QED BY ZenonT(40), <2>1, <2>2, <1>0, <1>1, <1>2, <1>3, ConfirmMoves
<1>6. ASSUME NEW q \in DoorCall, regCall' = [regCall EXCEPT ![c] = q], q.pc = "done", q.req = r,
             q.sawDone = regCall[c].sawDone, q.inTime = regCall[c].inTime,
             q.answer = "unavailable" /\ r \in Web /\ regCall[c].inTime => req[r].st = "canceled",
             q.answer # "handle_taken", q.answer = "confirmed" => req[r].st = "confirmed"
      PROVE  DoorInv'
  <2>1. req' = req /\ req \in [Doors!Requests -> DoorRow] /\ q.req = r /\ q.pc = "done"
    BY <1>6, <1>0
  <2>2. /\ q.sawDone => req'[q.req].st = "confirmed"
        /\ ~q.inTime => req'[q.req].late
    BY <1>6, <1>1, <2>1
  <2>3. /\ q.answer = "unavailable" /\ q.req \in Web /\ q.inTime => req'[q.req].st = "canceled"
        /\ q.answer # "handle_taken" /\ (q.answer = "confirmed" => req'[q.req].st = "confirmed")
    BY <1>6, <2>1
  <2>4. q.req \in Doors!Requests /\ req'[q.req].st # "new"
    BY <1>1, <2>1
  <2> QED BY <1>6, <1>0, <1>2, <2>1, <2>2, <2>3, <2>4, ConfirmMoves
<1>7. {"unavailable", "confirmed", "error"} \subseteq Doors!Answers
  BY DEF Doors!Answers
<1>8. CASE Doors!ConfirmUnavailable(c)
  <2>1. ~(req[r].st = "staged" /\ regCall[c].inTime)
    BY <1>8 DEF Doors!ConfirmUnavailable, Doors!Active
  <2>2. CASE r \in Hosted
    <3>1. regCall' = [regCall EXCEPT ![c] = End("unavailable")]
      BY <1>8, <2>2 DEF Doors!ConfirmUnavailable, Doors!Unavailable, Doors!Finish
    <3>2. r \notin Web
      BY <2>2, DoorAssumption
    <3> HIDE DEF End
    <3> QED BY <3>1, <3>2, <1>4, <1>6, <1>7
  <2>3. CASE r \notin Hosted /\ regCall[c].sawDone
    <3>1. regCall' = [regCall EXCEPT ![c] = End("confirmed")]
      BY <1>8, <2>3 DEF Doors!ConfirmUnavailable, Doors!Unavailable, Doors!Finish
    <3> HIDE DEF End
    <3> QED BY <3>1, <2>3, <1>1, <1>4, <1>6, <1>7
  <2>4. CASE r \notin Hosted /\ ~regCall[c].sawDone
    <3>1. regCall' = [regCall EXCEPT ![c] = To("reread")]
      BY <1>8, <2>4 DEF Doors!ConfirmUnavailable, Doors!Unavailable
    <3>2. regCall[c].inTime => req[r].st \in {"canceled", "confirmed"}
      BY <2>1, <1>1 DEF DoorRow
    <3> HIDE DEF To
    <3> QED BY ZenonT(40), <3>1, <3>2, <1>0, <1>1, <1>2, <1>3, ConfirmMoves
  <2> QED BY <2>2, <2>3, <2>4
<1>9. CASE Doors!Reread(c)
  <2>1. regCall[c].inTime => req[r].st \in {"canceled", "confirmed"}
    BY <1>9 DEF Doors!Reread, ConfirmFollows
  <2>2. CASE req[r].st = "confirmed"
    <3>1. regCall' = [regCall EXCEPT ![c] = End("confirmed")]
      BY <1>9, <2>2 DEF Doors!Reread, Doors!Finish
    <3> HIDE DEF End
    <3> QED BY <3>1, <2>2, <1>4, <1>6, <1>7
  <2>3. CASE req[r].st # "confirmed"
    <3>1. regCall' = [regCall EXCEPT ![c] = End("unavailable")]
      BY <1>9, <2>3 DEF Doors!Reread, Doors!Finish
    <3> HIDE DEF End
    <3> QED BY <3>1, <2>1, <2>3, <1>4, <1>6, <1>7
  <2> QED BY <2>2, <2>3
<1>10. CASE Doors!Crash(c)
  <2>1. regCall' = [regCall EXCEPT ![c] = End("error")]
    BY <1>10 DEF Doors!Crash, Doors!Finish
  <2> HIDE DEF End
  <2> QED BY <2>1, <1>4, <1>6, <1>7
<1> QED BY <1>5, <1>8, <1>9, <1>10

LEMMA CanceledRow ==
  ASSUME NEW was
  PROVE  Doors!Canceled(was) = [st |-> "canceled", handle |-> None, id |-> 0, late |-> was.late]
<1> SUFFICES ASSUME NEW x, x = Doors!Canceled(was)
             PROVE  x = [st |-> "canceled", handle |-> None, id |-> 0, late |-> was.late]
  OBVIOUS
<1> QED BY DEF Doors!Canceled, Doors!NewReq

LEMMA ConfirmedRow ==
  ASSUME NEW n, NEW b
  PROVE  [Doors!NewReq EXCEPT !.st = "confirmed", !.id = n, !.late = b]
           = [st |-> "confirmed", handle |-> None, id |-> n, late |-> b]
<1> SUFFICES ASSUME NEW x, x = [Doors!NewReq EXCEPT !.st = "confirmed", !.id = n, !.late = b]
             PROVE  x = [st |-> "confirmed", handle |-> None, id |-> n, late |-> b]
  OBVIOUS
<1> QED BY DEF Doors!NewReq

\* A confirmation ends because the name is taken; its request is canceled or left alone.
LEMMA ConfirmRefusedKeeps ==
  ASSUME DoorInv, NEW c \in Confirmers, Doors!ConfirmConflict(c) \/ Doors!CancelAfterViolation(c)
  PROVE  DoorInv'
<1> USE DoorTyped
<1> DEFINE r == regCall[c].req
           End(answer) == [regCall[c] EXCEPT !.pc = "done", !.answer = answer]
<1>0. /\ regCall[c].pc # "idle" /\ UNCHANGED <<resident, lastId>> /\ regCall[c] \in DoorCall
  BY DEF Doors!ConfirmConflict, Doors!CancelAfterViolation
<1>1. /\ r \in Doors!Requests /\ req[r] \in DoorRow
      /\ regCall[c].sawDone => req[r].st = "confirmed"
      /\ ~regCall[c].inTime => req[r].late
  BY <1>0 DEF ConfirmFollows
<1>2. req[r].st \in {"staged", "canceled"}
  BY DEF Doors!ConfirmConflict, Doors!Active, Doors!CancelAfterViolation, ConfirmFollows
<1>3. /\ \/ req' = [req EXCEPT ![r] = Doors!Canceled(req[r])]
         \/ req' = req /\ (req[r].st = "canceled" \/ req[r].late)
      /\ \E answer \in {"handle_taken", "error"} : regCall' = [regCall EXCEPT ![c] = End(answer)]
  <2>1. CASE Doors!ConfirmConflict(c)
    BY <2>1, <1>1 DEF Doors!ConfirmConflict, Doors!Finish
  <2>2. CASE Doors!CancelAfterViolation(c)
    BY <2>2, <1>1, <1>2 DEF Doors!CancelAfterViolation, Doors!Cancelable, Doors!Finish
  <2> QED BY <2>1, <2>2
<1>4. /\ Doors!Canceled(req[r]) \in DoorRow /\ Doors!Canceled(req[r]).st = "canceled"
      /\ Doors!Canceled(req[r]).late = req[r].late
  <2>1. 0 \in 0 .. Doors!MaxId
    BY DoorMaxId
  <2>2. Doors!Canceled(req[r]) = [st |-> "canceled", handle |-> None, id |-> 0, late |-> req[r].late]
    BY CanceledRow
  <2> QED BY <1>1, <2>1, <2>2 DEF DoorRow
<1>5. /\ req' \in [Doors!Requests -> DoorRow] /\ \A s \in Doors!Requests : DoorRowMoves(s)
      /\ req'[r].st # "new" /\ req'[r].st # "confirmed" /\ req'[r].late = req[r].late
      /\ req'[r].st = "canceled" \/ req'[r].late
  <2> DEFINE K == Doors!Canceled(req[r])
  <2>1. CASE req' = [req EXCEPT ![r] = K]
    <3> HIDE DEF K
    <3>1. req' \in [Doors!Requests -> DoorRow] /\ req'[r] = K /\ \A s \in Doors!Requests \ {r} : req'[s] = req[s]
      BY <2>1, <1>1, <1>4 DEF K
    <3>2. \A s \in Doors!Requests : DoorRowMoves(s)
      BY <3>1, <1>2 DEF DoorRowMoves, K
    <3> QED BY <3>1, <3>2, <1>4 DEF K
  <2>2. CASE req' = req /\ (req[r].st = "canceled" \/ req[r].late)
    BY <2>2, <1>2 DEF DoorRowMoves
  <2> QED BY <1>3, <2>1, <2>2
<1>6. ASSUME NEW q \in DoorCall, regCall' = [regCall EXCEPT ![c] = q], q.pc = "done", q.req = r,
             q.sawDone = regCall[c].sawDone, q.inTime = regCall[c].inTime,
             q.answer \in {"handle_taken", "error"}
      PROVE  DoorInv'
  <2>1. /\ q.sawDone => req'[q.req].st = "confirmed"
        /\ ~q.inTime => req'[q.req].late
    BY <1>6, <1>1, <1>2, <1>5
  <2>2. /\ q.answer # "unavailable" /\ q.answer # "confirmed"
        /\ q.answer = "handle_taken" => req'[q.req].st = "canceled" \/ req'[q.req].late
    BY <1>6, <1>5
  <2>3. q.req \in Doors!Requests /\ req'[q.req].st # "new"
    BY <1>1, <1>5, <1>6
  <2> QED BY <1>6, <1>0, <1>5, <2>1, <2>2, <2>3, ConfirmMoves
<1>7. PICK answer \in {"handle_taken", "error"} : regCall' = [regCall EXCEPT ![c] = End(answer)]
  BY <1>3
<1>8. /\ End(answer) \in DoorCall /\ End(answer).pc = "done" /\ End(answer).req = r
      /\ End(answer).sawDone = regCall[c].sawDone /\ End(answer).inTime = regCall[c].inTime
      /\ End(answer).answer = answer
  BY <1>0 DEF DoorCall, Doors!Answers
<1> HIDE DEF End
<1> QED BY <1>6, <1>7, <1>8

\* What the step that makes a resident finds and does.
LEMMA InsertNumber ==
  ASSUME DoorInv, NEW r \in Doors!Requests, req[r].st # "confirmed"
  PROVE  LET n == Doors!NextId(lastId)
             Confirmed == {s \in Doors!Requests : req[s].st = "confirmed"}
         IN  /\ n \in 0 .. Doors!MaxId /\ n > lastId /\ n # 4 /\ n # 0
             /\ (Settled + 1 .. n) \ {4} = ((Settled + 1 .. lastId) \ {4}) \cup {n}
             /\ Settled <= n
             /\ n <= Settled + Cardinality(Confirmed \cup {r}) + (IF n > 4 THEN 1 ELSE 0)
<1> DEFINE n == Doors!NextId(lastId)
           Confirmed == {s \in Doors!Requests : req[s].st = "confirmed"}
<1>1. /\ IsFiniteSet(Confirmed) /\ IsFiniteSet(Confirmed \cup {r})
      /\ Cardinality(Confirmed \cup {r}) = Cardinality(Confirmed) + 1
      /\ Cardinality(Confirmed) \in Nat
      /\ Cardinality(Confirmed \cup {r}) <= Cardinality(Doors!Requests)
  <2>1. IsFiniteSet(Confirmed) /\ r \notin Confirmed /\ Confirmed \cup {r} \subseteq Doors!Requests
    BY DoorMaxId, FS_Subset
  <2> HIDE DEF Confirmed
  <2> QED BY <2>1, DoorMaxId, FS_AddElement, FS_Subset, FS_CardinalityType
<1>2. lastId \in Nat /\ Settled \in Nat /\ Settled <= lastId
      /\ lastId <= Settled + Cardinality(Confirmed) + (IF lastId > 4 THEN 1 ELSE 0)
  BY DoorTyped, DoorAssumption, DoorMaxId DEF DoorInv, NumbersCounted
<1> HIDE DEF Confirmed
<1>3. /\ n \in Nat /\ n > lastId /\ n # 4 /\ n # 0 /\ Settled <= n
      /\ n <= Settled + Cardinality(Confirmed) + 1 + (IF n > 4 THEN 1 ELSE 0)
      /\ n = lastId + 1 \/ (n = 5 /\ lastId = 3)
  BY <1>1, <1>2 DEF Doors!NextId
<1> HIDE DEF n
<1>4. n <= Doors!MaxId
  BY <1>1, <1>2, <1>3, DoorMaxId
<1>5. (Settled + 1 .. n) \ {4} = ((Settled + 1 .. lastId) \ {4}) \cup {n}
  BY <1>2, <1>3
<1>6. n \in 0 .. Doors!MaxId /\ n <= Settled + Cardinality(Confirmed \cup {r}) + (IF n > 4 THEN 1 ELSE 0)
  <2>1. Doors!MaxId \in Nat
    BY DoorMaxId
  <2>2. n \in 0 .. Doors!MaxId
    BY <1>3, <1>4, <2>1
  <2>3. Cardinality(Confirmed \cup {r}) = Cardinality(Confirmed) + 1 /\ Cardinality(Confirmed) \in Nat
    BY <1>1
  <2> HIDE DEF Confirmed
  <2> QED BY <1>2, <1>3, <2>2, <2>3
<1> QED BY <1>3, <1>5, <1>6 DEF n, Confirmed

LEMMA ConfirmInsertKeeps ==
  ASSUME DoorInv, NEW c \in Confirmers, Doors!ConfirmInsert(c)
  PROVE  DoorInv'
<1> DEFINE r == regCall[c].req
           h == req[r].handle
           n == Doors!NextId(lastId)
           R == [st |-> "confirmed", handle |-> None, id |-> n, late |-> req[r].late]
           Q == [regCall[c] EXCEPT !.pc = "done", !.answer = "confirmed"]
<1>1. /\ req \in [Doors!Requests -> DoorRow] /\ regCall \in [Confirmers -> DoorCall]
      /\ resident \in [Handles -> 0 .. Doors!MaxId] /\ lastId \in 0 .. Doors!MaxId
      /\ ConfirmFollows(c) /\ regCall[c] \in DoorCall
  BY DoorTyped
<1>2. /\ regCall[c].pc = "open" /\ req[r].st = "staged" /\ regCall[c].inTime
      /\ resident[h] = 0 /\ lastId' = n
      /\ resident' = [resident EXCEPT ![h] = n]
      /\ req' = [req EXCEPT ![r] = R]
      /\ regCall' = [regCall EXCEPT ![c] = Q]
  <2>1. R = [Doors!NewReq EXCEPT !.st = "confirmed", !.id = n, !.late = req[r].late]
    BY ConfirmedRow
  <2> HIDE DEF R
  <2>2. req' = [req EXCEPT ![r] = R] /\ lastId' = n /\ resident' = [resident EXCEPT ![h] = n]
    BY <2>1 DEF Doors!ConfirmInsert
  <2>3. regCall' = [regCall EXCEPT ![c] = Q]
    BY DEF Doors!ConfirmInsert, Doors!Finish
  <2>4. regCall[c].pc = "open" /\ req[r].st = "staged" /\ regCall[c].inTime /\ resident[h] = 0
    BY DEF Doors!ConfirmInsert, Doors!Active, Doors!NameFree, Doors!Taken
  <2> QED BY <2>2, <2>3, <2>4
<1>3. r \in Doors!Requests /\ regCall[c].answer = "none" /\ req[r] \in DoorRow
  BY <1>1, <1>2 DEF ConfirmFollows
<1>4. h \in Handles /\ req[r].id = 0
  BY <1>2, <1>3, DoorTyped DEF DoorRow
<1>5. /\ n \in 0 .. Doors!MaxId /\ n > lastId /\ n # 4 /\ n # 0
      /\ (Settled + 1 .. n) \ {4} = ((Settled + 1 .. lastId) \ {4}) \cup {n}
      /\ Settled <= n
      /\ n <= Settled + Cardinality({s \in Doors!Requests : req[s].st = "confirmed"} \cup {r})
              + (IF n > 4 THEN 1 ELSE 0)
  BY <1>2, <1>3, InsertNumber
<1> HIDE DEF n
<1>6. R \in DoorRow /\ R.st = "confirmed" /\ R.handle = None /\ R.id = n /\ R.late = req[r].late
  BY <1>3, <1>5 DEF DoorRow
<1>7. /\ Q \in DoorCall /\ Q.pc = "done" /\ Q.answer = "confirmed" /\ Q.req = r
      /\ Q.inTime = regCall[c].inTime
  BY <1>1 DEF DoorCall, Doors!Answers
<1> HIDE DEF R, Q
<1>8. /\ req' \in [Doors!Requests -> DoorRow] /\ req'[r] = R
      /\ \A s \in Doors!Requests \ {r} : req'[s] = req[s]
      /\ resident' \in [Handles -> 0 .. Doors!MaxId] /\ resident'[h] = n
      /\ \A g \in Handles \ {h} : resident'[g] = resident[g]
      /\ regCall' \in [Confirmers -> DoorCall] /\ regCall'[c] = Q
      /\ \A d \in Confirmers \ {c} : regCall'[d] = regCall[d]
  BY <1>1, <1>2, <1>3, <1>4, <1>5, <1>6, <1>7
<1>9. Doors!TypeOK'
  <2>1. ASSUME NEW s \in Doors!Requests
        PROVE  /\ req'[s].handle # None <=> req'[s].st = "staged"
               /\ req'[s].id # 0 <=> req'[s].st = "confirmed"
    BY <1>5, <1>6, <1>8, DoorTyped
  <2> QED BY <1>2, <1>5, <1>8, <2>1 DEF Doors!TypeOK, DoorRow, DoorCall
<1>10. NumbersGivenOnce'
  <2>1. lastId \in Nat /\ n \in Nat /\ \A g \in Handles : resident[g] \in Nat /\ resident[g] <= lastId
    BY <1>1, <1>5, DoorMaxId DEF DoorInv, NumbersGivenOnce
  <2>2. \A s \in Doors!Requests : req[s].id \in Nat /\ req[s].id <= lastId
    BY <1>1, DoorMaxId DEF DoorInv, NumbersGivenOnce, DoorRow
  <2>3. /\ \A g \in Handles : resident'[g] <= n /\ (resident'[g] = n => g = h)
        /\ \A s \in Doors!Requests : req'[s].id <= n /\ (req'[s].id = n => s = r)
    BY <1>5, <1>6, <1>8, <2>1, <2>2
  <2>4. ASSUME NEW f \in Handles, NEW g \in Handles, resident'[f] # 0, resident'[f] = resident'[g]
        PROVE  f = g
    BY <1>8, <2>3, <2>4 DEF DoorInv, NumbersGivenOnce, Doors!Taken
  <2>5. ASSUME NEW s \in Doors!Requests, NEW t \in Doors!Requests, req'[s].id # 0, req'[s].id = req'[t].id
        PROVE  s = t
    BY <1>6, <1>8, <2>3, <2>5 DEF DoorInv, NumbersGivenOnce
  <2>6. ASSUME NEW s \in Doors!Requests, req'[s].id # 0
        PROVE  \E g \in Handles : resident'[g] = req'[s].id
    <3>1. CASE s = r
      BY <3>1, <1>4, <1>6, <1>8
    <3>2. CASE s # r
      <4>1. PICK g \in Handles : resident[g] = req[s].id
        BY <3>2, <2>6, <1>8 DEF DoorInv, NumbersGivenOnce
      <4>2. g # h
        BY <4>1, <3>2, <2>6, <1>2, <1>8
      <4> QED BY <4>1, <4>2, <3>2, <1>8
    <3> QED BY <3>1, <3>2
  <2>7. ASSUME NEW g \in Handles, resident'[g] # 0
        PROVE  \E s \in Doors!Requests : req'[s].id = resident'[g]
    <3>1. CASE g = h
      BY <3>1, <1>3, <1>6, <1>8
    <3>2. CASE g # h
      <4>1. PICK s \in Doors!Requests : req[s].id = resident[g]
        BY <3>2, <2>7, <1>8 DEF DoorInv, NumbersGivenOnce, Doors!Taken
      <4>2. s # r
        BY <4>1, <3>2, <2>7, <1>4, <1>8
      <4> QED BY <4>1, <4>2, <3>2, <1>8
    <3> QED BY <3>1, <3>2
  <2> QED BY <1>2, <2>3, <2>4, <2>5, <2>6, <2>7 DEF NumbersGivenOnce, Doors!Taken
<1>11. NumbersCounted'
  <2>1. {s \in Doors!Requests : req'[s].st = "confirmed"}
          = {s \in Doors!Requests : req[s].st = "confirmed"} \cup {r}
    BY <1>3, <1>6, <1>8
  <2> QED BY <1>2, <1>5, <2>1 DEF NumbersCounted
<1>12. Doors!NumbersDense'
  <2>1. {resident'[g] : g \in {f \in Handles : resident'[f] # 0}}
          = {resident[g] : g \in {f \in Handles : resident[f] # 0}} \cup {n}
    BY <1>2, <1>4, <1>5, <1>8
  <2>2. {resident[g] : g \in {f \in Handles : resident[f] # 0}} = (Settled + 1 .. lastId) \ {4}
    BY DEF DoorInv, Doors!NumbersDense, Doors!Taken
  <2> QED BY <1>2, <1>5, <2>1, <2>2 DEF Doors!NumbersDense, Doors!Taken
<1>13. DoorOnward
  BY <1>2, <1>3, <1>4, <1>5, <1>6, <1>8 DEF DoorOnward, Doors!Taken
<1>14. ASSUME NEW d \in Confirmers PROVE ConfirmFollows(d)'
  <2>1. CASE d # c
    BY <2>1, <1>8, <1>13, ConfirmStays
  <2>2. CASE d = c
    <3>1. regCall'[d] = Q /\ req'[Q.req].st = "confirmed"
      BY <2>2, <1>6, <1>7, <1>8
    <3> QED BY <3>1, <1>2, <1>3, <1>7 DEF ConfirmFollows
  <2> QED BY <2>1, <2>2
<1> QED BY <1>9, <1>10, <1>11, <1>12, <1>14 DEF DoorInv

LEMMA DoorStep == DoorInv /\ [Doors!Next]_doorVars => DoorInv'
<1> SUFFICES ASSUME DoorInv, [Doors!Next]_doorVars PROVE DoorInv'
  OBVIOUS
<1>1. CASE UNCHANGED doorVars
  <2>1. Doors!TypeOK' /\ NobodyNew /\ DoorOnward /\ \A c \in Confirmers : regCall'[c] = regCall[c]
    BY <1>1 DEF doorVars, DoorInv, Doors!TypeOK, NobodyNew, DoorOnward, Doors!Taken
  <2> QED BY <2>1, NobodyNewKeeps
<1>2. CASE Doors!createAuthorizationRequest
  <2>1. /\ req' = [s \in Doors!Requests |-> req'[s]] /\ UNCHANGED <<resident, lastId, regCall>>
        /\ regCall \in [Confirmers -> DoorCall]
    BY <1>2, DoorTyped DEF Doors!createAuthorizationRequest, Doors!ClearExpired
  <2>2. \A s \in Doors!Requests : DoorRowMoves(s)
    BY <1>2 DEF Doors!createAuthorizationRequest, Doors!ClearExpired, DoorRowMoves
  <2> QED BY <2>1, <2>2, DoorRowsMove
<1>3. CASE \E r \in Doors!Requests : Doors!Cancel(r) \/ Doors!StageExpires(r)
  <2>1. PICK r \in Doors!Requests : Doors!Cancel(r) \/ Doors!StageExpires(r)
    BY <1>3
  <2>2. /\ req' = [s \in Doors!Requests |-> req'[s]] /\ UNCHANGED <<resident, lastId, regCall>>
        /\ regCall \in [Confirmers -> DoorCall]
    BY <2>1, DoorTyped DEF Doors!Cancel, Doors!StageExpires
  <2>3. \A s \in Doors!Requests : DoorRowMoves(s)
    BY <2>1, DoorTyped DEF Doors!Cancel, Doors!Cancelable, Doors!StageExpires, DoorRowMoves
  <2> QED BY <2>2, <2>3, DoorRowsMove
<1>4. CASE \E r \in Doors!Requests, h \in Handles :
             Doors!stageResidentRegistration(r, h) \/ Doors!stageNewResidentRegistration(r, h)
  BY <1>4, DoorRowSteps
<1>5. CASE \E c \in Confirmers, r \in Doors!Requests : Doors!ConfirmOpen(c, r)
  BY <1>5, ConfirmOpenKeeps
<1>6. CASE \E c \in Confirmers :
             \/ Doors!ConfirmConflict(c) \/ Doors!ConfirmInsert(c) \/ Doors!ConfirmViolates(c)
             \/ Doors!ConfirmUnavailable(c) \/ Doors!Reread(c) \/ Doors!CancelAfterViolation(c)
             \/ Doors!Crash(c)
  BY <1>6, ConfirmRefusedKeeps, ConfirmInsertKeeps, ConfirmQuietKeeps
<1> QED BY <1>1, <1>2, <1>3, <1>4, <1>5, <1>6 DEF Doors!Next

LEMMA DoorSafety ==
  DoorInv => Doors!TypeOK /\ Doors!RegistrationIsExact /\ Doors!AnswersAgree
<1> SUFFICES ASSUME DoorInv PROVE Doors!TypeOK /\ Doors!RegistrationIsExact /\ Doors!AnswersAgree
  OBVIOUS
<1>1. ASSUME NEW r \in Doors!Requests, req[r].st = "confirmed"
      PROVE  Doors!Cardinality({h \in Handles : resident[h] = req[r].id}) = 1
  <2>1. req[r].id # 0
    BY <1>1, DoorTyped
  <2>2. PICK h \in Handles : resident[h] = req[r].id
    BY <2>1 DEF DoorInv, NumbersGivenOnce
  <2>3. {g \in Handles : resident[g] = req[r].id} = {h}
    BY <2>1, <2>2 DEF DoorInv, NumbersGivenOnce, Doors!Taken
  <2> QED BY <2>3, FS_Singleton, DoorCardinality
<1>2. ASSUME NEW h \in Handles, Doors!Taken(h)
      PROVE  Doors!Cardinality({r \in Doors!Requests : req[r].id = resident[h]}) = 1
  <2>1. PICK r \in Doors!Requests : req[r].id = resident[h]
    BY <1>2 DEF DoorInv, NumbersGivenOnce
  <2>2. {s \in Doors!Requests : req[s].id = resident[h]} = {r}
    BY <1>2, <2>1 DEF DoorInv, NumbersGivenOnce, Doors!Taken
  <2> QED BY <2>2, FS_Singleton, DoorCardinality
<1>3. Doors!RegistrationIsExact
  BY <1>1, <1>2 DEF DoorInv, Doors!RegistrationIsExact, Doors!OneResidentPerRequest
<1>4. Doors!AnswersAgree
  BY DEF DoorInv, ConfirmFollows, Doors!AnswersAgree, Doors!AnswersTrue, Doors!RepeatAgrees
<1> QED BY <1>3, <1>4 DEF DoorInv

-----------------------------------------------------------------------------
(* IdentityLocks: the inductive invariant                                  *)

LockCall == [pc : {"idle", "own", "resident", "rows", "done"}, tries : 1 .. 2,
             result : {"none", "won", "unavailable", "error"}]

\* Who holds the resident row goes on to the staged rows, and nobody else does; a staged
\* row is held by its own confirmation or by the holder of the resident row; and a
\* confirmation that goes on holds its row, which is still staged.
LocksHeld ==
  /\ \A t \in Locks!Callers : lockCall[t].pc = "rows" <=> rowLock[Resident] = t
  /\ \A s \in Staged : rowLock[s] # None => rowLock[s] = s \/ lockCall[rowLock[s]].pc = "rows"
  /\ \A t \in Staged : lockCall[t].pc \in {"resident", "rows"} => rowLock[t] = t /\ row[t] = "staged"

\* The queue is who waits for the resident row, each once.
QueueExact ==
  /\ \A i, j \in 1 .. Len(queue) : queue[i] = queue[j] => i = j
  /\ \A i \in 1 .. Len(queue) : lockCall[queue[i]].pc = "resident"
  /\ \A t \in Locks!Callers : lockCall[t].pc = "resident" => \E i \in 1 .. Len(queue) : queue[i] = t

\* The first to win leaves no row staged, and only a winner does.
WonIsOver ==
  /\ \A t \in Locks!Callers : lockCall[t].result = "won" => lockCall[t].pc = "done"
  /\ \A t, s \in Staged : lockCall[t].result = "won" => row[s] # "staged"
  /\ \A t, u \in Staged : lockCall[t].result = "won" /\ lockCall[u].result = "won" => t = u
  /\ (\E s \in Staged : row[s] # "staged") => \E t \in Locks!Callers : lockCall[t].result = "won"
  /\ (\A t \in Locks!Callers : lockCall[t].pc = "done") => \E t \in Locks!Callers : lockCall[t].result = "won"

LocksTyped ==
  /\ queue \in Seq(Locks!Callers) /\ row \in [Staged -> {"staged", "used", "invalid"}]
  /\ rowLock \in [Locks!Rows -> Locks!Callers \cup {None}]
  /\ lockCall \in [Locks!Callers -> LockCall]

\* Only a confirmation begins at a row of its own.
OwnIsStaged == \A t \in Locks!Callers : lockCall[t].pc = "own" => t \in Staged

HoldersGoOn ==
  \A x \in Locks!Rows : rowLock[x] # None => lockCall[rowLock[x]].pc \in {"resident", "rows"}

LockInv == LocksTyped /\ OwnIsStaged /\ HoldersGoOn /\ LocksHeld /\ QueueExact /\ WonIsOver

LEMMA LockNames ==
  /\ Resident \in Locks!Rows /\ \A t \in Staged : t \in Locks!Rows /\ t \in Locks!Callers /\ t # Resident
  /\ \A t \in Locks!Callers : t # None
  /\ Locks!Callers # {} /\ \A x \in Locks!Rows : x = Resident \/ x \in Staged
  /\ \A t \in Locks!Callers : t \in Staged <=> t \notin CodeSets
  BY LockAssumption DEF Locks!Rows, Locks!Callers

LEMMA LockInit == Locks!Init => LockInv
<1> SUFFICES ASSUME Locks!Init PROVE LockInv
  OBVIOUS
<1> USE LockNames DEF Locks!Init
<1>1. LocksTyped
  BY DEF LocksTyped, LockCall
<1>2. HoldersGoOn /\ LocksHeld
  BY DEF HoldersGoOn, LocksHeld
<1>3. QueueExact
  BY DEF QueueExact
<1>4. WonIsOver /\ OwnIsStaged
  BY DEF WonIsOver, OwnIsStaged
<1> QED BY <1>1, <1>2, <1>3, <1>4 DEF LockInv

\* One call moves from the step it is at to q.
LEMMA LockCallMoves ==
  ASSUME LockInv, NEW t \in Locks!Callers, NEW q \in LockCall, lockCall' = [lockCall EXCEPT ![t] = q]
  PROVE  /\ lockCall' \in [Locks!Callers -> LockCall] /\ lockCall'[t] = q
         /\ \A u \in Locks!Callers \ {t} : lockCall'[u] = lockCall[u]
  BY DEF LockInv, LocksTyped

LEMMA OwnKept ==
  ASSUME LockInv, NEW t \in Locks!Callers, \A u \in Locks!Callers \ {t} : lockCall'[u] = lockCall[u],
         lockCall'[t].pc = "own" => t \in Staged
  PROVE  OwnIsStaged'
  BY DEF LockInv, OwnIsStaged

\* Nothing is decided: no row is, and nobody wins or is the last to end.
LEMMA StillOpenKeeps ==
  ASSUME LockInv, row' = row, NEW t \in Locks!Callers, NEW q \in LockCall,
         lockCall' = [lockCall EXCEPT ![t] = q], q.result # "won", lockCall[t].pc # "done",
         q.pc = "done" => \/ \E u \in Locks!Callers \ {t} : lockCall[u].pc # "done"
                          \/ \E s \in Staged : row[s] # "staged"
  PROVE  WonIsOver'
<1>1. /\ lockCall'[t] = q /\ \A u \in Locks!Callers \ {t} : lockCall'[u] = lockCall[u]
  BY LockCallMoves
<1>2. lockCall[t].result # "won"
  BY DEF LockInv, WonIsOver
<1>3. \A u \in Locks!Callers : lockCall'[u].result = "won" <=> lockCall[u].result = "won"
  BY <1>1, <1>2
<1>4. \A u \in Locks!Callers : lockCall'[u].result = "won" => lockCall'[u].pc = "done"
  BY <1>1, <1>3 DEF LockInv, WonIsOver
<1>5. (\E s \in Staged : row[s] # "staged") => \E u \in Locks!Callers : lockCall'[u].result = "won"
  BY <1>3 DEF LockInv, WonIsOver
<1>6. (\A u \in Locks!Callers : lockCall'[u].pc = "done") => \E u \in Locks!Callers : lockCall'[u].result = "won"
  BY <1>1, <1>5
<1> QED BY <1>3, <1>4, <1>5, <1>6, LockNames DEF LockInv, WonIsOver

\* A call joins the queue.
LEMMA QueueGrows ==
  ASSUME LockInv, NEW t \in Locks!Callers, lockCall[t].pc # "resident", lockCall'[t].pc = "resident",
         \A u \in Locks!Callers \ {t} : lockCall'[u] = lockCall[u], queue' = Append(queue, t)
  PROVE  QueueExact' /\ queue' \in Seq(Locks!Callers)
<1>1. queue \in Seq(Locks!Callers) /\ \A i \in 1 .. Len(queue) : queue[i] \in Locks!Callers
  BY DEF LockInv, LocksTyped
<1>2. /\ queue' \in Seq(Locks!Callers) /\ Len(queue') = Len(queue) + 1 /\ queue'[Len(queue) + 1] = t
      /\ \A i \in 1 .. Len(queue) : queue'[i] = queue[i]
  BY <1>1
<1>3. \A i \in 1 .. Len(queue) : queue[i] # t
  BY DEF LockInv, QueueExact
<1>4. Len(queue) \in Nat
  BY <1>1
<1>5. ASSUME NEW i \in 1 .. Len(queue') PROVE (i \in 1 .. Len(queue)) \/ i = Len(queue) + 1
  BY <1>2, <1>4
<1>6. \A i, j \in 1 .. Len(queue') : queue'[i] = queue'[j] => i = j
  BY <1>2, <1>3, <1>5 DEF LockInv, QueueExact
<1>7. \A i \in 1 .. Len(queue') : lockCall'[queue'[i]].pc = "resident"
  BY <1>1, <1>2, <1>3, <1>5 DEF LockInv, QueueExact
<1>8. ASSUME NEW u \in Locks!Callers, lockCall'[u].pc = "resident"
      PROVE  \E i \in 1 .. Len(queue') : queue'[i] = u
  <2>1. CASE u = t
    BY <2>1, <1>2, <1>4
  <2>2. CASE u # t
    <3>1. PICK i \in 1 .. Len(queue) : queue[i] = u
      BY <2>2, <1>8 DEF LockInv, QueueExact
    <3>2. i \in 1 .. Len(queue')
      BY <1>2, <1>4
    <3> QED BY <3>1, <3>2, <1>2
  <2> QED BY <2>1, <2>2
<1> QED BY <1>2, <1>6, <1>7, <1>8 DEF QueueExact

\* The queue without its i-th element, who is t.
LEMMA QueueShrinks ==
  ASSUME LockInv, NEW t \in Locks!Callers, lockCall'[t].pc # "resident",
         \A u \in Locks!Callers \ {t} : lockCall'[u] = lockCall[u],
         NEW i \in 1 .. Len(queue), queue[i] = t, queue' \in Seq(Locks!Callers),
         Len(queue') = Len(queue) - 1,
         \A j \in 1 .. Len(queue') : queue'[j] = IF j < i THEN queue[j] ELSE queue[j + 1]
  PROVE  QueueExact'
<1>1. queue \in Seq(Locks!Callers) /\ Len(queue) \in Nat /\ \A j \in 1 .. Len(queue) : queue[j] \in Locks!Callers
  BY DEF LockInv, LocksTyped
<1> DEFINE At(j) == IF j < i THEN j ELSE j + 1
<1>2. ASSUME NEW j \in 1 .. Len(queue')
      PROVE  At(j) \in 1 .. Len(queue) /\ At(j) # i /\ queue'[j] = queue[At(j)]
  BY <1>1
<1>3. \A j, k \in 1 .. Len(queue') : At(j) = At(k) => j = k
  BY <1>1
<1>4. \A j \in 1 .. Len(queue) : j # i => queue[j] # t
  BY DEF LockInv, QueueExact
<1> HIDE DEF At
<1>5. \A j, k \in 1 .. Len(queue') : queue'[j] = queue'[k] => j = k
  BY <1>2, <1>3 DEF LockInv, QueueExact
<1>6. \A j \in 1 .. Len(queue') : lockCall'[queue'[j]].pc = "resident"
  BY SMTT(30), <1>1, <1>2, <1>4 DEF LockInv, QueueExact
<1>7. ASSUME NEW u \in Locks!Callers, lockCall'[u].pc = "resident"
      PROVE  \E j \in 1 .. Len(queue') : queue'[j] = u
  <2>1. PICK k \in 1 .. Len(queue) : queue[k] = u /\ k # i
    BY <1>7 DEF LockInv, QueueExact
  <2>2. CASE k < i
    <3>1. k \in 1 .. Len(queue') /\ At(k) = k
      BY <1>1, <2>2 DEF At
    <3> QED BY <2>1, <3>1, <1>2
  <2>3. CASE k > i
    <3>1. k - 1 \in 1 .. Len(queue') /\ At(k - 1) = k
      BY <1>1, <2>3 DEF At
    <3> QED BY <2>1, <3>1, <1>2
  <2> QED BY <1>1, <2>1, <2>2, <2>3
<1> QED BY <1>5, <1>6, <1>7 DEF QueueExact

\* Nobody joins or leaves the queue.
LEMMA QueueStays ==
  ASSUME LockInv, queue' = queue,
         \A u \in Locks!Callers : lockCall'[u].pc = "resident" <=> lockCall[u].pc = "resident"
  PROVE  QueueExact'
<1>1. \A i \in 1 .. Len(queue) : queue[i] \in Locks!Callers
  BY DEF LockInv, LocksTyped
<1> QED BY <1>1 DEF LockInv, QueueExact

LEMMA BeginKeeps ==
  ASSUME LockInv, NEW t \in Locks!Callers, Locks!Begin(t)
  PROVE  LockInv'
<1> USE LockNames
<1> DEFINE q == [lockCall[t] EXCEPT !.pc = Locks!First(t)]
<1>1. /\ lockCall[t].pc = "idle" /\ lockCall[t] \in LockCall /\ UNCHANGED <<row, rowLock>>
      /\ lockCall' = [lockCall EXCEPT ![t] = q]
  BY DEF Locks!Begin, LockInv, LocksTyped
<1>2. /\ q \in LockCall /\ q.result = lockCall[t].result
      /\ q.pc = IF t \in Staged THEN "own" ELSE "resident"
  BY <1>1 DEF LockCall, Locks!First
<1> HIDE DEF q
<1>3. /\ lockCall' \in [Locks!Callers -> LockCall] /\ lockCall'[t] = q
      /\ \A u \in Locks!Callers \ {t} : lockCall'[u] = lockCall[u]
  BY <1>1, <1>2, LockCallMoves
<1>4. q.result # "won"
  BY <1>1, <1>2 DEF LockInv, WonIsOver
<1>5. WonIsOver'
  BY <1>1, <1>2, <1>4, StillOpenKeeps
<1>6. QueueExact' /\ queue' \in Seq(Locks!Callers)
  <2>1. CASE t \in CodeSets
    BY <2>1, <1>1, <1>2, <1>3, QueueGrows DEF Locks!Begin
  <2>2. CASE t \notin CodeSets
    <3>1. queue' = queue
      BY <2>2 DEF Locks!Begin
    <3> QED BY <2>2, <3>1, <1>1, <1>2, <1>3, QueueStays DEF LockInv, LocksTyped
  <2> QED BY <2>1, <2>2
<1>7. \A x \in Locks!Rows : rowLock[x] # t
  BY <1>1 DEF LockInv, HoldersGoOn
<1>8. \A x \in Locks!Rows : rowLock[x] # None => rowLock[x] \in Locks!Callers
  BY DEF LockInv, LocksTyped
<1>9. HoldersGoOn' /\ LocksHeld'
  <2>1. HoldersGoOn'
    BY <1>1, <1>3, <1>7, <1>8 DEF LockInv, HoldersGoOn
  <2>2. \A u \in Locks!Callers : lockCall'[u].pc = "rows" <=> rowLock'[Resident] = u
    BY <1>1, <1>2, <1>3, <1>7 DEF LockInv, LocksHeld
  <2>3. \A s \in Staged : rowLock'[s] # None => rowLock'[s] = s \/ lockCall'[rowLock'[s]].pc = "rows"
    BY <1>1, <1>3, <1>7, <1>8 DEF LockInv, LocksHeld
  <2>4. \A u \in Staged : lockCall'[u].pc \in {"resident", "rows"} => rowLock'[u] = u /\ row'[u] = "staged"
    BY <1>1, <1>2, <1>3 DEF LockInv, LocksHeld
  <2> QED BY <2>1, <2>2, <2>3, <2>4 DEF LocksHeld
<1>10. LocksTyped'
  BY <1>1, <1>3, <1>6 DEF LockInv, LocksTyped
<1>11. OwnIsStaged'
  BY <1>2, <1>3, OwnKept
<1> QED BY <1>5, <1>6, <1>9, <1>10, <1>11 DEF LockInv

LEMMA LockOwnKeeps ==
  ASSUME LockInv, NEW t \in Locks!Callers, Locks!LockOwn(t)
  PROVE  LockInv'
<1> USE LockNames
<1>00. lockCall[t].pc = "own" /\ t \in Staged
  BY DEF Locks!LockOwn, Locks!CanLockOwn, LockInv, OwnIsStaged
<1>0. /\ lockCall[t].pc = "own" /\ rowLock[t] = None /\ t \in Staged /\ row' = row /\ lockCall[t] \in LockCall
      /\ \A x \in Locks!Rows : rowLock[x] # None => rowLock[x] \in Locks!Callers
  BY <1>00 DEF Locks!LockOwn, Locks!CanLockOwn, LockInv, LocksTyped
<1>1. \A x \in Locks!Rows : rowLock[x] # t
  BY <1>0 DEF LockInv, HoldersGoOn
<1>2. lockCall[t].result # "won"
  BY <1>0 DEF LockInv, WonIsOver
<1>3. CASE /\ row[t] = "staged" /\ rowLock' = [rowLock EXCEPT ![t] = t]
           /\ lockCall' = [lockCall EXCEPT ![t].pc = "resident"] /\ queue' = Append(queue, t)
  <2> DEFINE q == [lockCall[t] EXCEPT !.pc = "resident"]
  <2>1. lockCall' = [lockCall EXCEPT ![t] = q]
    BY <1>3
  <2>2. q \in LockCall /\ q.result = lockCall[t].result /\ q.pc = "resident"
    BY <1>0 DEF LockCall
  <2> HIDE DEF q
  <2>3. /\ lockCall' \in [Locks!Callers -> LockCall] /\ lockCall'[t] = q
        /\ \A u \in Locks!Callers \ {t} : lockCall'[u] = lockCall[u]
    BY <2>1, <2>2, LockCallMoves
  <2>4. WonIsOver'
    BY <1>0, <1>2, <2>1, <2>2, StillOpenKeeps
  <2>5. QueueExact' /\ queue' \in Seq(Locks!Callers)
    BY <1>0, <1>3, <2>2, <2>3, QueueGrows
  <2>6. /\ rowLock' \in [Locks!Rows -> Locks!Callers \cup {None}] /\ rowLock'[t] = t
        /\ \A x \in Locks!Rows \ {t} : rowLock'[x] = rowLock[x]
    BY <1>0, <1>3 DEF LockInv, LocksTyped
  <2>7. HoldersGoOn'
    BY <1>0, <1>1, <2>2, <2>3, <2>6 DEF LockInv, HoldersGoOn
  <2>8. LocksHeld'
    <3>1. \A u \in Locks!Callers : lockCall'[u].pc = "rows" <=> rowLock'[Resident] = u
      BY <1>0, <1>1, <2>2, <2>3, <2>6 DEF LockInv, LocksHeld
    <3>2. \A s \in Staged : rowLock'[s] # None => rowLock'[s] = s \/ lockCall'[rowLock'[s]].pc = "rows"
      BY <1>0, <1>1, <2>3, <2>6 DEF LockInv, LocksHeld
    <3>3. \A u \in Staged : lockCall'[u].pc \in {"resident", "rows"} => rowLock'[u] = u /\ row'[u] = "staged"
      BY <1>0, <1>3, <2>3, <2>6 DEF LockInv, LocksHeld
    <3> QED BY <3>1, <3>2, <3>3 DEF LocksHeld
  <2>9. LocksTyped'
    BY <1>0, <2>3, <2>5, <2>6 DEF LockInv, LocksTyped
  <2>10. OwnIsStaged'
    BY <2>2, <2>3, OwnKept
  <2> QED BY <2>4, <2>5, <2>7, <2>8, <2>9, <2>10 DEF LockInv
<1>4. CASE /\ row[t] # "staged" /\ UNCHANGED <<rowLock, queue>>
           /\ lockCall' = [lockCall EXCEPT ![t].pc = "done", ![t].result = "unavailable"]
  <2> DEFINE q == [lockCall[t] EXCEPT !.pc = "done", !.result = "unavailable"]
  <2>1. lockCall' = [lockCall EXCEPT ![t] = q]
    BY <1>4
  <2>2. q \in LockCall /\ q.result = "unavailable" /\ q.pc = "done"
    BY <1>0 DEF LockCall
  <2> HIDE DEF q
  <2>3. /\ lockCall' \in [Locks!Callers -> LockCall] /\ lockCall'[t] = q
        /\ \A u \in Locks!Callers \ {t} : lockCall'[u] = lockCall[u]
    BY <2>1, <2>2, LockCallMoves
  <2>4. WonIsOver'
    BY <1>0, <1>2, <1>4, <2>1, <2>2, StillOpenKeeps
  <2>5. QueueExact'
    BY <1>0, <1>4, <2>2, <2>3, QueueStays
  <2>6. HoldersGoOn'
    BY <1>0, <1>1, <1>4, <2>3 DEF LockInv, HoldersGoOn
  <2>7. LocksHeld'
    <3>1. \A u \in Locks!Callers : lockCall'[u].pc = "rows" <=> rowLock'[Resident] = u
      BY <1>1, <1>4, <2>2, <2>3 DEF LockInv, LocksHeld
    <3>2. \A s \in Staged : rowLock'[s] # None => rowLock'[s] = s \/ lockCall'[rowLock'[s]].pc = "rows"
      BY <1>0, <1>1, <1>4, <2>3 DEF LockInv, LocksHeld
    <3>3. \A u \in Staged : lockCall'[u].pc \in {"resident", "rows"} => rowLock'[u] = u /\ row'[u] = "staged"
      BY <1>0, <1>4, <2>2, <2>3 DEF LockInv, LocksHeld
    <3> QED BY <3>1, <3>2, <3>3 DEF LocksHeld
  <2>8. LocksTyped'
    BY <1>0, <1>4, <2>3 DEF LockInv, LocksTyped
  <2>9. OwnIsStaged'
    BY <2>2, <2>3, OwnKept
  <2> QED BY <2>4, <2>5, <2>6, <2>7, <2>8, <2>9 DEF LockInv
<1> QED BY <1>3, <1>4 DEF Locks!LockOwn, Locks!StillStaged

LEMMA LockResidentKeeps ==
  ASSUME LockInv, NEW t \in Locks!Callers, Locks!LockResident(t)
  PROVE  LockInv'
<1> USE LockNames
<1> DEFINE q == [lockCall[t] EXCEPT !.pc = "rows"]
<1>0. /\ lockCall[t].pc = "resident" /\ rowLock[Resident] = None /\ Head(queue) = t /\ row' = row
      /\ queue' = Tail(queue) /\ rowLock' = [rowLock EXCEPT ![Resident] = t]
      /\ lockCall' = [lockCall EXCEPT ![t] = q]
  BY DEF Locks!LockResident, Locks!CanLockResident
<1>1. q \in LockCall /\ q.result = lockCall[t].result /\ q.pc = "rows"
  <2>1. lockCall[t] \in LockCall
    BY DEF LockInv, LocksTyped
  <2> QED BY <2>1 DEF LockCall
<1> HIDE DEF q
<1>2. /\ lockCall' \in [Locks!Callers -> LockCall] /\ lockCall'[t] = q
      /\ \A u \in Locks!Callers \ {t} : lockCall'[u] = lockCall[u]
  BY <1>0, <1>1, LockCallMoves
<1>3. WonIsOver'
  <2>1. q.result # "won" /\ q.pc # "done" /\ lockCall[t].pc # "done"
    BY <1>0, <1>1 DEF LockInv, WonIsOver
  <2> QED BY <1>0, <1>1, <2>1, StillOpenKeeps
<1>4. queue' \in Seq(Locks!Callers) /\ QueueExact'
  <2>1. queue \in Seq(Locks!Callers) /\ \E i \in 1 .. Len(queue) : queue[i] = t
    BY <1>0 DEF LockInv, LocksTyped, QueueExact
  <2>2. queue # << >> /\ 1 \in 1 .. Len(queue) /\ queue[1] = t
    BY <1>0, <2>1
  <2>3. /\ queue' \in Seq(Locks!Callers) /\ Len(queue') = Len(queue) - 1
        /\ \A j \in 1 .. Len(queue') : queue'[j] = IF j < 1 THEN queue[j] ELSE queue[j + 1]
    BY <1>0, <2>1, <2>2
  <2> QED BY <1>1, <1>2, <2>2, <2>3, QueueShrinks
<1>5. /\ rowLock' \in [Locks!Rows -> Locks!Callers \cup {None}] /\ rowLock'[Resident] = t
      /\ \A x \in Locks!Rows \ {Resident} : rowLock'[x] = rowLock[x]
  BY <1>0 DEF LockInv, LocksTyped
<1>6. \A u \in Locks!Callers : lockCall[u].pc # "rows"
  BY <1>0 DEF LockInv, LocksHeld
<1>7. HoldersGoOn'
  BY <1>0, <1>1, <1>2, <1>5 DEF LockInv, LocksTyped, HoldersGoOn
<1>8. LocksHeld'
  <2>1. \A u \in Locks!Callers : lockCall'[u].pc = "rows" <=> rowLock'[Resident] = u
    BY <1>1, <1>2, <1>5, <1>6
  <2>2. \A s \in Staged : rowLock'[s] # None => rowLock'[s] = s \/ lockCall'[rowLock'[s]].pc = "rows"
    BY <1>1, <1>2, <1>5 DEF LockInv, LocksTyped, LocksHeld
  <2>3. \A u \in Staged : lockCall'[u].pc \in {"resident", "rows"} => rowLock'[u] = u /\ row'[u] = "staged"
    BY <1>0, <1>2, <1>5 DEF LockInv, LocksHeld
  <2> QED BY <2>1, <2>2, <2>3 DEF LocksHeld
<1>9. LocksTyped'
  BY <1>0, <1>2, <1>4, <1>5 DEF LockInv, LocksTyped
<1>10. OwnIsStaged'
  BY <1>1, <1>2, OwnKept
<1> QED BY <1>3, <1>4, <1>7, <1>8, <1>9, <1>10 DEF LockInv

LEMMA LockRowKeeps ==
  ASSUME LockInv, NEW t \in Locks!Callers, NEW s \in Staged, Locks!LockRow(t, s)
  PROVE  LockInv'
<1> USE LockNames
<1>1. /\ lockCall[t].pc = "rows" /\ rowLock[s] = None /\ UNCHANGED <<row, queue, lockCall>>
      /\ rowLock' = [rowLock EXCEPT ![s] = t]
  BY DEF Locks!LockRow, Locks!CanLockRow
<1>2. /\ rowLock' \in [Locks!Rows -> Locks!Callers \cup {None}] /\ rowLock'[s] = t
      /\ \A x \in Locks!Rows \ {s} : rowLock'[x] = rowLock[x]
  BY <1>1 DEF LockInv, LocksTyped
<1>3. HoldersGoOn' /\ LocksHeld'
  BY <1>1, <1>2 DEF LockInv, HoldersGoOn, LocksHeld
<1>4. QueueExact' /\ WonIsOver' /\ LocksTyped' /\ OwnIsStaged'
  BY <1>1, <1>2 DEF LockInv, QueueExact, WonIsOver, LocksTyped, OwnIsStaged
<1> QED BY <1>3, <1>4 DEF LockInv

\* A transaction ends and its rows go to whoever waits for them.
LEMMA ReleasedKeeps ==
  ASSUME LockInv, NEW t \in Locks!Callers, rowLock' = Locks!Released(t),
         lockCall'[t].pc \notin {"resident", "rows"},
         \A u \in Locks!Callers \ {t} : lockCall'[u] = lockCall[u],
         \A u \in Staged \ {t} : lockCall[u].pc \in {"resident", "rows"} => row'[u] = row[u]
  PROVE  HoldersGoOn' /\ LocksHeld' /\ rowLock' \in [Locks!Rows -> Locks!Callers \cup {None}]
<1> USE LockNames
<1>0. \A x \in Locks!Rows : rowLock[x] \in Locks!Callers \cup {None}
  BY DEF LockInv, LocksTyped
<1>1. ASSUME NEW x \in Locks!Rows
      PROVE  \/ rowLock'[x] = rowLock[x] /\ rowLock[x] # t
             \/ rowLock'[x] = None /\ rowLock[x] = t
             \/ rowLock'[x] = rowLock[Resident] /\ rowLock[Resident] # t /\ x # Resident /\ rowLock[x] = t
  BY DEF Locks!Released
<1>2. rowLock' \in [Locks!Rows -> Locks!Callers \cup {None}]
  BY <1>0 DEF Locks!Released
<1>3. rowLock[Resident] # None => lockCall[rowLock[Resident]].pc = "rows"
  BY <1>0 DEF LockInv, LocksHeld
<1>4. HoldersGoOn'
  BY <1>0, <1>1, <1>3 DEF LockInv, HoldersGoOn
<1>5. \A u \in Locks!Callers : lockCall'[u].pc = "rows" <=> rowLock'[Resident] = u
  BY <1>1 DEF LockInv, LocksHeld
<1>6. ASSUME NEW s \in Staged, rowLock'[s] # None
      PROVE  rowLock'[s] = s \/ lockCall'[rowLock'[s]].pc = "rows"
  BY <1>0, <1>1, <1>3, <1>6 DEF LockInv, LocksHeld
<1>7. ASSUME NEW u \in Staged, lockCall'[u].pc \in {"resident", "rows"}
      PROVE  rowLock'[u] = u /\ row'[u] = "staged"
  BY <1>1, <1>7 DEF LockInv, LocksHeld
<1>8. LocksHeld'
  BY <1>5, <1>6, <1>7 DEF LocksHeld
<1> QED BY <1>2, <1>4, <1>8

LEMMA CommitKeeps ==
  ASSUME LockInv, NEW t \in Locks!Callers, Locks!Commit(t)
  PROVE  LockInv'
<1> USE LockNames
<1> DEFINE q == [lockCall[t] EXCEPT !.pc = "done", !.result = "won"]
<1>0. /\ lockCall[t].pc = "rows" /\ Locks!Ahead(t) = {} /\ queue' = queue
      /\ rowLock' = Locks!Released(t) /\ lockCall' = [lockCall EXCEPT ![t] = q]
      /\ row' = [s \in Staged |-> IF s = t THEN "used"
                                  ELSE IF row[s] = "staged" THEN "invalid" ELSE row[s]]
  BY DEF Locks!Commit, Locks!CanCommit
<1>1. q \in LockCall /\ q.result = "won" /\ q.pc = "done"
  <2>1. lockCall[t] \in LockCall
    BY DEF LockInv, LocksTyped
  <2> QED BY <2>1 DEF LockCall
<1> HIDE DEF q
<1>2. /\ lockCall' \in [Locks!Callers -> LockCall] /\ lockCall'[t] = q
      /\ \A u \in Locks!Callers \ {t} : lockCall'[u] = lockCall[u]
  BY <1>0, <1>1, LockCallMoves
<1>3. \A s \in Staged : row[s] = "staged" => rowLock[s] = t
  BY <1>0 DEF Locks!Ahead
<1>4. \A u \in Staged \ {t} : lockCall[u].pc \notin {"resident", "rows"}
  BY <1>3 DEF LockInv, LocksHeld
<1>5. HoldersGoOn' /\ LocksHeld' /\ rowLock' \in [Locks!Rows -> Locks!Callers \cup {None}]
  BY <1>0, <1>1, <1>2, <1>4, ReleasedKeeps
<1>6. QueueExact'
  BY <1>0, <1>1, <1>2, QueueStays
<1>7. /\ row' \in [Staged -> {"staged", "used", "invalid"}] /\ \A s \in Staged : row'[s] # "staged"
  BY <1>0 DEF LockInv, LocksTyped
<1>8. WonIsOver'
  <2>1. \A u \in Locks!Callers : lockCall'[u].result = "won" => lockCall'[u].pc = "done"
    BY <1>1, <1>2 DEF LockInv, WonIsOver
  <2>2. t \in Staged => row[t] = "staged"
    BY <1>0 DEF LockInv, LocksHeld
  <2>3. ASSUME NEW u \in Staged, NEW v \in Staged, lockCall'[u].result = "won", lockCall'[v].result = "won"
        PROVE  u = v
    BY <1>2, <2>2, <2>3 DEF LockInv, WonIsOver
  <2> QED BY <1>1, <1>2, <1>7, <2>1, <2>3 DEF WonIsOver
<1>9. LocksTyped'
  BY <1>0, <1>2, <1>5, <1>7 DEF LockInv, LocksTyped
<1>10. OwnIsStaged'
  BY <1>1, <1>2, OwnKept
<1> QED BY <1>5, <1>6, <1>8, <1>9, <1>10 DEF LockInv

\* Two calls that wait for each other have begun and not ended.
LEMMA WaitingGoesOn ==
  ASSUME NEW t \in Locks!Callers, Locks!Deadlocked(t)
  PROVE  /\ lockCall[t].pc \in {"own", "resident", "rows"}
         /\ \E u \in Locks!Callers \ {t} : lockCall[u].pc \in {"own", "resident", "rows"}
<1>1. PICK u \in Locks!Callers : Locks!WaitsFor(t, u) /\ Locks!WaitsFor(u, t)
  BY DEF Locks!Deadlocked
<1>2. \A v \in Locks!Callers : Locks!Wants(v) # {} => lockCall[v].pc \in {"own", "resident", "rows"}
  BY DEF Locks!Wants
<1> QED BY <1>1, <1>2 DEF Locks!WaitsFor

LEMMA AbortKeeps ==
  ASSUME LockInv, NEW t \in Locks!Callers, Locks!DeadlockAborts(t)
  PROVE  LockInv'
<1> USE LockNames
<1> DEFINE q == IF Locks!RetryAllowed(t) THEN [pc |-> Locks!First(t), tries |-> 2, result |-> "none"]
                ELSE [lockCall[t] EXCEPT !.pc = "done", !.result = "error"]
<1>0. /\ row' = row /\ rowLock' = Locks!Released(t) /\ lockCall' = [lockCall EXCEPT ![t] = q]
      /\ queue' = Locks!Without(t)
  BY DEF Locks!DeadlockAborts
<1>1. /\ lockCall[t].pc \in {"own", "resident", "rows"}
      /\ \E u \in Locks!Callers \ {t} : lockCall[u].pc \in {"own", "resident", "rows"}
  BY WaitingGoesOn DEF Locks!DeadlockAborts
<1>2. q \in LockCall /\ q.result # "won" /\ q.pc \in {"own", "done"} /\ (q.pc = "own" => t \in Staged)
  <2>1. CASE Locks!RetryAllowed(t)
    <3>1. q = [pc |-> "own", tries |-> 2, result |-> "none"] /\ t \in Staged
      BY <2>1 DEF Locks!RetryAllowed, Locks!First
    <3> HIDE DEF q
    <3> QED BY <3>1 DEF LockCall
  <2>2. CASE ~Locks!RetryAllowed(t)
    <3>1. q = [lockCall[t] EXCEPT !.pc = "done", !.result = "error"] /\ lockCall[t] \in LockCall
      BY <2>2 DEF LockInv, LocksTyped
    <3> HIDE DEF q
    <3> QED BY <3>1 DEF LockCall
  <2> QED BY <2>1, <2>2
<1> HIDE DEF q
<1>3. /\ lockCall' \in [Locks!Callers -> LockCall] /\ lockCall'[t] = q
      /\ \A u \in Locks!Callers \ {t} : lockCall'[u] = lockCall[u]
  BY <1>0, <1>2, LockCallMoves
<1>4. WonIsOver'
  <2>1. \E u \in Locks!Callers \ {t} : lockCall[u].pc # "done"
    BY <1>1
  <2>2. lockCall[t].pc # "done"
    BY <1>1
  <2> QED BY <1>0, <1>2, <2>1, <2>2, StillOpenKeeps
<1>5. HoldersGoOn' /\ LocksHeld' /\ rowLock' \in [Locks!Rows -> Locks!Callers \cup {None}]
  BY <1>0, <1>2, <1>3, ReleasedKeeps
<1>6. queue' \in Seq(Locks!Callers) /\ QueueExact'
  <2>0. queue \in Seq(Locks!Callers) /\ Len(queue) \in Nat
    BY DEF LockInv, LocksTyped
  <2>1. CASE \A i \in 1 .. Len(queue) : queue[i] # t
    <3>1. queue' = queue
      BY <1>0, <2>1 DEF Locks!Without
    <3>2. lockCall[t].pc # "resident"
      BY <2>1 DEF LockInv, QueueExact
    <3> QED BY <2>0, <3>1, <3>2, <1>2, <1>3, QueueStays
  <2>2. CASE \E i \in 1 .. Len(queue) : queue[i] = t
    <3>1. PICK i \in 1 .. Len(queue) :
            queue[i] = t /\ queue' = SubSeq(queue, 1, i - 1) \o SubSeq(queue, i + 1, Len(queue))
      BY <1>0, <2>2 DEF Locks!Without
    <3> DEFINE front == SubSeq(queue, 1, i - 1)
               back == SubSeq(queue, i + 1, Len(queue))
    <3>2. /\ front \in Seq(Locks!Callers) /\ Len(front) = i - 1
          /\ \A j \in 1 .. i - 1 : front[j] = queue[j]
      BY <2>0
    <3>3. /\ back \in Seq(Locks!Callers) /\ Len(back) = Len(queue) - i
          /\ \A j \in 1 .. Len(queue) - i : back[j] = queue[i + j]
      BY <2>0
    <3>4. queue' = front \o back
      BY <3>1
    <3> HIDE DEF front, back
    <3>5. /\ queue' \in Seq(Locks!Callers) /\ Len(queue') = Len(queue) - 1
      BY <2>0, <3>2, <3>3, <3>4
    <3>6. ASSUME NEW j \in 1 .. Len(queue')
          PROVE  queue'[j] = IF j < i THEN queue[j] ELSE queue[j + 1]
      <4>1. CASE j < i
        BY <2>0, <3>2, <3>3, <3>4, <3>5, <4>1
      <4>2. CASE ~(j < i)
        <5>1. queue'[j] = back[j - Len(front)] /\ j - (i - 1) \in 1 .. Len(queue) - i
          BY <2>0, <3>2, <3>3, <3>4, <3>5, <4>2
        <5>2. back[j - (i - 1)] = queue[i + (j - (i - 1))] /\ i + (j - (i - 1)) = j + 1
          BY <2>0, <3>3, <5>1
        <5> QED BY <3>2, <4>2, <5>1, <5>2
      <4> QED BY <4>1, <4>2
    <3> QED BY <1>2, <1>3, <3>1, <3>5, <3>6, QueueShrinks
  <2> QED BY <2>1, <2>2
<1>7. LocksTyped'
  BY <1>0, <1>3, <1>5, <1>6 DEF LockInv, LocksTyped
<1>8. OwnIsStaged'
  BY <1>2, <1>3, OwnKept
<1> QED BY <1>4, <1>5, <1>6, <1>7, <1>8 DEF LockInv

LEMMA LockStep == LockInv /\ [Locks!Next]_lockVars => LockInv'
<1> SUFFICES ASSUME LockInv, [Locks!Next]_lockVars PROVE LockInv'
  OBVIOUS
<1>1. CASE UNCHANGED lockVars
  BY <1>1 DEF lockVars, LockInv, LocksTyped, OwnIsStaged, HoldersGoOn, LocksHeld, QueueExact, WonIsOver
<1>2. CASE Locks!Ended
  <2>1. UNCHANGED lockVars
    BY <1>2 DEF Locks!Ended, Locks!vars, lockVars
  <2> QED BY <1>1, <2>1
<1>3. ASSUME NEW t \in Locks!Callers, Locks!Begin(t) \/ Locks!Step(t) PROVE LockInv'
  BY <1>3, BeginKeeps, LockOwnKeeps, LockResidentKeeps, LockRowKeeps, CommitKeeps, AbortKeeps
     DEF Locks!Step
<1> QED BY <1>1, <1>2, <1>3 DEF Locks!Next

\* Whenever a call that began has not ended, one of them can go on: who holds the
\* resident row, or, when nobody does, the first in the queue or a call at its own row.
LEMMA SomeoneReady ==
  ASSUME LockInv, NEW t \in Locks!Callers, lockCall[t].pc \notin {"idle", "done"}
  PROVE  \E u \in Locks!Callers : Locks!Ready(u)
<1> USE LockNames
<1>1. ASSUME NEW u \in Locks!Callers, lockCall[u].pc = "rows" PROVE Locks!Ready(u)
  <2>1. CASE Locks!Ahead(u) = {}
    BY <1>1, <2>1 DEF Locks!Ready, Locks!CanCommit
  <2>2. CASE Locks!Ahead(u) # {}
    <3>1. PICK s \in Staged : s \in Locks!Ahead(u) /\ rowLock[s] # u
      BY <2>2 DEF Locks!Ahead
    <3>2. CASE rowLock[s] = None
      BY <1>1, <3>1, <3>2 DEF Locks!Ready, Locks!CanLockRow
    <3>3. CASE rowLock[s] # None
      <4>1. rowLock[s] \in Locks!Callers /\ rowLock[Resident] = u
        BY <1>1, <3>3 DEF LockInv, LocksTyped, LocksHeld
      <4>2. rowLock[s] = s
        BY <3>1, <3>3, <4>1 DEF LockInv, LocksHeld
      <4>3. lockCall[s].pc = "resident" /\ s # u
        BY <3>1, <4>1, <4>2 DEF LockInv, LocksHeld, HoldersGoOn
      <4>4. Locks!Wants(s) = {Resident} /\ Locks!Wants(u) = Locks!Ahead(u)
        BY <1>1, <4>3 DEF Locks!Wants
      <4>5. Locks!WaitsFor(s, u) /\ Locks!WaitsFor(u, s)
        BY <3>1, <4>1, <4>2, <4>3, <4>4 DEF Locks!WaitsFor
      <4> QED BY <4>5 DEF Locks!Ready, Locks!Deadlocked
    <3> QED BY <3>2, <3>3
  <2> QED BY <2>1, <2>2
<1>2. CASE \A u \in Locks!Callers : lockCall[u].pc # "rows"
  <2>1. rowLock[Resident] = None
    BY <1>2 DEF LockInv, LocksTyped, LocksHeld
  <2>2. ASSUME NEW u \in Locks!Callers, lockCall[u].pc = "resident"
        PROVE  \E v \in Locks!Callers : Locks!Ready(v)
    <3>1. queue \in Seq(Locks!Callers) /\ \E i \in 1 .. Len(queue) : queue[i] = u
      BY <2>2 DEF LockInv, LocksTyped, QueueExact
    <3>2. 1 \in 1 .. Len(queue) /\ Head(queue) = queue[1] /\ queue[1] \in Locks!Callers
      BY <3>1
    <3>3. lockCall[queue[1]].pc = "resident"
      BY <3>2 DEF LockInv, QueueExact
    <3> QED BY <2>1, <3>2, <3>3 DEF Locks!Ready, Locks!CanLockResident
  <2>3. CASE lockCall[t].pc = "own"
    <3>1. t \in Staged
      BY <2>3 DEF LockInv, OwnIsStaged
    <3>2. rowLock[t] = None
      <4> SUFFICES ASSUME rowLock[t] # None PROVE FALSE
        OBVIOUS
      <4>1. rowLock[t] \in Locks!Callers
        BY <3>1 DEF LockInv, LocksTyped
      <4> QED BY <1>2, <2>3, <3>1, <4>1 DEF LockInv, LocksHeld, HoldersGoOn
    <3> QED BY <2>3, <3>2 DEF Locks!Ready, Locks!CanLockOwn
  <2>4. lockCall[t].pc \in {"own", "resident"}
    BY <1>2 DEF LockInv, LocksTyped, LockCall
  <2> QED BY <2>2, <2>3, <2>4
<1> QED BY <1>1, <1>2

LEMMA LockSafety == LockInv => Locks!TypeOK /\ Locks!OneConfirmationWins
<1> SUFFICES ASSUME LockInv PROVE Locks!TypeOK /\ Locks!OneConfirmationWins
  OBVIOUS
<1>1. Locks!TypeOK
  BY DEF LockInv, LocksTyped, HoldersGoOn, Locks!TypeOK, LockCall
<1>2. Locks!OneConfirmationWins
  BY SomeoneReady DEF LockInv, WonIsOver, Locks!OneConfirmationWins
<1> QED BY <1>1, <1>2

-----------------------------------------------------------------------------
(* The identity area                                                       *)

LEMMA ApartConstants == KeysApart!KeysAssumption
<1>1. KeysApart!IsFiniteSet(Stages)
  BY KeyAssumption DEF IsFiniteSet, KeysApart!IsFiniteSet
<1> QED BY <1>1 DEF KeysApart!KeysAssumption

LEMMA InTurnConstants == KeysInTurn!KeysAssumption
<1>1. KeysInTurn!IsFiniteSet(LoneStage)
  BY KeyAssumption DEF IsFiniteSet, KeysInTurn!IsFiniteSet
<1> QED BY <1>1 DEF KeysInTurn!KeysAssumption

\* The invariant of the component that moves.
IdentityInv ==
  /\ part = "tokens" => TokenInv
  /\ part = "apart" => KeysApart!KeysInv
  /\ part = "inTurn" => KeysInTurn!KeysInv
  /\ part = "doors" => DoorInv
  /\ part = "locks" => LockInv

LEMMA IdentityStarts == IdentityInit => IdentityInv
<1> SUFFICES ASSUME IdentityInit PROVE IdentityInv
  OBVIOUS
<1>1. CASE part = "tokens" /\ Init
  BY <1>1, TokenInit DEF IdentityInv
<1>2. CASE part = "apart" /\ KeysApart!Init
  BY <1>2, ApartConstants, KeysApart!KeysInit DEF IdentityInv
<1>3. CASE part = "inTurn" /\ KeysInTurn!Init
  BY <1>3, InTurnConstants, KeysInTurn!KeysInit DEF IdentityInv
<1>4. CASE part = "doors" /\ Doors!Init
  BY <1>4, DoorInit DEF IdentityInv
<1>5. CASE part = "locks" /\ Locks!Init
  BY <1>5, LockInit DEF IdentityInv
<1> QED BY <1>1, <1>2, <1>3, <1>4, <1>5 DEF IdentityInit

LEMMA IdentitySteps == IdentityInv /\ [IdentityNext]_identityVars => IdentityInv'
<1> SUFFICES ASSUME IdentityInv, [IdentityNext]_identityVars PROVE IdentityInv'
  OBVIOUS
<1>0. part' = part
  BY DEF IdentityNext, identityVars
<1>1. CASE part = "tokens"
  <2>1. [Next]_vars
    BY <1>1 DEF IdentityNext, identityVars
  <2> QED BY <1>0, <1>1, <2>1, TokenStep DEF IdentityInv
<1>2. CASE part = "apart"
  <2>1. [KeysApart!Next]_KeysApart!vars
    BY <1>2 DEF IdentityNext, identityVars, keyVars, KeysApart!vars
  <2> QED BY <1>0, <1>2, <2>1, ApartConstants, KeysApart!KeysStep DEF IdentityInv
<1>3. CASE part = "inTurn"
  <2>1. [KeysInTurn!Next]_KeysInTurn!vars
    BY <1>3 DEF IdentityNext, identityVars, keyVars, KeysInTurn!vars
  <2> QED BY <1>0, <1>3, <2>1, InTurnConstants, KeysInTurn!KeysStep DEF IdentityInv
<1>4. CASE part = "doors"
  <2>1. [Doors!Next]_doorVars
    BY <1>4 DEF IdentityNext, identityVars
  <2> QED BY <1>0, <1>4, <2>1, DoorStep DEF IdentityInv
<1>5. CASE part = "locks"
  <2>1. [Locks!Next]_lockVars
    BY <1>5 DEF IdentityNext, identityVars
  <2> QED BY <1>0, <1>5, <2>1, LockStep DEF IdentityInv
<1>6. CASE part \notin {"tokens", "apart", "inTurn", "doors", "locks"}
  BY <1>0, <1>6 DEF IdentityInv
<1> QED BY <1>1, <1>2, <1>3, <1>4, <1>5, <1>6

LEMMA IdentityHolds == IdentitySpec => []IdentityInv
  BY IdentityStarts, IdentitySteps, PTL DEF IdentitySpec

\* Every variable of the OAuth, key, registration and lock models has its type in every
\* reachable state.
THEOREM IdentityTyped == IdentitySpec => []IdentityTypeOK
<1>1. IdentityInv => IdentityTypeOK
  BY TokenSafety, KeysApart!KeysSafety, KeysInTurn!KeysSafety, DoorSafety, LockSafety
  DEF IdentityInv, IdentityTypeOK
<1> QED BY <1>1, IdentityHolds, PTL

\* The refresh tokens of a family form one chain without a missing link that has one
\* live end, whatever exchanges, refreshes, revocations and prunings overlap or fail
\* (exchangeAuthorizationCode, rotateRefreshToken, consumeOAuthRateLimit).
THEOREM ChainHolds == IdentitySpec => []OneRotationChain
<1>1. IdentityInv => OneRotationChain
  BY TokenSafety DEF IdentityInv, OneRotationChain
<1> QED BY <1>1, IdentityHolds, PTL

\* A revoked family stays revoked and a family is revoked only by its owner or by the
\* reuse of one of its tokens (revokeReusedRefreshToken, revokeTokenFamilyByToken).
THEOREM RevocationHolds == IdentitySpec => []ExactRevocation
<1>1. IdentityInv => ExactRevocation
  BY TokenSafety DEF IdentityInv, ExactRevocation
<1> QED BY <1>1, IdentityHolds, PTL

\* However statements overlap, a generation of recovery codes ends by one key change or
\* one new set of codes, and the day's rotations stay within their limit.
THEOREM KeyChangeHolds == IdentitySpec => []KeyChangeIsOne
<1>1. IdentityInv => KeyChangeIsOne
  BY KeysApart!KeysSafety DEF IdentityInv, KeyChangeIsOne
<1> QED BY <1>1, IdentityHolds, PTL

\* When statements do not overlap, no sign-in, code or family that works was granted
\* under a key that has since been replaced.
THEOREM GrantHolds == IdentitySpec => []NoGrantOfOldKey
<1>1. IdentityInv => NoGrantOfOldKey
  BY KeysInTurn!KeysSafety DEF IdentityInv, NoGrantOfOldKey
<1> QED BY <1>1, IdentityHolds, PTL

\* Registration requests, residents and resident numbers agree across the web and the
\* hosted sign-in door, and no later step makes a confirmation's answer untrue.
THEOREM RegistrationHolds == IdentitySpec => []RegistrationIsExact
<1>1. IdentityInv => RegistrationIsExact
  BY DoorSafety DEF IdentityInv, RegistrationIsExact
<1> QED BY <1>1, IdentityHolds, PTL

\* Of the confirmations that lock the same resident, in any order of locks, deadlocks and
\* second tries, at most one changes the key; while one has begun and not ended, one of
\* them can go on; and when all have ended, a confirmation or a code set has won.
THEOREM ConfirmationHolds == IdentitySpec => []OneConfirmationWins
<1>1. IdentityInv => OneConfirmationWins
  BY LockSafety DEF IdentityInv, OneConfirmationWins
<1> QED BY <1>1, IdentityHolds, PTL
=============================================================================
