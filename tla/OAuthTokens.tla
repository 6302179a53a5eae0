------------------------------ MODULE OAuthTokens ------------------------------
(***************************************************************************)
(* The token endpoint of the hosted-chat sign-in (src/src/oauth.ts,        *)
(* src/src/oauth-store.ts): an authorization code is exchanged for a token *)
(* family; every refresh consumes the presented refresh token and issues   *)
(* the next pair; presenting a consumed token revokes the whole family; a  *)
(* client may also end its family.  Rows are pruned after the retention    *)
(* window by the same statement that counts the rate limit.                *)
(*                                                                         *)
(* A family is named by the code it came from and a pair (one access and   *)
(* one refresh token, always issued by one statement) by its BIGSERIAL     *)
(* order.  Every SQL statement that another one can overlap is two steps:  *)
(* the one that takes its READ COMMITTED snapshot, and the one that        *)
(* re-reads the rows it locks and commits.                                 *)
(***************************************************************************)
EXTENDS Naturals, FiniteSets

CONSTANTS
  Codes,        \* authorization codes, and the families made from them
  Calls,        \* requests at the token and revocation endpoints
  MaxPairs,     \* bound: token pairs ever issued
  ConnMax,      \* OAUTH_LIMITS.refreshesPerConnectionHour
  JunkMax,      \* OAUTH_LIMITS.junkRefreshesPerNetworkHour
  PruneBatch,   \* SIGNIN_RETENTION_BATCH, in pairs
  None

ASSUME OAuthAssumption ==
  /\ IsFiniteSet(Codes) /\ IsFiniteSet(Calls)
  /\ MaxPairs \in Nat /\ PruneBatch \in Nat \ {0}
  /\ ConnMax \in Nat \ {0} /\ JunkMax \in Nat \ {0}
  /\ None \notin Codes /\ None \notin Calls

Pairs == 1 .. MaxPairs

Ages == {"fresh", "expired", "retired"}  \* retired: past SIGNIN_RETENTION_WINDOW
Subjects == {"none", "active", "reused", "junk"}
Results == {"none", "issued", "rotated", "overlapping", "reused", "invalid",
            "throttled", "revoked", "ignored", "unavailable"}
PCs == {"idle", "exchange", "throttle", "rotate", "rotating", "reuse",
        "revoking", "end", "answer", "done"}

VARIABLES
  code,      \* oauth_authorization_codes: "unused", "used" or "expired"
  pair,      \* oauth_tokens, two rows a pair
  nextPair,  \* the next id
  revoked,   \* families with revoked_at
  age,       \* expiry of each family
  quota,     \* oauth_rate_limits of each connection in this UTC hour
  junk,      \* oauth_rate_limits of the network's junk bucket
  lock,      \* advisory lock on a presented refresh token
  call,      \* the requests
  known      \* pairs whose token response reached the client

vars == <<code, pair, nextPair, revoked, age, quota, junk, lock, call, known>>

NoPair == [st |-> "free", fam |-> None, from |-> 0, used |-> FALSE, rev |-> FALSE]
NoCall == [pc |-> "idle", kind |-> "none", arg |-> 0, code |-> None, fam |-> None,
           subject |-> "none", sawLive |-> FALSE, saw |-> {}, result |-> "none"]

TypeOK ==
  /\ code \in [Codes -> {"unused", "used", "expired"}]
  /\ pair \in [Pairs -> [st : {"free", "issued", "pruned"}, fam : Codes \cup {None},
                         from : 0 .. MaxPairs, used : BOOLEAN, rev : BOOLEAN]]
  /\ nextPair \in 1 .. MaxPairs + 1
  /\ revoked \subseteq Codes
  /\ age \in [Codes -> Ages]
  /\ quota \in [Codes -> 0 .. ConnMax]
  /\ junk \in 0 .. JunkMax
  /\ lock \in [Pairs -> Calls \cup {None}]
  /\ call \in [Calls -> [pc : PCs, kind : {"none", "code", "refresh", "revoke"},
                         arg : 0 .. MaxPairs, code : Codes \cup {None},
                         fam : Codes \cup {None}, subject : Subjects,
                         sawLive : BOOLEAN, saw : SUBSET Pairs, result : Results]]
  /\ known \subseteq Pairs

Init ==
  /\ code = [k \in Codes |-> "unused"]
  /\ pair = [p \in Pairs |-> NoPair]
  /\ nextPair = 1
  /\ revoked = {}
  /\ age = [k \in Codes |-> "fresh"]
  /\ quota = [k \in Codes |-> 0]
  /\ junk = 0
  /\ lock = [p \in Pairs |-> None]
  /\ call = [c \in Calls |-> NoCall]
  /\ known = {}

-----------------------------------------------------------------------------
(* Rows                                                                    *)

Issued(p) == p \in Pairs /\ pair[p].st = "issued"

FamilyLive(f) == f \notin revoked /\ age[f] = "fresh"

PairsOf(f) == {p \in Pairs : Issued(p) /\ pair[p].fam = f}

\* What the rotating statement re-reads of the token row it locks.
Consumable(p) == Issued(p) /\ ~pair[p].used /\ ~pair[p].rev

MutantResolvesByTokenOnly(p) == Issued(p) /\ ~pair[p].rev /\ age[pair[p].fam] = "fresh"

\* The access token of a pair opens the city, while its ten minutes last.
resolveOAuthAccessToken(p) ==
  /\ Issued(p) /\ ~pair[p].rev
  /\ FamilyLive(pair[p].fam)

resolveRefreshRateLimitSubject(p) ==
  IF ~Issued(p) \/ ~FamilyLive(pair[p].fam) THEN "junk"
  ELSE IF pair[p].used THEN "reused"
  ELSE IF pair[p].rev THEN "junk"
  ELSE "active"

Goto(c, pc) == [call EXCEPT ![c].pc = pc]
Finish(c, result) == [call EXCEPT ![c].pc = "done", ![c].result = result]

Insert(f, from) ==
  [pair EXCEPT ![nextPair] = [NoPair EXCEPT !.st = "issued", !.fam = f, !.from = from]]

MutantConsumeKeepsOld(p) == Insert(pair[p].fam, p)

\* The presented token is used, the next pair is rotated from it.
Consume(p) == [Insert(pair[p].fam, p) EXCEPT ![p].used = TRUE]

-----------------------------------------------------------------------------
(* consumeOAuthRateLimit: every admission also prunes what is past its     *)
(* retention window, newest rotation link first, at most a batch a call.   *)

Retired == {p \in Pairs : Issued(p) /\ age[pair[p].fam] = "retired"}

MutantOldestFirst(p) == Cardinality({q \in Retired : q < p}) < PruneBatch

InBatch(p) == Cardinality({q \in Retired : q > p}) < PruneBatch

Prune ==
  pair' = [p \in Pairs |-> IF p \in Retired /\ InBatch(p)
                           THEN [pair[p] EXCEPT !.st = "pruned"] ELSE pair[p]]

-----------------------------------------------------------------------------
(* POST /oauth/token, grant_type=authorization_code                        *)

\* Admission (its buckets may be full), then the read of the code.
ExchangeStart(c, k) ==
  /\ call[c].pc = "idle"
  /\ Prune
  /\ \/ call' = [call EXCEPT ![c] = [NoCall EXCEPT !.pc = "done", !.kind = "code",
                                       !.code = k, !.result = "invalid"]]
     \/ /\ code[k] = "unused"
        /\ call' = [call EXCEPT ![c] = [NoCall EXCEPT !.pc = "exchange",
                                          !.kind = "code", !.code = k]]
  /\ UNCHANGED <<code, nextPair, revoked, age, quota, junk, lock, known>>

\* The code is consumed and the family and its first pair are made by one
\* statement; a rival that consumed the code first leaves nothing to exchange.
exchangeAuthorizationCode(c) ==
  /\ call[c].pc = "exchange"
  /\ LET k == call[c].code IN
     \/ /\ code[k] = "unused" /\ nextPair \in Pairs
        /\ code' = [code EXCEPT ![k] = "used"]
        /\ pair' = Insert(k, 0)
        /\ nextPair' = nextPair + 1
        /\ call' = [call EXCEPT ![c].pc = "answer", ![c].arg = nextPair,
                                ![c].result = "issued"]
     \/ /\ code[k] # "unused"
        /\ call' = Finish(c, "invalid")
        /\ UNCHANGED <<code, pair, nextPair>>
  /\ UNCHANGED <<revoked, age, quota, junk, lock, known>>

-----------------------------------------------------------------------------
(* POST /oauth/token, grant_type=refresh_token                             *)

\* The presented token is classified for the rate limit only.
RefreshStart(c, p) ==
  /\ call[c].pc = "idle" /\ p \in known
  /\ call' = [call EXCEPT ![c] = [NoCall EXCEPT !.pc = "throttle", !.kind = "refresh",
                !.arg = p, !.fam = pair[p].fam,
                !.subject = resolveRefreshRateLimitSubject(p)]]
  /\ UNCHANGED <<code, pair, nextPair, revoked, age, quota, junk, lock, known>>

MutantCountAtLimit(used, maximum) == IF used <= maximum THEN used + 1 ELSE used

\* The upsert of the hour's bucket counts up to the maximum and no further.
Count(used, maximum) == IF used < maximum THEN used + 1 ELSE used

MutantReplayThrottled(c) ==
  IF call[c].subject = "active" THEN quota[call[c].fam] < ConnMax ELSE junk < JunkMax

\* A replay is counted as junk but is let through even when junk is full.
Admitted(c) ==
  CASE call[c].subject = "active" -> quota[call[c].fam] < ConnMax
    [] call[c].subject = "junk" -> junk < JunkMax
    [] OTHER -> TRUE

RefreshThrottle(c) ==
  /\ call[c].pc = "throttle" /\ Prune
  /\ IF call[c].subject = "active"
     THEN quota' = [quota EXCEPT ![call[c].fam] = Count(@, ConnMax)] /\ UNCHANGED junk
     ELSE junk' = Count(junk, JunkMax) /\ UNCHANGED quota
  /\ \/ Admitted(c) /\ call[c].subject # "junk" /\ call' = Goto(c, "rotate")
     \/ Admitted(c) /\ call[c].subject = "junk" /\ call' = Finish(c, "invalid")
     \/ ~Admitted(c) /\ call' = Finish(c, "throttled")
  /\ UNCHANGED <<code, nextPair, revoked, age, lock, known>>

\* rotateRefreshToken opens: snapshot of the family, now(), and
\* the try-lock on the token.
RotateOpen(c) ==
  /\ call[c].pc = "rotate"
  /\ LET p == call[c].arg IN
     \/ /\ lock[p] = None
        /\ lock' = [lock EXCEPT ![p] = c]
        /\ call' = [call EXCEPT ![c].pc = "rotating",
                                ![c].sawLive = FamilyLive(call[c].fam)]
     \/ /\ lock[p] # None
        /\ call' = Finish(c, "overlapping")
        /\ UNCHANGED lock
  /\ UNCHANGED <<code, pair, nextPair, revoked, age, quota, junk, known>>

\* The token row is re-read when it is locked, the family row is the
\* snapshot's; consuming, issuing and unlocking are one commit.
RotateCommit(c) ==
  /\ call[c].pc = "rotating"
  /\ LET p == call[c].arg IN
     /\ lock' = [lock EXCEPT ![p] = None]
     /\ \/ /\ Consumable(p) /\ call[c].sawLive /\ nextPair \in Pairs
           /\ pair' = Consume(p)
           /\ nextPair' = nextPair + 1
           /\ call' = [call EXCEPT ![c].pc = "answer", ![c].result = "rotated",
                                   ![c].saw = {nextPair}]
        \/ /\ ~(Consumable(p) /\ call[c].sawLive)
           /\ call' = Goto(c, "reuse")
           /\ UNCHANGED <<pair, nextPair>>
  /\ UNCHANGED <<code, revoked, age, quota, junk, known>>

MutantReusedWithoutUse(p) == Issued(p)

\* revokeReusedRefreshToken acts on a used token only.
Reused(p) == Issued(p) /\ pair[p].used

\* It opens: the rows of the family that exist now are the ones it will revoke.
ReuseOpen(c) ==
  /\ call[c].pc = "reuse"
  /\ \/ /\ Reused(call[c].arg)
        /\ call' = [call EXCEPT ![c].pc = "revoking", ![c].saw = PairsOf(call[c].fam)]
     \/ /\ ~Reused(call[c].arg)
        /\ call' = Finish(c, "invalid")
  /\ UNCHANGED <<code, pair, nextPair, revoked, age, quota, junk, lock, known>>

-----------------------------------------------------------------------------
(* POST /oauth/revoke                                                      *)

\* Admission; a refused one is answered 200 as well.
RevokeStart(c, p) ==
  /\ call[c].pc = "idle" /\ p \in known
  /\ Prune
  /\ \E refused \in BOOLEAN :
       call' = [call EXCEPT ![c] = [NoCall EXCEPT !.kind = "revoke", !.arg = p,
                  !.fam = pair[p].fam, !.pc = IF refused THEN "done" ELSE "end",
                  !.result = IF refused THEN "ignored" ELSE "none"]]
  /\ UNCHANGED <<code, nextPair, revoked, age, quota, junk, lock, known>>

\* revokeTokenFamilyByToken opens.
RevokeOpen(c) ==
  /\ call[c].pc = "end"
  /\ LET p == call[c].arg IN
     \/ /\ Issued(p)
        /\ call' = [call EXCEPT ![c].pc = "revoking", ![c].saw = PairsOf(call[c].fam)]
     \/ /\ ~Issued(p)
        /\ call' = Finish(c, "ignored")
  /\ UNCHANGED <<code, pair, nextPair, revoked, age, quota, junk, lock, known>>

\* Both revocations commit: the family, and the tokens of the snapshot.
RevokeCommit(c) ==
  /\ call[c].pc = "revoking"
  /\ revoked' = revoked \cup {call[c].fam}
  /\ pair' = [p \in Pairs |-> IF p \in call[c].saw THEN [pair[p] EXCEPT !.rev = TRUE]
                                                   ELSE pair[p]]
  /\ call' = Finish(c, IF call[c].kind = "revoke" THEN "revoked" ELSE "reused")
  /\ UNCHANGED <<code, nextPair, age, quota, junk, lock, known>>

-----------------------------------------------------------------------------
(* Faults, clients and time                                                *)

\* A statement is lost or aborted (a refresh locks token then family, a
\* revocation family then tokens: either may be the victim of a deadlock).
\* It changed nothing; the advisory lock goes with its transaction.
StatementFails(c) ==
  /\ call[c].pc \in {"exchange", "throttle", "rotate", "rotating", "reuse",
                     "revoking", "end"}
  /\ lock' = [p \in Pairs |-> IF lock[p] = c THEN None ELSE lock[p]]
  /\ call' = Finish(c, IF call[c].kind = "revoke" THEN "ignored" ELSE "unavailable")
  /\ UNCHANGED <<code, pair, nextPair, revoked, age, quota, junk, known>>

\* The token response arrives, or is lost on the way.
Answer(c) ==
  /\ call[c].pc = "answer"
  /\ \E arrives \in BOOLEAN :
       known' = IF ~arrives THEN known
                ELSE known \cup (IF call[c].kind = "code" THEN {call[c].arg} ELSE call[c].saw)
  /\ call' = Goto(c, "done")
  /\ UNCHANGED <<code, pair, nextPair, revoked, age, quota, junk, lock>>

CodeExpires(k) ==
  /\ code[k] = "unused"
  /\ code' = [code EXCEPT ![k] = "expired"]
  /\ UNCHANGED <<pair, nextPair, revoked, age, quota, junk, lock, call, known>>

\* expires_at passes, then the retention window.
FamilyAges(k) ==
  /\ code[k] = "used"
  /\ \/ age[k] = "fresh" /\ age' = [age EXCEPT ![k] = "expired"]
     \/ age[k] = "expired" /\ age' = [age EXCEPT ![k] = "retired"]
  /\ UNCHANGED <<code, pair, nextPair, revoked, quota, junk, lock, call, known>>

\* A new UTC hour opens new rate-limit windows.
NextHour ==
  /\ quota' = [k \in Codes |-> 0] /\ junk' = 0
  /\ UNCHANGED <<code, pair, nextPair, revoked, age, lock, call, known>>

Step(c) ==
  \/ exchangeAuthorizationCode(c) \/ RefreshThrottle(c) \/ RotateOpen(c)
  \/ RotateCommit(c) \/ ReuseOpen(c) \/ RevokeOpen(c) \/ RevokeCommit(c) \/ Answer(c)

Next ==
  \/ \E c \in Calls, k \in Codes : ExchangeStart(c, k)
  \/ \E c \in Calls, p \in Pairs : RefreshStart(c, p) \/ RevokeStart(c, p)
  \/ \E c \in Calls : Step(c) \/ StatementFails(c)
  \/ \E k \in Codes : CodeExpires(k) \/ FamilyAges(k)
  \/ NextHour

Spec == Init /\ [][Next]_vars
-----------------------------------------------------------------------------
(* Properties                                                              *)

\* Of one family at most one refresh token can still be rotated, whatever
\* requests overlap: a second one would make reuse undetectable
\* (rotateRefreshToken, exchangeAuthorizationCode).
OneLiveRefresh ==
  \A p, q \in Pairs :
    Consumable(p) /\ Consumable(q) /\ pair[p].fam = pair[q].fam /\ FamilyLive(pair[p].fam)
      => p = q

\* Once a reuse was answered or a revocation was carried out, no access token
\* of the family opens the city again, not even one that a refresh inserted
\* after the revoking statement had taken its snapshot.
AnsweredRevocation ==
  \A c \in Calls : call[c].result \in {"reused", "revoked"} =>
    \A p \in PairsOf(call[c].fam) : ~resolveOAuthAccessToken(p)

\* A family is revoked only because its client asked for it or presented one
\* refresh token in two requests: one request per token, whatever fails and
\* however late it runs, never ends the connection.
OnlyReuseRevokes ==
  \A f \in revoked :
    \/ \E c \in Calls : call[c].kind = "revoke" /\ call[c].fam = f
    \/ \E c, d \in Calls : /\ c # d /\ call[c].arg = call[d].arg
                           /\ call[c].kind = "refresh" /\ call[d].kind = "refresh"
                           /\ call[c].fam = f

\* A request that saw a replayed token ends with the family revoked, whatever
\* the junk allowance: it is never answered with "try again later" (the
\* comment at the throttle).  Only a storage failure, or the rival that holds
\* the same token's lock, or the end of the family's life leaves it.
ReplayEndsFamily ==
  \A c \in Calls :
    /\ call[c].pc = "done" /\ call[c].subject = "reused"
    /\ call[c].result \notin {"unavailable", "overlapping"}
    => call[c].fam \in revoked \/ age[call[c].fam] = "retired"

\* Pruning leaves no token whose rotated_from_token_id names a deleted row: the
\* foreign key would refuse the statement, and with it every admission.
NoDanglingRotation ==
  \A p \in Pairs : Issued(p) /\ pair[p].from # 0 => Issued(pair[p].from)

\* Revocation is exact: it lasts, nothing but reuse or the client's wish brings
\* it about, and a replay brings it about (oauth.ts, revokeReusedRefreshToken).
RevocationIsExact == AnsweredRevocation /\ OnlyReuseRevokes /\ ReplayEndsFamily

\* The chain of rotations keeps one live end and no missing link.
RotationChain == OneLiveRefresh /\ NoDanglingRotation
=============================================================================
