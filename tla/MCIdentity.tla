------------------------------- MODULE MCIdentity -------------------------------
(***************************************************************************)
(* The identity components for TLC.  They share no state, so a behaviour   *)
(* moves one of them, chosen at the start.  ResidentKeys is run twice: with *)
(* overlapping statements, and one statement at a time with sign-in        *)
(* requests and pairing codes.  The confirmers of Registration are three of *)
(* the calls of OAuthTokens, so that one symmetry serves both.             *)
(***************************************************************************)
EXTENDS OAuthTokens, TLC

CONSTANTS
  KeyCalls, Stages, LoneStage, SignIns, PairingCodes,
  Handles, Web, Hosted, Confirmers, Settled,
  Staged, CodeSets, Resident

ASSUME DoorAssumption ==
  /\ IsFiniteSet(Web) /\ IsFiniteSet(Hosted) /\ Settled \in Nat
  /\ Web \cap Hosted = {} /\ None \notin Handles

ASSUME LockAssumption ==
  /\ Resident \notin Staged /\ Staged \cap CodeSets = {} /\ Staged \cup CodeSets # {}
  /\ None \notin Staged \cup CodeSets

ASSUME KeyAssumption == IsFiniteSet(Stages) /\ IsFiniteSet(LoneStage)

VARIABLES
  part,
  key, gen, nextKey, recovery, rotation, pairing, grant, keyCall,
  req, resident, lastId, regCall,
  row, rowLock, queue, lockCall

KeysApart == INSTANCE ResidentKeysProofs WITH
  MaxKeys <- 3, Recoveries <- 4, SetSize <- 2, Rotations <- Stages, Pairings <- {},
  Requests <- {}, Calls <- KeyCalls, DailyMax <- 1, Serial <- FALSE, call <- keyCall

KeysInTurn == INSTANCE ResidentKeysProofs WITH
  MaxKeys <- 2, Recoveries <- 1, SetSize <- 1, Rotations <- LoneStage, Pairings <- PairingCodes,
  Requests <- SignIns, Calls <- KeyCalls, DailyMax <- 1, Serial <- TRUE, call <- keyCall

Doors == INSTANCE Registration WITH
  OAuth <- Hosted, Calls <- Confirmers, StartId <- Settled, call <- regCall

Locks == INSTANCE IdentityLocks WITH
  Confirms <- Staged, Generates <- CodeSets, Res <- Resident,
  lock <- rowLock, call <- lockCall

keyVars == <<key, gen, nextKey, recovery, rotation, pairing, grant, keyCall>>
doorVars == <<req, resident, lastId, regCall>>
lockVars == <<row, rowLock, queue, lockCall>>
identityVars == <<part, vars, keyVars, doorVars, lockVars>>

\* The variables of a component that does not move.
NoTokens ==
  /\ code = None /\ pair = None /\ nextPair = None /\ revoked = None /\ age = None
  /\ quota = None /\ junk = None /\ lock = None /\ call = None /\ known = None
NoKeys ==
  /\ key = None /\ gen = None /\ nextKey = None /\ recovery = None
  /\ rotation = None /\ pairing = None /\ grant = None /\ keyCall = None
NoDoors == req = None /\ resident = None /\ lastId = None /\ regCall = None
NoLocks == row = None /\ rowLock = None /\ queue = None /\ lockCall = None

IdentityInit ==
  \/ /\ part = "tokens" /\ Init
     /\ NoKeys /\ NoDoors /\ NoLocks
  \/ /\ part = "apart" /\ KeysApart!Init
     /\ NoTokens /\ NoDoors /\ NoLocks
  \/ /\ part = "inTurn" /\ KeysInTurn!Init
     /\ NoTokens /\ NoDoors /\ NoLocks
  \/ /\ part = "doors" /\ Doors!Init
     /\ NoTokens /\ NoKeys /\ NoLocks
  \/ /\ part = "locks" /\ Locks!Init
     /\ NoTokens /\ NoKeys /\ NoDoors

IdentityNext ==
  \/ part = "tokens" /\ Next /\ UNCHANGED <<part, keyVars, doorVars, lockVars>>
  \/ part = "apart" /\ KeysApart!Next /\ UNCHANGED <<part, vars, doorVars, lockVars>>
  \/ part = "inTurn" /\ KeysInTurn!Next /\ UNCHANGED <<part, vars, doorVars, lockVars>>
  \/ part = "doors" /\ Doors!Next /\ UNCHANGED <<part, vars, keyVars, lockVars>>
  \/ part = "locks" /\ Locks!Next /\ UNCHANGED <<part, vars, keyVars, doorVars>>

IdentitySpec == IdentityInit /\ [][IdentityNext]_identityVars

IdentitySymmetry == Permutations(Confirmers)

-----------------------------------------------------------------------------
(* Properties                                                              *)

\* The types of all four components.
IdentityTypeOK ==
  /\ part = "tokens" => TypeOK
  /\ part = "apart" => KeysApart!TypeOK
  /\ part = "inTurn" => KeysInTurn!TypeOK
  /\ part = "doors" => Doors!TypeOK
  /\ part = "locks" => Locks!TypeOK

\* One live end, no missing link in a family's rotations (OAuthTokens).
OneRotationChain == part = "tokens" => RotationChain

\* Revocation lasts, and reuse alone brings it about (OAuthTokens).
ExactRevocation == part = "tokens" => RevocationIsExact

\* A key change is one change, whatever statements overlap (ResidentKeys).
KeyChangeIsOne == part = "apart" => KeysApart!KeyChangeIsOne

\* What works was granted under the current key (ResidentKeys).
NoGrantOfOldKey == part = "inTurn" => KeysInTurn!NoGrantOfOldKey

\* Requests, residents and numbers agree across both doors, and what a confirmation is
\* told stays true (Registration).
RegistrationIsExact == part = "doors" => Doors!RegistrationIsExact /\ Doors!AnswersAgree

\* One confirmation wins and nobody is left waiting (IdentityLocks).
OneConfirmationWins == part = "locks" => Locks!OneConfirmationWins
=============================================================================
