---------------------------- MODULE SecretStore ----------------------------
(* The secret store: envelopes sealed and opened with a master key         *)
(* (core/secrets/envelope.ts), kept as rows of the secrets table           *)
(* (db/secrets.ts).  A caller seals first and writes later, reads first    *)
(* and opens later; between the two, other callers write, the master key   *)
(* is rotated, a bot goes with its secrets, or rows are moved or damaged.  *)
(* AES-GCM is modelled by what it promises: sealed bytes open under the    *)
(* key and the additional data they were sealed with, and under no other;  *)
(* modified bytes do not open.  Every data key is new, so it is named by   *)
(* the number of the seal that drew it.                                    *)
EXTENDS Naturals, FiniteSets

CONSTANTS
    Scopes,    \* [workspace, bot (or NoBot), name]: where a secret lives
    NoBot,
    Values,    \* plaintexts
    MasterKeys,
    KeyIdOf,   \* [MasterKeys -> key id]: 8 hex digits, so two may share one
    Foreign,   \* a key id that is not a master- id
    MaxSeals,  \* bound: seals
    MaxFaults  \* bound: rows moved or damaged

ASSUME KeysAssumption == \A k \in MasterKeys : KeyIdOf[k] # Foreign

VARIABLES
    kek,     \* the master key of the process
    seals,   \* seals so far
    inHand,  \* sealed, not yet written: [scope, env, value]
    stored,  \* the table: [id, scope, env]
    faults,  \* moved and damaged rows so far
    fetched, \* read, not yet opened: [scope, env, put] (at most one reader)
    result,  \* what the reader got
    put,     \* scope -> what its last putSecret stored (None: nothing)
    history  \* <<scope, value>> of every putSecret so far

secretVars == <<kek, seals, inHand, stored, faults, fetched, result, put, history>>

None == [value |-> "none", key |-> "none"]
-----------------------------------------------------------------------------
(* envelope.ts *)

Sealed(key, aad, body) == [key |-> key, aad |-> aad, body |-> body, intact |-> TRUE]

(* Undefined when the tag does not verify.                                 *)
Decrypts(key, aad, sealed) ==
    sealed.intact /\ sealed.key = key /\ sealed.aad = aad

SealSecret(scope, value, dek) ==
    [ciphertext |-> Sealed(dek, scope, value),
     encryptedDataKey |-> Sealed(kek, scope, dek),
     keyId |-> KeyIdOf[kek]]

\* Mutant: the scope an envelope was sealed for is taken from the envelope.
OpenUnbound(env, scope) ==
    IF env.keyId # KeyIdOf[kek] THEN "wrong-key"
    ELSE IF ~env.ciphertext.intact THEN "tampered" ELSE env.ciphertext.body

(* openSecret: the checks in their order, then the plaintext.              *)
OpenSecret(env, scope) ==
    IF env.keyId = Foreign THEN "unsupported-key-id"
    ELSE IF env.keyId # KeyIdOf[kek] THEN "wrong-key"
    ELSE IF ~Decrypts(kek, scope, env.encryptedDataKey) THEN "scope-mismatch"
    ELSE IF Decrypts(env.encryptedDataKey.body, scope, env.ciphertext)
         THEN env.ciphertext.body ELSE "tampered"

Errors == {"unsupported-key-id", "wrong-key", "scope-mismatch", "tampered"}
-----------------------------------------------------------------------------
StoreInit ==
    /\ kek \in MasterKeys /\ seals = 0 /\ inHand = {} /\ stored = {} /\ faults = 0
    /\ fetched = {} /\ result = None.value /\ put = [s \in Scopes |-> None]
    /\ history = {}

Seal(scope, value) ==
    /\ seals < MaxSeals
    /\ seals' = seals + 1
    /\ inHand' = inHand \cup
          {[scope |-> scope, env |-> SealSecret(scope, value, seals + 1),
            put |-> [value |-> value, key |-> kek]]}
    /\ UNCHANGED <<kek, stored, faults, fetched, result, put, history>>

RowsAt(scope) == {r \in stored : r.scope = scope}

(* putSecret: an upsert on (workspace, bot, name), nulls not distinct.     *)
PutSecret(w) ==
    /\ w \in inHand
    /\ inHand' = inHand \ {w}
    /\ LET old == RowsAt(w.scope)
           id  == IF old = {} THEN {seals} ELSE {r.id : r \in old}
       IN stored' = (stored \ old) \cup {[id |-> i, scope |-> w.scope, env |-> w.env] : i \in id}
    /\ put' = [put EXCEPT ![w.scope] = w.put]
    /\ history' = history \cup {<<w.scope, w.put.value>>}
    /\ UNCHANGED <<kek, seals, faults, fetched, result>>

DeleteSecret(scope) ==
    /\ RowsAt(scope) # {}
    /\ stored' = stored \ RowsAt(scope)
    /\ put' = [put EXCEPT ![scope] = None]
    /\ UNCHANGED <<kek, seals, inHand, faults, fetched, result, history>>

(* The cascade of secrets.bot_id.                                          *)
BotGoes(bot) ==
    /\ bot # NoBot /\ \E r \in stored : r.scope.bot = bot
    /\ stored' = {r \in stored : r.scope.bot # bot}
    /\ put' = [s \in Scopes |-> IF s.bot = bot THEN None ELSE put[s]]
    /\ UNCHANGED <<kek, seals, inHand, faults, fetched, result, history>>

(* The process restarts with another DROBEK_MASTER_KEY: what it had in     *)
(* hand is gone, what it had stored stays under the old key.               *)
Rotate ==
    /\ kek' \in MasterKeys \ {kek}
    /\ inHand' = {} /\ fetched' = {}
    /\ UNCHANGED <<seals, stored, faults, result, put, history>>

(* A row is moved to another scope, or one of its columns is damaged.      *)
RowMoves ==
    /\ faults < MaxFaults /\ faults' = faults + 1
    /\ \E r \in stored, s \in Scopes :
        /\ RowsAt(s) = {}
        /\ stored' = (stored \ {r}) \cup {[r EXCEPT !.scope = s]}
    /\ UNCHANGED <<kek, seals, inHand, fetched, result, put, history>>

(* Damage to an envelope's layout is left out: getSecretEnvelope refuses   *)
(* such a row when it reads it.                                            *)
RowDamaged ==
    /\ faults < MaxFaults /\ faults' = faults + 1
    /\ \E r \in stored :
        \/ stored' = (stored \ {r}) \cup {[r EXCEPT !.env.ciphertext.intact = FALSE]}
        \/ stored' = (stored \ {r}) \cup {[r EXCEPT !.env.encryptedDataKey.intact = FALSE]}
        \/ stored' = (stored \ {r}) \cup {[r EXCEPT !.env.keyId = Foreign]}
    /\ UNCHANGED <<kek, seals, inHand, fetched, result, put, history>>

GetSecretEnvelope(scope) ==
    /\ fetched = {}
    /\ \E r \in RowsAt(scope) :
           fetched' = {[scope |-> scope, env |-> r.env, put |-> put[scope], faults |-> faults]}
    /\ UNCHANGED <<kek, seals, inHand, stored, faults, result, put, history>>

Open(f) ==
    /\ f \in fetched
    /\ result' = OpenSecret(f.env, f.scope) /\ fetched' = {}
    /\ UNCHANGED <<kek, seals, inHand, stored, faults, put, history>>

StoreNext ==
    \/ \E s \in Scopes, v \in Values : Seal(s, v)
    \/ \E w \in inHand : PutSecret(w)
    \/ \E s \in Scopes : DeleteSecret(s) \/ GetSecretEnvelope(s)
    \/ \E s \in Scopes : BotGoes(s.bot)
    \/ Rotate \/ RowMoves \/ RowDamaged
    \/ \E f \in fetched : Open(f)

StoreSpec == StoreInit /\ [][StoreNext]_secretVars
-----------------------------------------------------------------------------
(* Opening what is stored at a scope gives a value that was put at that    *)
(* very scope or an error, never the value of another scope, though puts   *)
(* overlap, bots go, the key is rotated, rows are moved and columns are    *)
(* damaged (envelope.ts:17-21, :142-151).  While no row was moved or       *)
(* damaged it is the value put last, and an error only under another key   *)
(* than it was sealed with: overlapping puts replace each other, of a      *)
(* bot's secret and of one of the workspace (secrets.ts:42-63).            *)
OpensWhatWasPut ==
    \A f \in fetched :
        LET got == OpenSecret(f.env, f.scope) IN
        /\ got \in Errors \/ <<f.scope, got>> \in history
        /\ f.faults = 0 =>
            got = IF f.put.key = kek THEN f.put.value
                  ELSE IF KeyIdOf[f.put.key] = KeyIdOf[kek] THEN "scope-mismatch"
                  ELSE "wrong-key"
=============================================================================
