------------------------------- MODULE ApiKeys -------------------------------
(* API keys: the rows of api_keys, the commands of cmd/admin-cli that write     *)
(* them, and their verification (internal/auth/apikey.go). A secret stands for  *)
(* its keyed hash; its prefix is what a row is looked up by.                    *)
EXTENDS FiniteSets

CONSTANTS KeyID,       \* api_keys.id
          DevKey,      \* the fixed id that seed writes
          DevSecret,   \* values that AEGIS_DEV_API_KEY is given over time
          Secret,      \* secrets; the others are generated, once each
          PrefixOf,    \* the indexed part of a secret
          Scope,       \* scopes a key may be created with
          None

RowType == [secret : Secret, scope : Scope \cup {"*"}, revoked : BOOLEAN,
            expires : {"never", "ahead", "past"}]

ASSUME KeyAssumption ==
    /\ DevKey \in KeyID
    /\ DevSecret # {} /\ DevSecret \subseteq Secret
    /\ None \notin RowType

VARIABLE keys          \* rows by id, None where there is none

Row(secret, scope, expires) == [secret |-> secret, scope |-> scope, revoked |-> FALSE,
                                expires |-> expires]

Rows == {id \in KeyID : keys[id] # None}
\* UNIQUE (key_prefix)
PrefixFree(id, secret) == \A r \in Rows \ {id} : PrefixOf[keys[r].secret] # PrefixOf[secret]

\* expires_at is unset, ahead or past. No command sets it; an operator may by hand.
InitKeys == \E e \in {"never", "ahead"} :
    keys = [id \in KeyID |-> IF id = DevKey THEN Row(CHOOSE s \in DevSecret : TRUE, "*", e) ELSE None]

SeedReviving(secret) ==
    /\ PrefixFree(DevKey, secret)
    /\ keys' = [keys EXCEPT ![DevKey] = Row(secret, "*", "never")]

\* INSERT ... ON CONFLICT (id) DO UPDATE of hash and prefix: a revoked row stays so.
Seed(secret) ==
    /\ PrefixFree(DevKey, secret)
    /\ keys' = [keys EXCEPT ![DevKey].secret = secret]

createAPIKey(id, secret, scope) ==
    /\ keys[id] = None
    /\ secret \notin DevSecret
    /\ PrefixFree(id, secret)
    /\ keys' = [keys EXCEPT ![id] = Row(secret, scope, "never")]

\* WHERE id = $1 AND revoked_at IS NULL
revokeAPIKey(id) ==
    /\ keys[id] # None
    /\ ~keys[id].revoked
    /\ keys' = [keys EXCEPT ![id].revoked = TRUE]

Expire(id) ==
    /\ keys[id] # None
    /\ keys[id].expires = "ahead"
    /\ keys' = [keys EXCEPT ![id].expires = "past"]

FindAPIKeyByPrefix(secret) == {r \in Rows : PrefixOf[keys[r].secret] = PrefixOf[secret]}

\* The clock was read before the lookup: expired is the rows past their expiry then.
Verify(secret, expired) ==
    \E r \in FindAPIKeyByPrefix(secret) :
      keys[r].secret = secret /\ ~keys[r].revoked /\ r \notin expired

RequireScope(secret, scope) ==
    \A r \in FindAPIKeyByPrefix(secret) : keys[r].scope \in {"*", scope}
===============================================================================
