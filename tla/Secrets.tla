------------------------------ MODULE Secrets ------------------------------
(***************************************************************************)
(* get_secret (core/secrets.py): one secret read through a cache with a    *)
(* time to live, by threads that share nothing but the cache's dict, while *)
(* the vault's value is rotated and clear_cache is called.                 *)
(*                                                                         *)
(* vault[i] is the value at tick i of time.monotonic(), so the last one is *)
(* the present.  An environment variable that overrides the vault ends the *)
(* call before any of this.                                                *)
(***************************************************************************)
EXTENDS Naturals, Sequences

CONSTANTS SecretReaders, \* threads
          SecretValues,
          TTL,           \* CACHE_TTL_SECONDS
          MaxClock       \* bound: ticks

ASSUME SecretsAssumption == TTL \in Nat \ {0} /\ MaxClock \in Nat

VARIABLES vault,   \* the values the secret has had
          cached,  \* _cache: nothing, or the entry of this secret
          reader   \* per thread: where it is, the `now` it took, the value it has

secretVars == <<vault, cached, reader>>

Present == Len(vault)
Entry == [stamp : Nat, value : SecretValues]

SecretsTypeOK ==
  /\ vault \in Seq(SecretValues) /\ Present > 0
  /\ cached \in SUBSET Entry
  /\ reader \in [SecretReaders -> [at : {"idle", "asking", "read", "has"}, now : Nat,
                                   value : SUBSET SecretValues]]

SecretsInit ==
  /\ \E v \in SecretValues : vault = <<v>>
  /\ cached = {}
  /\ reader = [t \in SecretReaders |-> [at |-> "idle", now |-> 0, value |-> {}]]

-----------------------------------------------------------------------------
Fresh(e, now) == now < e.stamp + TTL

\* `now` is taken once; an entry that is not too old is the answer.
Ask(t) ==
  LET hits == {e \in cached : Fresh(e, Present)} IN
  /\ reader[t].at = "idle"
  /\ reader' = [reader EXCEPT ![t] = [at |-> IF hits # {} THEN "has" ELSE "asking", now |-> Present,
                                      value |-> {e.value : e \in hits}]]
  /\ UNCHANGED <<vault, cached>>

\* _vault_read: sometime later the vault answers.
VaultAnswers(t) ==
  /\ reader[t].at = "asking"
  /\ reader' = [reader EXCEPT ![t].at = "read", ![t].value = {vault[Present]}]
  /\ UNCHANGED <<vault, cached>>

\* The vault cannot be reached, does not know the client or has no such key.
VaultRefuses(t) ==
  /\ reader[t].at = "asking"
  /\ reader' = [reader EXCEPT ![t].at = "idle"]
  /\ UNCHANGED <<vault, cached>>

\* Mutant of CacheIt: the entry gets the time at which it is stored.
CacheItNow(t) ==
  /\ reader[t].at = "read"
  /\ cached' = {[stamp |-> Present, value |-> v] : v \in reader[t].value}
  /\ reader' = [reader EXCEPT ![t].at = "has"]
  /\ UNCHANGED vault

CacheIt(t) ==
  /\ reader[t].at = "read"
  /\ cached' = {[stamp |-> reader[t].now, value |-> v] : v \in reader[t].value}
  /\ reader' = [reader EXCEPT ![t].at = "has"]
  /\ UNCHANGED vault

Forget(t) ==
  /\ reader[t].at = "has"
  /\ reader' = [reader EXCEPT ![t] = [at |-> "idle", now |-> 0, value |-> {}]]
  /\ UNCHANGED <<vault, cached>>

ClearCache ==
  /\ cached' = {}
  /\ UNCHANGED <<vault, reader>>

\* Time passes, and the secret may be another one.
Tick(v) ==
  /\ Present < MaxClock
  /\ vault' = Append(vault, v)
  /\ UNCHANGED <<cached, reader>>

SecretsNext ==
  \/ \E t \in SecretReaders : Ask(t) \/ VaultAnswers(t) \/ VaultRefuses(t) \/ CacheIt(t) \/ Forget(t)
  \/ ClearCache
  \/ \E v \in SecretValues : Tick(v)

SecretsSpec == SecretsInit /\ [][SecretsNext]_secretVars

-----------------------------------------------------------------------------
\* What a caller gets was the vault's value at some time since TTL before it asked, however
\* slow the vault is and whoever else writes the cache or clears it: a rotated secret is
\* gone from every answer that is asked for TTL after the rotation.
SecretIsRecent ==
  \A t \in SecretReaders : reader[t].at = "has" =>
    \A v \in reader[t].value : \E i \in 1..Present : vault[i] = v /\ reader[t].now < i + TTL

\* Its inductive form: the value of an entry, or of a thread that has read, is one the vault had
\* at or after the stamp, or the `now`, that goes with it.
HadSince(v, n) == \E i \in n..Present : vault[i] = v
EntriesHad == \A e \in cached : e.stamp > 0 /\ HadSince(e.value, e.stamp)
ReadersHad ==
  \A t \in SecretReaders :
    /\ reader[t].at # "idle" => reader[t].now \in 1..Present
    /\ reader[t].at = "read" => \A v \in reader[t].value : HadSince(v, reader[t].now)
SecretsInv == SecretsTypeOK /\ EntriesHad /\ ReadersHad /\ SecretIsRecent
=============================================================================
