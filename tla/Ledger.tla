------------------------------- MODULE Ledger -------------------------------
(***************************************************************************)
(* LedgerService of apps/ledger/service/src/ledger.rs: a monotonic clock,  *)
(* the map key_id -> PerKeyLedger, and its four RPC handlers create_key,   *)
(* delete_key, authorize_access and revoke_access.  Every handler runs to  *)
(* completion on &mut self, so each one is a single atomic action.         *)
(*                                                                         *)
(* Data is abstracted to what the properties tell apart: a timestamp is a  *)
(* whole number of seconds, a keypair is a fresh number drawn from a       *)
(* counter, a policy's bytes are a model value whose SHA-256 digest is the *)
(* value itself (no collisions), a blob header is the record it decodes to *)
(* and a ciphertext is the public key and the associated data it was       *)
(* sealed with.  Clients that encrypt blobs to ledger keys are part of the *)
(* environment.                                                            *)
(***************************************************************************)
EXTENDS BudgetTracker

CONSTANTS
  KeyIds,             \* the u32 key ids OsRng can draw
  PolicyBytes,        \* serialized DataAccessPolicy byte strings
  Decode,             \* DataAccessPolicy::decode: bytes -> transforms (its
                      \* domain is the set of bytes that parse)
  WireMaxSeconds,     \* largest `seconds` of a proto Timestamp (i64::MAX)
  MaxTtl,             \* largest ttl seconds a request carries
  MaxNanosCarry,      \* whole seconds the i32 `nanos` of a Timestamp adds
                      \* when parsed without normalisation (2 for i32::MAX)
  BadTimestamp,       \* a `now` that does not convert (negative fields)
  BadDuration,        \* a `ttl` that does not convert (negative)
  MalformedHeader,    \* blob_header bytes that do not decode
  GarbageCiphertext,  \* key material sealed by nobody the ledger knows
  AttestationFailed,  \* verify_attestation rejected the evidence
  NoGrant             \* `last.grant` of a call that granted nothing

ASSUME WireMaxSeconds \in Nat /\ MaxTtl \in Nat /\ MaxNanosCarry \in Nat
ASSUME \A p \in DOMAIN Decode : p \in PolicyBytes /\ Decode[p] \in Seq(Transform)

VARIABLES
  current_time,       \* LedgerService.current_time
  per_key_ledgers,    \* LedgerService.per_key_ledgers
  next_public_key,    \* gen_keypair's source of fresh keypairs
  ciphertexts,        \* blobs clients have encrypted to ledger keys
  last,               \* the reply of the most recent call
  revoked_log,        \* history: every <<public key, blob>> ever revoked
  grant_count         \* history: grants per <<public key, blob, hash, index>>

vars == <<current_time, per_key_ledgers, next_public_key, ciphertexts, last,
          revoked_log, grant_count>>

(* parse_timestamp: Duration::new(seconds, nanos) carries nanos beyond one *)
(* second into the seconds, so a valid `now` reaches past i64::MAX.        *)
Time == 0..(WireMaxSeconds + MaxNanosCarry)

(* u64::MAX = 2 * i64::MAX + 1: the largest seconds of a Rust Duration.    *)
U64MaxSeconds == 2 * WireMaxSeconds + 1

(* How a handler that panics ends: it never returns, and with it the       *)
(* service stops.                                                          *)
Panics == {"PanicOnAdd", "PanicOnUnwrap"}
Running == last.code \notin Panics

(* Sha256::digest of a policy's bytes (modelled as collision-free).        *)
Sha256(p) == p

Header == [blob_id : Blobs, public_key_id : KeyIds, access_policy_sha256 : PolicyBytes]

Reply(op, code, grant) == [op |-> op, code |-> code, grant |-> grant]

-----------------------------------------------------------------------------
(* Mutation: eviction keeps a key that expires exactly now.              *)
update_current_time_inclusive(now) ==
  IF now = BadTimestamp \/ now < current_time
  THEN [ok |-> FALSE, time |-> current_time, ledgers |-> per_key_ledgers]
  ELSE [ok |-> TRUE, time |-> now,
        ledgers |-> [k \in {j \in DOMAIN per_key_ledgers :
                              per_key_ledgers[j].expiration >= now}
                       |-> per_key_ledgers[k]]]

(* Mutation: the monotonicity check is dropped; only a `now` that does not *)
(* parse is rejected.                                                     *)
update_current_time_accepts_past(now) ==
  IF now = BadTimestamp
  THEN [ok |-> FALSE, time |-> current_time, ledgers |-> per_key_ledgers]
  ELSE [ok |-> TRUE, time |-> now,
        ledgers |-> [k \in {j \in DOMAIN per_key_ledgers :
                              per_key_ledgers[j].expiration > now}
                       |-> per_key_ledgers[k]]]

(* LedgerService::update_current_time: reject a `now` that does not parse *)
(* or goes backwards, else move the clock and keep only the keys whose    *)
(* expiration is still ahead of it.                                       *)
update_current_time(now) ==
  IF now = BadTimestamp \/ now < current_time
  THEN [ok |-> FALSE, time |-> current_time, ledgers |-> per_key_ledgers]
  ELSE [ok |-> TRUE, time |-> now,
        ledgers |-> [k \in {j \in DOMAIN per_key_ledgers :
                              per_key_ledgers[j].expiration > now}
                       |-> per_key_ledgers[k]]]

(* attestation::verify_attestation yields the recipient application (its  *)
(* tag) or fails; which, depends on evidence the model does not look into, *)
(* so the outcome is an input of the request.                              *)
Attestations == Tags \cup {AttestationFailed}

(* cfc_crypto::rewrap_symmetric_key succeeds iff the key material was      *)
(* sealed to this public key with exactly these associated data.          *)
rewrap_symmetric_key(ct, public_key, unwrap_aad) ==
  /\ ct # GarbageCiphertext
  /\ ct.pk = public_key
  /\ ct.aad = unwrap_aad

(* Mutation: the policy digest is never compared with the header's.      *)
PolicyMatchesHeaderUnchecked(policy, hash) == TRUE

(* authorize_access compares Sha256::digest(access_policy) with the       *)
(* header's access_policy_sha256 before decoding the policy.              *)
PolicyMatchesHeader(policy, hash) == Sha256(policy) = hash

(* Mutation: the generator hands out the previous keypair again.         *)
gen_keypair_reused == next_public_key - 1

(* cfc_crypto::gen_keypair: a keypair no earlier call returned.           *)
gen_keypair == next_public_key

(* Mutation: the update_budget result is dropped, nothing is debited.    *)
CommitsNever(step) == FALSE

(* Mutation: the budget is debited before the re-wrap, so a re-wrap      *)
(* failure still consumes it.                                             *)
CommitsBeforeRewrap(step) == step \in {"Ok", "RewrapFailed"}

(* Whether authorize_access commits the budget: only after the re-wrap     *)
(* succeeded, so a decryption error consumes nothing.                      *)
Commits(step) == step = "Ok"

StatusCode(step) ==
  CASE step \in {"BadNow", "BadAttestation", "BadHeader", "PolicyMismatch",
                 "BadPolicy", "RewrapFailed"}         -> "InvalidArgument"
    [] step = "NoKey"                                 -> "NotFound"
    [] OTHER                                          -> step

-----------------------------------------------------------------------------
Init ==
  /\ current_time = 0
  /\ per_key_ledgers = <<>>
  /\ next_public_key = 1
  /\ ciphertexts = {}
  /\ last = Reply("None", "Ok", NoGrant)
  /\ revoked_log = {}
  /\ grant_count = <<>>

(* The serialization of PublicKeyDetails after the insert: `issued` is    *)
(* current_time.as_secs().try_into().unwrap(), which panics beyond         *)
(* i64::MAX; `expiration` beyond it is an InvalidArgument error.           *)
PublicKeyDetailsCode(issued, expiration) ==
  CASE issued > WireMaxSeconds     -> "PanicOnUnwrap"
    [] expiration > WireMaxSeconds -> "InvalidArgument"
    [] OTHER                       -> "Ok"

(* create_key: advance the clock, parse the ttl, add it to the clock      *)
(* (Duration's `+` panics past u64::MAX), draw an unused key id, insert a *)
(* fresh keypair, then serialize the details -- after the insert.         *)
create_key(now, ttl) ==
  LET u == update_current_time(now) IN
  \/ /\ ~u.ok
     /\ last' = Reply("CreateKey", "InvalidArgument", NoGrant)
     /\ UNCHANGED <<current_time, per_key_ledgers, next_public_key, ciphertexts,
                    revoked_log, grant_count>>
  \/ /\ u.ok
     /\ ttl = BadDuration
     /\ current_time' = u.time
     /\ per_key_ledgers' = u.ledgers
     /\ last' = Reply("CreateKey", "InvalidArgument", NoGrant)
     /\ UNCHANGED <<next_public_key, ciphertexts, revoked_log, grant_count>>
  \/ /\ u.ok
     /\ ttl # BadDuration
     /\ u.time + ttl > U64MaxSeconds
     /\ current_time' = u.time
     /\ per_key_ledgers' = u.ledgers
     /\ last' = Reply("CreateKey", "PanicOnAdd", NoGrant)
     /\ UNCHANGED <<next_public_key, ciphertexts, revoked_log, grant_count>>
  \/ /\ u.ok
     /\ ttl # BadDuration
     /\ u.time + ttl <= U64MaxSeconds
     /\ \E key_id \in KeyIds \ DOMAIN u.ledgers :
          LET expiration == u.time + ttl IN
          /\ current_time' = u.time
          /\ per_key_ledgers' =
               (key_id :> [public_key |-> gen_keypair,
                           expiration |-> expiration,
                           budget_tracker |-> NewTracker]) @@ u.ledgers
          /\ next_public_key' = next_public_key + 1
          /\ last' = Reply("CreateKey", PublicKeyDetailsCode(u.time, expiration), NoGrant)
          /\ UNCHANGED <<ciphertexts, revoked_log, grant_count>>

(* delete_key: remove the entry, NotFound if absent; the clock is not read.*)
delete_key(key_id) ==
  /\ per_key_ledgers' = [k \in DOMAIN per_key_ledgers \ {key_id} |-> per_key_ledgers[k]]
  /\ last' = Reply("DeleteKey",
                   IF key_id \in DOMAIN per_key_ledgers THEN "Ok" ELSE "NotFound",
                   NoGrant)
  /\ UNCHANGED <<current_time, next_public_key, ciphertexts, revoked_log, grant_count>>

(* authorize_access: the ordered checks of the handler, first failure      *)
(* wins; the clock advance and eviction of update_current_time persist    *)
(* whatever happens after them, the budget only on success.               *)
authorize_access(now, app, header, policy, ct) ==
  LET u      == update_current_time(now)
      kid    == header.public_key_id
      pkl    == u.ledgers[kid]
      hash   == header.access_policy_sha256
      ts     == Decode[policy]
      found  == FindMatchingTransform(pkl.budget_tracker, header.blob_id, ts, hash, app)
      upd    == UpdateBudget(pkl.budget_tracker, header.blob_id, found.index, ts, hash)
      step   == CASE ~u.ok                                   -> "BadNow"
                  [] app = AttestationFailed                 -> "BadAttestation"
                  [] header = MalformedHeader                -> "BadHeader"
                  [] ~PolicyMatchesHeader(policy, hash)      -> "PolicyMismatch"
                  [] policy \notin DOMAIN Decode             -> "BadPolicy"
                  [] kid \notin DOMAIN u.ledgers             -> "NoKey"
                  [] found.code # "Ok"                       -> found.code
                  [] ~rewrap_symmetric_key(ct, pkl.public_key, header) -> "RewrapFailed"
                  [] ~upd.ok                                 -> "Internal"
                  [] OTHER                                   -> "Ok"
      gkey   == <<pkl.public_key, header.blob_id, hash, found.index>>
      grant  == [pk |-> pkl.public_key, blob_id |-> header.blob_id, policy |-> policy]
  IN
  /\ current_time' = u.time
  /\ per_key_ledgers' = IF Commits(step)
                        THEN [u.ledgers EXCEPT ![kid].budget_tracker = upd.tracker]
                        ELSE u.ledgers
  /\ last' = Reply("AuthorizeAccess", StatusCode(step),
                   IF step = "Ok" THEN grant ELSE NoGrant)
  /\ grant_count' = IF step = "Ok"
                    THEN (gkey :> (IF gkey \in DOMAIN grant_count
                                   THEN grant_count[gkey] + 1 ELSE 1)) @@ grant_count
                    ELSE grant_count
  /\ UNCHANGED <<next_public_key, ciphertexts, revoked_log>>

(* Mutation: revoke_access exhausts every blob of the key, not the named   *)
(* one (the revocation is applied to the key instead of to the blob).     *)
revoke_access_whole_key(key_id, blob) ==
  \/ /\ key_id \notin DOMAIN per_key_ledgers
     /\ last' = Reply("RevokeAccess", "NotFound", NoGrant)
     /\ UNCHANGED <<current_time, per_key_ledgers, next_public_key, ciphertexts,
                    revoked_log, grant_count>>
  \/ /\ key_id \in DOMAIN per_key_ledgers
     /\ per_key_ledgers' = [per_key_ledgers EXCEPT ![key_id].budget_tracker.revoked =
                              Blobs]
     /\ revoked_log' = revoked_log \cup {<<per_key_ledgers[key_id].public_key, blob>>}
     /\ last' = Reply("RevokeAccess", "Ok", NoGrant)
     /\ UNCHANGED <<current_time, next_public_key, ciphertexts, grant_count>>

(* Mutation: revoke_access exhausts the blob in a copy of the per-key     *)
(* ledger (get instead of get_mut), so the stored tracker never changes.   *)
revoke_access_on_copy(key_id, blob) ==
  \/ /\ key_id \notin DOMAIN per_key_ledgers
     /\ last' = Reply("RevokeAccess", "NotFound", NoGrant)
     /\ UNCHANGED <<current_time, per_key_ledgers, next_public_key, ciphertexts,
                    revoked_log, grant_count>>
  \/ /\ key_id \in DOMAIN per_key_ledgers
     /\ revoked_log' = revoked_log \cup {<<per_key_ledgers[key_id].public_key, blob>>}
     /\ last' = Reply("RevokeAccess", "Ok", NoGrant)
     /\ UNCHANGED <<current_time, per_key_ledgers, next_public_key, ciphertexts, grant_count>>

(* revoke_access: NotFound for an unknown key, else exhaust the blob in    *)
(* that key's tracker; the clock is not read.                              *)
revoke_access(key_id, blob) ==
  \/ /\ key_id \notin DOMAIN per_key_ledgers
     /\ last' = Reply("RevokeAccess", "NotFound", NoGrant)
     /\ UNCHANGED <<current_time, per_key_ledgers, next_public_key, ciphertexts,
                    revoked_log, grant_count>>
  \/ /\ key_id \in DOMAIN per_key_ledgers
     /\ per_key_ledgers' = [per_key_ledgers EXCEPT ![key_id].budget_tracker =
                              ConsumeBudget(@, blob)]
     /\ revoked_log' = revoked_log \cup {<<per_key_ledgers[key_id].public_key, blob>>}
     /\ last' = Reply("RevokeAccess", "Ok", NoGrant)
     /\ UNCHANGED <<current_time, next_public_key, ciphertexts, grant_count>>

(* A client seals a blob's symmetric key to a live ledger key, with the    *)
(* encoded BlobHeader (naming that key and a policy digest) as AAD.        *)
encrypt_message(key_id, blob, policy) ==
  /\ key_id \in DOMAIN per_key_ledgers
  /\ ciphertexts' = ciphertexts \cup
       {[pk |-> per_key_ledgers[key_id].public_key,
         aad |-> [blob_id |-> blob, public_key_id |-> key_id,
                  access_policy_sha256 |-> Sha256(policy)]]}
  /\ UNCHANGED <<current_time, per_key_ledgers, next_public_key, last,
                 revoked_log, grant_count>>

(* Calls are served one at a time until a handler panics.                *)
Next ==
  /\ Running
  /\ \/ \E now \in Time \cup {BadTimestamp}, ttl \in (0..MaxTtl) \cup {BadDuration} :
          create_key(now, ttl)
     \/ \E key_id \in KeyIds : delete_key(key_id)
     \/ \E now \in Time \cup {BadTimestamp}, app \in Attestations,
           header \in Header \cup {MalformedHeader}, policy \in PolicyBytes :
          \E ct \in {c \in ciphertexts : c.aad = header} \cup {GarbageCiphertext} :
            authorize_access(now, app, header, policy, ct)
     \/ \E key_id \in KeyIds, blob \in Blobs : revoke_access(key_id, blob)
     \/ \E key_id \in KeyIds, blob \in Blobs, policy \in PolicyBytes :
          encrypt_message(key_id, blob, policy)

Spec == Init /\ [][Next]_vars

-----------------------------------------------------------------------------
(* Every variable has the shape the code gives it.                        *)
TypeOK ==
  /\ current_time \in Time
  /\ DOMAIN per_key_ledgers \subseteq KeyIds
  /\ \A k \in DOMAIN per_key_ledgers :
       /\ per_key_ledgers[k].public_key \in 1..(next_public_key - 1)
       /\ per_key_ledgers[k].expiration \in 0..U64MaxSeconds
       /\ per_key_ledgers[k].budget_tracker.revoked \subseteq Blobs
  /\ next_public_key \in Nat \ {0}
  /\ last.op \in {"None", "CreateKey", "DeleteKey", "AuthorizeAccess", "RevokeAccess"}
  /\ last.code \in {"Ok", "InvalidArgument", "NotFound", "FailedPrecondition",
                    "ResourceExhausted", "Internal"} \cup Panics
  /\ revoked_log \subseteq (1..(next_public_key - 1)) \X Blobs

Grant == last.grant

(* Policy binding (authorize_access, the digest check and the re-wrap with *)
(* the raw header as AAD): a granted request enforced the very policy the  *)
(* data owner committed to when sealing that blob to that key, whatever    *)
(* header and policy bytes the untrusted caller supplied.                  *)
PolicyEnforcedIsOwners ==
  Grant # NoGrant =>
    \E c \in ciphertexts :
      /\ c.pk = Grant.pk
      /\ c.aad.blob_id = Grant.blob_id
      /\ c.aad.access_policy_sha256 = Sha256(Grant.policy)

(* Revocation (revoke_access, then find_matching_transform): once a blob   *)
(* was revoked under a keypair, no later authorize_access grants it under  *)
(* that keypair, whatever policy, transform or application it names.       *)
NoGrantAfterRevocation ==
  Grant # NoGrant => <<Grant.pk, Grant.blob_id>> \notin revoked_log

(* Expiry (update_current_time's eviction before the key lookup): a grant  *)
(* is only ever made with a keypair that is still in the map and whose     *)
(* expiration is ahead of the clock the request moved to.                  *)
NoGrantFromExpiredKey ==
  Grant # NoGrant =>
    \E k \in DOMAIN per_key_ledgers :
      /\ per_key_ledgers[k].public_key = Grant.pk
      /\ per_key_ledgers[k].expiration > current_time

(* Budget (find_matching_transform, update_budget): across the whole       *)
(* history, the grants of one transform of one policy for one blob under  *)
(* one keypair never exceed that transform's Times(n) budget.              *)
BudgetRespected ==
  \A g \in DOMAIN grant_count :
    LET budget == Decode[g[3]][g[4]].budget
    IN  budget # Unlimited => grant_count[g] <= budget

(* A failed authorize_access (the re-wrap failing included) leaves every  *)
(* budget tracker as it was: errors never consume budget (spec 8.6).      *)
FailedAuthorizeKeepsBudget ==
  [][ (last'.op = "AuthorizeAccess" /\ last'.code # "Ok") =>
        \A k \in DOMAIN per_key_ledgers' \cap DOMAIN per_key_ledgers :
          per_key_ledgers'[k].budget_tracker = per_key_ledgers[k].budget_tracker ]_vars

(* Invariant I1 of the spec: every key in the map expires strictly after  *)
(* the current time (create_key with a zero or absent ttl breaks it).     *)
KeysExpireInFuture ==
  \A k \in DOMAIN per_key_ledgers : per_key_ledgers[k].expiration > current_time

(* Every operation is transactional (spec 7): a create_key that returns an *)
(* error leaves no new key behind (the overflow error is raised after the  *)
(* insert).                                                                *)
FailedCreateKeyAddsNoKey ==
  [][ (last'.op = "CreateKey" /\ last'.code # "Ok") =>
        DOMAIN per_key_ledgers' \subseteq DOMAIN per_key_ledgers ]_vars


(* create_key computes current_time + ttl without panicking: spec 4.1.1   *)
(* step 3 makes an expiration overflow an InvalidArgument error, and the  *)
(* comment on the addition says it cannot overflow.                      *)
ExpirationAddNeverPanics == last.code # "PanicOnAdd"

(* create_key serializes its `issued` time, the clock it moved to, without *)
(* panicking: every call succeeds or returns a status code of the table   *)
(* of spec 7 (spec 8, universal property 1).                               *)
IssuedConversionNeverPanics == last.code # "PanicOnUnwrap"

(* What the history allows for sealed blob c, policy p and application    *)
(* app: c's header names p's digest and a key id whose live entry still   *)
(* holds the keypair c was sealed to, the blob was never revoked under    *)
(* that keypair, and a transform of p matching app granted fewer times    *)
(* than its Times(n) budget (or has none).                                *)
GrantsSoFar(g) == IF g \in DOMAIN grant_count THEN grant_count[g] ELSE 0

HistoryAllows(c, p, app) ==
  LET kid == c.aad.public_key_id
      h   == c.aad.access_policy_sha256
  IN  /\ h = Sha256(p)
      /\ kid \in DOMAIN per_key_ledgers
      /\ per_key_ledgers[kid].public_key = c.pk
      /\ per_key_ledgers[kid].expiration > current_time
      /\ <<c.pk, c.aad.blob_id>> \notin revoked_log
      /\ \E i \in 1..Len(Decode[p]) :
           /\ Matches(Decode[p][i], app)
           /\ \/ Decode[p][i].budget = Unlimited
              \/ GrantsSoFar(<<c.pk, c.aad.blob_id, h, i>>) < Decode[p][i].budget

(* No budget is lost (spec 8 property 4, scenario 6): whatever grants,     *)
(* failed calls and revocations of other blobs, transforms, policies or   *)
(* keys came before, authorize_access at the current time grants a sealed *)
(* blob whenever the history allows it -- the tracker never debits or     *)
(* revokes more than the grants and revocations of that very blob.        *)
GrantWhileBudgetLeft ==
  Running =>
    \A c \in ciphertexts, p \in DOMAIN Decode, app \in Tags :
      HistoryAllows(c, p, app) =>
        ENABLED (authorize_access(current_time, app, c.aad, p, c) /\ last'.code = "Ok")

=============================================================================
