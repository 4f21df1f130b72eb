# TLA+ models of the confidential-compute ledger

This directory models the ledger service in
`src/apps/ledger/service/src/ledger.rs`, together with the budget tracker,
attestation and crypto collaborators it calls, and checks them with TLC.

## 1. Inventory

| Component | Source | State | Operations | Status |
|---|---|---|---|---|
| LedgerService | `ledger.rs` 54-303 | `current_time`, `per_key_ledgers: key_id -> PerKeyLedger{private_key, public_key, expiration, budget_tracker}` | `create_key`, `delete_key`, `authorize_access`, `revoke_access`, plus the helper `update_current_time` | modelled (`Ledger`) |
| BudgetTracker | `crate::budget`. Not in `src/`, so it is written from spec §4.3 | per key: the revoked blob ids, and the consumptions per (blob, policy hash, transform) | `find_matching_transform`, `update_budget`, `consume_budget` | from the spec (`BudgetTracker`) |
| Attestation adapter | call at `ledger.rs` 193 | none | `verify_attestation` → application tag or error | by its outcome |
| Crypto adapter | calls at `ledger.rs` 132, 254 | none (key material lives in PerKeyLedger) | `gen_keypair`, `rewrap_symmetric_key`; `encrypt_message` (clients, tests) | by its contract |
| Tablet data cache | `tablet_cache/.../data.rs` | none: every method is `todo!()` | — | not modelled |
| Runtime mocks | `runtime/src/mock.rs` | mockall test doubles | — | not modelled |
| Proto build | `proto/build.rs` | build tooling | — | not modelled |
| Unit tests of the ledger | `ledger.rs` 306-946 | a fresh service per test | the calls and assertions of each test | modelled (`LedgerTests`) |

**Interaction.** A client calls `create_key` and learns a public key and its
id. It seals a blob's symmetric key to that public key, using the encoded
`BlobHeader` as the AEAD associated data. The header carries the blob id, the
key id and the SHA-256 of the access policy. A recipient then calls
`authorize_access` with the header, the policy and its attestation. The
handler runs ordered checks: clock, attestation, header decode, policy digest,
policy decode, key lookup, then transform selection in the tracker. It then
re-wraps the key with the raw header as the unwrap AAD, and only after that
debits the budget. `revoke_access` exhausts a blob under a key.
`update_current_time` evicts expired keys on every call that carries `now`.

**What is hard.** The handlers are synchronous on `&mut self`, so nothing
interleaves. The difficulty lies in:
- long sequences of calls from many parties, and which check happens first;
- partial failure inside one handler: state already changed when an error is
  returned;
- numeric boundaries: the expiry comparison, and the u64 versus signed wire
  range;
- a caller who is not trusted: any header, any policy, any ciphertext.

**Properties that make it correct:**
- a grant enforces the policy the data owner committed to;
- no grant after a revocation;
- no grant with an expired key;
- Times(n) budgets hold across the whole history;
- failures consume no budget;
- the clock is monotonic;
- every key in the map expires in the future (I1);
- operations are transactional.

## 2. Modules

- `BudgetTracker.tla` holds the tracker as operators on a tracker value:
  `NewTracker`, `FindMatchingTransform` (first match in policy order,
  revocation first), `UpdateBudget` and `ConsumeBudget`. These are written
  from the spec.
- `Ledger.tla` extends `BudgetTracker`. Its variables:
  - `current_time` and `per_key_ledgers` are the service's fields;
  - `next_public_key` is the source of fresh keypairs;
  - `ciphertexts` holds the blobs clients sealed;
  - `last` is the reply to the most recent call;
  - `revoked_log` and `grant_count` are history variables for the
    properties.

  There is one action per handler (`create_key`, `delete_key`,
  `authorize_access`, `revoke_access`), each modelling the whole handler with
  its error paths. A client action, `encrypt_message`, seals blobs.
  `authorize_access` computes the first failing check as a `step`, maps it to
  the status code, and keeps the clock advance on every path except a bad
  `now`. It commits the budget only when `Commits(step)` holds.
- `LedgerKeyLoop.tla` extends `Ledger` and takes `create_key` apart at its
  key-id retry loop (lines 124-128). The steps are:
  - `CreateKeyStart` handles everything up to the loop: clock, eviction and
    ttl. Its error paths return at once.
  - `CreateKeyDraw(key_id)` is one `OsRng` draw. A used id changes nothing,
    so the loop goes round again. A free id ends the loop and runs the rest
    of the handler: keypair, insert, and the overflow error after the insert.

  The variable `creating` holds the call inside its loop. All other handlers
  are disabled while it is set, because the loop holds `&mut self`. The
  module serves one question: whether a call inside the loop returns
  (`CreateKeyReturns`). It is not checked to refine `Ledger`, whose
  `create_key` is a translation of the same lines and so would agree with
  it whatever the code did.
- `LedgerAbstract.tla` is what the ledger promises, without key ids, status
  codes or the order of checks. Its state is:
  - the live keypairs, each with its expiration, revoked blobs and spent
    budget;
  - the keypairs issued;
  - the blobs sealed;
  - the last grant.

  `Grant` requires all of the following: the keypair is live after the clock
  moves, the blob was sealed to it under that policy, the blob is not
  revoked, and *some* transform matches with budget left. The abstract does
  not say which transform. Every other call is `Deny`, which may only move the
  clock and evict. `MC_LedgerRefinement.tla` maps `Ledger` onto it: a
  keypair is the public key of a map entry, its revoked blobs are those the
  history `revoked_log` records under it (so a revocation the tracker fails
  to store shows up as a forbidden grant), and its tracker's consumptions
  carry over, with the policy digest standing for the policy. The abstract
  has no status codes, so the refinement says nothing about which code a
  call returns: a `create_key` that fails yet adds a key (finding 2) still
  refines it, and `FailedCreateKeyAddsNoKey` is the property about that.
- `LedgerTests.tla` runs the unit tests of `ledger.rs` as scenarios. Each
  `test_*` definition is the test's sequence of calls, with the status each
  one asserts. The driver feeds the calls to the `Ledger` actions from a fresh
  service and records what each returned (`obs`). The id a test gets from
  `create_key` is whatever the draw yields, so every test runs for every id.
- The `MC_*.tla` modules with their `.cfg` files instantiate the models for
  TLC.

**Abstractions.**
- Seconds stand for `Duration`. Sub-second parts are dropped, except the
  whole seconds that an unnormalised `nanos` field carries in
  `parse_timestamp`. `MaxNanosCarry` (2 for an i32) lets a `now` reach
  `WireMaxSeconds + 2`.
- `U64MaxSeconds = 2 * WireMaxSeconds + 1` keeps the widths in the ratio of
  u64 to i64.
- A panic ends the call with the outcome `PanicOnAdd` or `PanicOnUnwrap` in
  `last.code`. `Next` is guarded by `Running`, so nothing follows a panic: the
  service is gone, and with it all of its in-memory state.
- `WireMaxSeconds` stands for `i64::MAX`, so a small value keeps the overflow
  reachable.
- SHA-256 is injective: the digest of a policy model value is the value itself.
- A ciphertext is the public key and the AAD it was sealed with. The re-wrap
  succeeds iff both match.
- The attestation outcome is an input.
- A request's key material is either a blob sealed with exactly that header or
  garbage. Any other blob fails the re-wrap exactly as garbage does.

## 3. Runs

| Run | Cfg | Expect | Shows |
|---|---|---|---|
| ledger_safety | `MC_Ledger.cfg` | pass | `TypeOK`, `PolicyEnforcedIsOwners`, `NoGrantAfterRevocation`, `NoGrantFromExpiredKey`, `BudgetRespected`, `FailedAuthorizeKeepsBudget` hold for every sequence of calls within the bounds |
| ledger_refines_abstract | `MC_LedgerRefinement.cfg` | pass | `AbstractSpec`: every behaviour of the handlers is allowed by `LedgerAbstract`: every grant meets all four conditions at once, a call that grants nothing changes no revocation or budget, and a revocation the tracker fails to store is caught as a forbidden grant. It says nothing about status codes, so a failing call that adds a key passes it |
| ledger_grants_when_allowed | `MC_Ledger_Grants.cfg` | pass | `GrantWhileBudgetLeft`: `authorize_access` still grants any sealed blob whose history allows it, whatever grants, failures, revocations of the other blob, deletions and id reuse came before. This catches over-denial, which the refinement cannot: a ledger that denies everything still refines `LedgerAbstract` |
| ledger_grants_isolation | `MC_Ledger_GrantsIsolation.cfg` | pass | `GrantWhileBudgetLeft` with two sealed blobs under one blob id: grants under one policy never cost another policy budget, and a stale ciphertext of the keypair a reused id held before fails its re-wrap without debiting the new keypair |
| key_loop_full | `MC_LedgerKeyLoop_Full.cfg` | violation | `CreateKeyReturns`: with both ids held by live keys (two ordinary keys expiring at 2 while the clock is at 1) the loop draws forever |
| unit_tests | `MC_LedgerTests.cfg` | pass | `TestAssertionsHold`: every assertion of the 15 unit tests holds of the model, for every id the draw yields |
| ledger_issued_unwrap_panic | `MC_Ledger_IssuedPanic.cfg` | violation | `IssuedConversionNeverPanics`: `now` = i64::MAX s + ≥1e9 ns is accepted, and `create_key` then panics on the `issued` unwrap after inserting its key |
| ledger_expiration_add_panic | `MC_Ledger_AddPanic.cfg` | violation | `ExpirationAddNeverPanics`: with that `now` and a ttl near i64::MAX, `current_time + ttl` exceeds u64::MAX and the addition panics |
| ledger_expiry_invariant | `MC_Ledger_Expiry.cfg` | violation | `create_key(now=0, ttl=0)` stores a key with expiration = current_time, breaking I1 |
| ledger_create_key_transactional | `MC_Ledger_CreateTxn.cfg` | violation | `create_key(now=2, ttl=1)` with wire max 2 returns InvalidArgument but leaves the key in the map |

**Bounds.**
- Two key ids. Two keys can be live at once, and an id is reused after a
  delete or an expiry.
- One blob id.
- Policies:
  - `p1` = <<tag "a", Times(1)>>, <<no matcher, Times(1)>>. It exercises the
    tie-break and the fall-through to the next matching transform;
  - `p2` = <<tag "b", unlimited>>;
  - `p3` does not decode.
- Seconds 0..2, ttl 0..1, wire maximum 2. A key can expire, a key can sit
  exactly at its boundary, and `now + ttl` can overflow.
- At most 2 keypairs, 1 sealed blob, and 2 grants per transform. Two grants
  are enough to overspend a Times(1) budget.
- Symmetry over key ids and blob ids. Ids are random or opaque, and no
  property names one.

`ledger_grants_when_allowed` uses two blob ids, so a revocation of one blob
can be checked against a grant of the other (spec scenario 6). To stay
within limits it uses one key id; ids are still reused after a delete or an
expiry. It has 11.4k states and takes about 45 s. The property is stated with
`ENABLED`: in every reachable state, the `authorize_access` step at the
current time that a history-allowed request would take is one that returns
`Ok`. The history is `revoked_log` and `grant_count`, not the trackers, so
the property compares the trackers with what actually happened.

`ledger_grants_isolation` checks the same property with one blob id, one
key id and two sealed blobs (`MaxCiphertexts <- TwoCiphertexts`). The blob
can then be sealed under `p1` and `p2`, or under a keypair and, after a
delete or an expiry, under the next keypair at the same id. It has 18.3k
states and takes about 50 s. Two blob ids with two sealed blobs did not
finish within 10 minutes.

The safety and refinement runs finish in about 40 s with 8.7k distinct states.

Both panic runs use `MaxNanosCarry = 2`. The add-panic run also uses
`MaxTtl = 2`, so a ttl can reach `WireMaxSeconds`. The passing runs keep
`MaxNanosCarry = 0`, that is, normalised timestamps, so that their state
spaces stay within limits.

The key-loop run uses `KeyLoopBound`. It keeps the keypair bound but lets no
client seal a blob. Whether the loop ends depends only on which ids the map
holds, and sealing, grants and revocations never change that. It uses no
symmetry, which is unsound with liveness.

The test run uses the seconds the tests use (1000, 1100, 3600, 10^9). The
largest TLC integer stands for `i64::MAX`, and no test reaches it. There are
three key ids, so the two keys of `test_create_key` can get any pair of
distinct ids. It has 150 states. Deadlock is not checked because a test ends
after its last call.

**Fairness.** Only `LedgerKeyLoop.LSpec` assumes any. It is weak fairness of
a draw that ends the loop (`CreateKeyDraw` with a free id). While the loop
runs, nothing else can change the map, so if a free id exists it stays free
and the action stays enabled. `OsRng` is uniform, so each iteration draws a
free id with positive probability, and with probability 1 one is eventually
drawn. Callers get no fairness: the service only reacts to calls, and the code
does not promise that any call ever arrives.

**Findings.**
1. A zero or absent ttl gives a key with expiration equal to `current_time`,
   which contradicts I1. The next call carrying `now` evicts it.
2. `create_key` is not transactional. On the expiration-overflow error it has
   already inserted the key. The orphan key's expiration lies beyond any
   accepted `now`, so it never expires, and its id was never returned to the
   caller.
3. The key-id loop at line 126 has no bound. With every id held by a live key
   it never returns, whereas spec §9 asks for capped retries that report
   `Internal`. With 2^32 ids this is far off, but finding 2 makes it worse:
   each overflow error leaves a key that never expires, so such calls
   steadily fill the id space.
4. `parse_timestamp` (line 88) accepts a `nanos` field of 10^9 or more and
   carries it into the seconds. `now` can then exceed i64::MAX seconds.
   - The next `create_key` inserts its key, then panics at line 147 on
     `issued ... try_into().unwrap()`. Time never goes back, so every later
     `create_key` panics as well.
   - With a large ttl, `current_time + ttl` at line 121 exceeds u64::MAX, and
     `Duration`'s `+` panics. The comment at line 119 says this addition
     cannot overflow, and spec §4.1.1 says an overflow is `InvalidArgument`.
   - All state is in memory (spec §6.3), so such a panic loses every key.

## 4. What remains open

1. Done: the second-blob configuration. Revoking one blob leaves another
   authorizable, checked by `ledger_grants_when_allowed`.
2. A check of `FindMatchingTransform` against a RECURSIVE in-order walk is
   not added. The tracker's code (`crate::budget`) is not in the
   repository, so that check would compare one reading of the spec with
   another, and no mutant of this repository's code could break it.
3. Policy-hash keying (one blob sealed under two policies keeps separate
   budgets) would need two sealed blobs with two blob ids, and that state
   space is beyond the 5-minute bound. `GrantWhileBudgetLeft` and
   `BudgetRespected` already key the history by policy hash.

## 5. Not modelled

- The tablet data cache has no implementation: every method is `todo!()`.
- The mocks and the build script have no system behaviour.
- Wire encoding, message text and nanoseconds are abstracted away.
- Key material is abstracted: a keypair is a number.
