----------------------------- MODULE LedgerTests -----------------------------
(***************************************************************************)
(* The unit tests of ledger.rs (mod tests) as scenarios run against the    *)
(* handlers of Ledger.  Each test is a sequence of calls with the status   *)
(* code it asserts; the driver runs one test from a fresh                  *)
(* LedgerService::default(), feeding each call to the Ledger action of     *)
(* that handler, and records what the call returned.  The key id a test    *)
(* gets from create_key is the one OsRng drew, so every test runs for      *)
(* every id the draw can yield.  Messages of errors are not modelled, only *)
(* their status codes.                                                     *)
(***************************************************************************)
EXTENDS Ledger

CONSTANTS
  BlobId,      \* b"blob-id"
  PTag,        \* a policy with one transform matching tag "tag"
  PTimes1,     \* a policy with one unmatched transform of budget Times(1)
  PDefault,    \* a policy with one Transform::default()
  PEmpty,      \* DataAccessPolicy::default(): no transforms
  PInvalid,    \* the bytes b"invalid", which do not decode
  HInvalid,    \* the bytes "invalid" used as an access_policy_sha256
  OtherAad,    \* the associated data b"other aad"
  Tag,         \* the recipient tag "tag"
  OtherTag     \* the recipient tag "non-matching-tag"

VARIABLES
  test,        \* the test being run
  pc,          \* the index of its next call
  obs,         \* what each call returned so far
  blob_header, \* the header the test built for its blob
  sealed       \* the key material the test sealed with cfc_crypto

dvars == <<vars, test, pc, obs, blob_header, sealed>>

(* The calls of a test.  A key is "own" (the public_key_id the test got    *)
(* from create_key) or "other" (public_key_id.wrapping_add(1)).           *)
CreateKeyCall(now, ttl, expect) ==
  [op |-> "CreateKey", now |-> now, ttl |-> ttl, expect |-> expect]
DeleteKeyCall(key, expect) == [op |-> "DeleteKey", key |-> key, expect |-> expect]
RevokeCall(key, expect) == [op |-> "RevokeAccess", key |-> key, expect |-> expect]
(* BlobHeader{blob_id, public_key_id, access_policy_sha256}, then          *)
(* cfc_crypto::encrypt_message(plaintext, &public_key, aad).               *)
EncryptCall(key, hash, aad) ==
  [op |-> "Encrypt", key |-> key, hash |-> hash, aad |-> aad, expect |-> "Ok"]
AuthorizeCall(now, tag, header, policy, expect) ==
  [op |-> "AuthorizeAccess", now |-> now, tag |-> tag, header |-> header,
   policy |-> policy, expect |-> expect]

(* create_ledger_service: a default service with one key of ttl 3600 s.   *)
create_ledger_service == << CreateKeyCall(0, 3600, "Ok") >>

test_create_key ==
  << CreateKeyCall(1000, 100, "Ok"), CreateKeyCall(1000, 100, "Ok") >>

test_delete_key ==
  create_ledger_service \o
  << DeleteKeyCall("own", "Ok"), DeleteKeyCall("own", "NotFound") >>

test_delete_key_not_found ==
  create_ledger_service \o << DeleteKeyCall("other", "NotFound") >>

test_authorize_access ==
  create_ledger_service \o
  << EncryptCall("own", PTag, "header"),
     AuthorizeCall(0, Tag, "header", PTag, "Ok") >>

test_authorize_access_invalid_header ==
  create_ledger_service \o
  << EncryptCall("own", PTag, "header"),
     AuthorizeCall(0, Tag, MalformedHeader, PTag, "InvalidArgument") >>

test_authorize_access_invalid_access_policy_sha256 ==
  create_ledger_service \o
  << EncryptCall("own", HInvalid, "header"),
     AuthorizeCall(0, Tag, "header", PTag, "InvalidArgument") >>

test_authorize_access_invalid_access_policy ==
  create_ledger_service \o
  << EncryptCall("own", PInvalid, "header"),
     AuthorizeCall(0, Tag, "header", PInvalid, "InvalidArgument") >>

test_authorize_access_application_mismatch ==
  create_ledger_service \o
  << EncryptCall("own", PEmpty, "header"),
     AuthorizeCall(0, OtherTag, "header", PEmpty, "FailedPrecondition") >>

test_authorize_access_decryption_error ==
  create_ledger_service \o
  << EncryptCall("own", PTag, OtherAad),
     AuthorizeCall(0, Tag, "header", PTag, "InvalidArgument") >>

test_authorize_access_missing_key_id ==
  create_ledger_service \o
  << EncryptCall("other", PTag, "header"),
     AuthorizeCall(0, Tag, "header", PTag, "NotFound") >>

test_authorize_access_expired_key ==
  create_ledger_service \o
  << EncryptCall("own", PTag, "header"),
     AuthorizeCall(1000000000, Tag, "header", PTag, "NotFound") >>

test_authorize_access_updates_budget ==
  create_ledger_service \o
  << EncryptCall("own", PTimes1, "header"),
     AuthorizeCall(0, Tag, "header", PTimes1, "Ok"),
     AuthorizeCall(0, Tag, "header", PTimes1, "ResourceExhausted") >>

test_revoke_access ==
  create_ledger_service \o
  << RevokeCall("own", "Ok"),
     EncryptCall("own", PDefault, "header"),
     AuthorizeCall(0, Tag, "header", PDefault, "ResourceExhausted") >>

test_revoke_access_key_not_found ==
  create_ledger_service \o << RevokeCall("other", "NotFound") >>

(* The last call names neither header nor policy: it fails on `now`.       *)
test_monotonic_time ==
  << CreateKeyCall(1000, 0, "Ok"),
     CreateKeyCall(500, 0, "InvalidArgument"),
     AuthorizeCall(500, Tag, MalformedHeader, PEmpty, "InvalidArgument") >>

Tests ==
  [ create_key |-> test_create_key,
    delete_key |-> test_delete_key,
    delete_key_not_found |-> test_delete_key_not_found,
    authorize_access |-> test_authorize_access,
    authorize_access_invalid_header |-> test_authorize_access_invalid_header,
    authorize_access_invalid_access_policy_sha256 |->
      test_authorize_access_invalid_access_policy_sha256,
    authorize_access_invalid_access_policy |-> test_authorize_access_invalid_access_policy,
    authorize_access_application_mismatch |-> test_authorize_access_application_mismatch,
    authorize_access_decryption_error |-> test_authorize_access_decryption_error,
    authorize_access_missing_key_id |-> test_authorize_access_missing_key_id,
    authorize_access_expired_key |-> test_authorize_access_expired_key,
    authorize_access_updates_budget |-> test_authorize_access_updates_budget,
    revoke_access |-> test_revoke_access,
    revoke_access_key_not_found |-> test_revoke_access_key_not_found,
    monotonic_time |-> test_monotonic_time ]

-----------------------------------------------------------------------------
(* public_key_id.wrapping_add(1): an id other than the test's own.        *)
OtherKey(k) == CHOOSE j \in KeyIds : j # k

KeyOf(ref) == IF ref = "own" THEN obs[1].key ELSE OtherKey(obs[1].key)

(* What a call returned: its status, and for create_key the id, public    *)
(* key and issued/expiration times of PublicKeyDetails.                    *)
Observed ==
  LET new == {k \in DOMAIN per_key_ledgers' :
                per_key_ledgers'[k].public_key = next_public_key}
  IN  IF new # {}
      THEN LET k == CHOOSE j \in new : TRUE IN
           [code |-> last'.code, key |-> k, pk |-> next_public_key,
            issued |-> current_time', expiration |-> per_key_ledgers'[k].expiration,
            grant |-> NoGrant]
      ELSE [code |-> last'.code, grant |-> last'.grant]

DInit ==
  /\ Init
  /\ test \in DOMAIN Tests
  /\ pc = 1
  /\ obs = <<>>
  /\ blob_header = MalformedHeader
  /\ sealed = GarbageCiphertext

(* One call of the running test, through the handler's action.             *)
RunCall ==
  LET c == Tests[test][pc] IN
  /\ pc <= Len(Tests[test])
  /\ \/ /\ c.op = "CreateKey"
        /\ create_key(c.now, c.ttl)
        /\ obs' = Append(obs, Observed)
     \/ /\ c.op = "DeleteKey"
        /\ delete_key(KeyOf(c.key))
        /\ obs' = Append(obs, Observed)
     \/ /\ c.op = "RevokeAccess"
        /\ revoke_access(KeyOf(c.key), BlobId)
        /\ obs' = Append(obs, Observed)
     \/ /\ c.op = "AuthorizeAccess"
        /\ authorize_access(c.now, c.tag,
                            IF c.header = "header" THEN blob_header ELSE c.header,
                            c.policy, sealed)
        /\ obs' = Append(obs, Observed)
  /\ pc' = pc + 1
  /\ UNCHANGED <<test, blob_header, sealed>>

(* The client side of a test: build the header and seal to public_key.    *)
RunEncrypt ==
  LET c == Tests[test][pc]
      h == [blob_id |-> BlobId, public_key_id |-> KeyOf(c.key),
            access_policy_sha256 |-> c.hash]
  IN
  /\ pc <= Len(Tests[test])
  /\ c.op = "Encrypt"
  /\ blob_header' = h
  /\ sealed' = [pk |-> obs[1].pk, aad |-> IF c.aad = "header" THEN h ELSE c.aad]
  /\ obs' = Append(obs, [code |-> "Ok", grant |-> NoGrant])
  /\ pc' = pc + 1
  /\ UNCHANGED <<vars, test>>

DNext == RunCall \/ RunEncrypt

DSpec == DInit /\ [][DNext]_dvars

-----------------------------------------------------------------------------
(* The assertions of the repository's tests hold of the modelled handlers: *)
(* every call returned the status its test asserts; test_create_key's keys *)
(* were issued at 1000, expire at 1100 and differ in id and public key;    *)
(* test_authorize_access's grant re-encrypts under the test's public key   *)
(* the blob it sealed, whichever key id OsRng drew.                        *)
TestAssertionsHold ==
  /\ \A i \in 1..Len(obs) : obs[i].code = Tests[test][i].expect
  /\ (test = "create_key" /\ Len(obs) = 2) =>
       /\ obs[1].issued = 1000 /\ obs[1].expiration = 1100
       /\ obs[1].key # obs[2].key /\ obs[1].pk # obs[2].pk
  /\ (test = "authorize_access" /\ Len(obs) = 3) =>
       /\ obs[3].grant # NoGrant
       /\ obs[3].grant.pk = obs[1].pk
       /\ obs[3].grant.blob_id = BlobId

=============================================================================
