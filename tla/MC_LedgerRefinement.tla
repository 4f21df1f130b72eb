------------------------- MODULE MC_LedgerRefinement -------------------------
(***************************************************************************)
(* Ledger, under the constants and bounds of MC_Ledger, implements         *)
(* LedgerAbstract.  The mapping forgets key ids and status codes: a live   *)
(* keypair is the public key of an entry of per_key_ledgers, with that     *)
(* entry's expiration, the blobs ever revoked under that keypair (from the *)
(* history revoked_log, so a revocation the tracker failed to store shows  *)
(* up as a grant the abstract ledger forbids) and its tracker's            *)
(* consumptions (the policy digest standing for the policy, SHA-256 being  *)
(* collision-free);                                                        *)
(* a sealed blob is the key and the header of a ciphertext.               *)
(***************************************************************************)
EXTENDS MC_Ledger

AbsKeys ==
  [pk \in {per_key_ledgers[k].public_key : k \in DOMAIN per_key_ledgers} |->
     LET k == CHOOSE j \in DOMAIN per_key_ledgers : per_key_ledgers[j].public_key = pk
     IN  [expiration |-> per_key_ledgers[k].expiration,
          revoked |-> {b \in Blobs : <<pk, b>> \in revoked_log},
          spent |-> per_key_ledgers[k].budget_tracker.used]]

AbsSealed ==
  {[pk |-> c.pk, blob |-> c.aad.blob_id, policy |-> c.aad.access_policy_sha256] :
     c \in ciphertexts}

A == INSTANCE LedgerAbstract WITH
       clock <- current_time, keys <- AbsKeys, issued <- 1..(next_public_key - 1),
       sealed <- AbsSealed, grant <- last.grant,
       PublicKeys <- 1..(MaxKeypairs + 1), Times <- Time, Durations <- 0..MaxTtl

(* Every behaviour of the ledger's handlers is a behaviour the abstract    *)
(* ledger allows: grants only under live, unrevoked keys, for blobs sealed *)
(* under that policy, within a matching transform's budget; an            *)
(* authorize_access that grants nothing changes no revocation or budget.   *)
(* Status codes are not part of the abstract ledger, so a create_key that  *)
(* fails yet adds a key is not excluded here (FailedCreateKeyAddsNoKey).   *)
AbstractSpec == A!ASpec

=============================================================================
