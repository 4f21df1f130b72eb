------------------------------ MODULE MC_Ledger ------------------------------
(***************************************************************************)
(* Ledger instantiated for TLC.  Two key ids, so two keys can be live at *)
(* once and a key id can be reused after deletion with a fresh keypair;   *)
(* one blob id (Blobs is set in the .cfg); three policy byte strings of   *)
(* which p1 and p2 decode and p3 does not; seconds up to 2 with a wire    *)
(* maximum of 2, so the clock can overtake expirations and `now + ttl`    *)
(* can exceed the wire range.                                              *)
(***************************************************************************)
EXTENDS Ledger

CONSTANTS p1, p2, p3

(* p1: a transform for application "a" spent after one access, then one   *)
(* for any application with budget 1; p2: one unlimited transform for "b".*)
MC_Decode ==
  (p1 :> << [tag |-> "a", budget |-> 1], [tag |-> NoMatcher, budget |-> 1] >>) @@
  (p2 :> << [tag |-> "b", budget |-> Unlimited] >>)

MC_Tags == {"a", "b"}

(* Bounds on what a behaviour may accumulate: keypairs generated, blobs    *)
(* sealed, and grants of one transform (enough to exceed a budget of 1).   *)
MaxKeypairs == 2
MaxCiphertexts == 1
MaxGrants == 2

(* Substituted for MaxCiphertexts where two sealed blobs are needed: one  *)
(* blob sealed under two policies, or under a keypair and its successor   *)
(* at the same key id.                                                    *)
TwoCiphertexts == 2

StateBound ==
  /\ next_public_key <= MaxKeypairs + 1
  /\ Cardinality(ciphertexts) <= MaxCiphertexts
  /\ \A g \in DOMAIN grant_count : grant_count[g] <= MaxGrants

(* Key ids are drawn at random and blob ids are opaque: no property names  *)
(* one of them, so behaviours that differ by renaming them are equivalent. *)
Symmetry == Permutations(KeyIds) \cup Permutations(Blobs)

=============================================================================
