--------------------------- MODULE BudgetTracker ---------------------------
(***************************************************************************)
(* The per-key budget tracker of the ledger (crate::budget, spec 4.3).     *)
(* Its source is not part of the repository's src/, so these operators are *)
(* written from the specification.  A tracker is a value owned by one      *)
(* per-key ledger: the set of revoked blob ids and, for every              *)
(* (blob_id, policy_hash, transform_index) that was used, the number of    *)
(* consumptions recorded against it.                                       *)
(***************************************************************************)
EXTENDS Naturals, Sequences, FiniteSets, FiniteSetsExt, TLC

CONSTANTS
  Blobs,        \* blob ids that headers can carry
  Tags,         \* application tags produced by attestation
  NoMatcher,    \* a transform without an ApplicationMatcher tag
  Unlimited     \* a transform without an AccessBudget

ASSUME NoMatcher \notin Tags

(* A transform of a DataAccessPolicy: its matcher tag and its budget.      *)
Transform == [tag : Tags \cup {NoMatcher}, budget : Nat \cup {Unlimited}]

(* BudgetTracker::new(): nothing revoked, nothing consumed.                *)
NewTracker == [revoked |-> {}, used |-> <<>>]

(* Consumptions recorded for (blob_id, policy_hash, transform_index).      *)
Used(tracker, blob, hash, i) ==
  IF <<blob, hash, i>> \in DOMAIN tracker.used
  THEN tracker.used[<<blob, hash, i>>] ELSE 0

(* The ApplicationMatcher: a tag matches the equal application tag; a     *)
(* transform without a matcher matches every application.                 *)
Matches(t, app) == t.tag = NoMatcher \/ t.tag = app

(* Residual budget is positive: unlimited, or Times(n) minus consumptions. *)
HasBudget(tracker, blob, hash, transforms, i) ==
  \/ transforms[i].budget = Unlimited
  \/ Used(tracker, blob, hash, i) < transforms[i].budget

(* find_matching_transform: a revoked blob is exhausted; otherwise the    *)
(* first transform (in policy order) that matches the application and has *)
(* budget left; FailedPrecondition when none matches, ResourceExhausted   *)
(* when every matching one is spent.                                      *)
FindMatchingTransform(tracker, blob, transforms, hash, app) ==
  LET matching  == {i \in 1..Len(transforms) : Matches(transforms[i], app)}
      available == {i \in matching : HasBudget(tracker, blob, hash, transforms, i)}
  IN  CASE blob \in tracker.revoked -> [code |-> "ResourceExhausted", index |-> 0]
        [] matching = {}           -> [code |-> "FailedPrecondition", index |-> 0]
        [] available = {}          -> [code |-> "ResourceExhausted", index |-> 0]
        [] OTHER                   -> [code |-> "Ok", index |-> Min(available)]

(* update_budget: record one consumption of the chosen transform; an      *)
(* internal error when that transform has no budget left.                 *)
UpdateBudget(tracker, blob, i, transforms, hash) ==
  LET k == <<blob, hash, i>>
  IN  IF HasBudget(tracker, blob, hash, transforms, i)
      THEN [ok |-> TRUE,
            tracker |-> [tracker EXCEPT !.used =
                           (k :> (Used(tracker, blob, hash, i) + 1)) @@ @]]
      ELSE [ok |-> FALSE, tracker |-> tracker]

(* consume_budget: exhaust the blob for good (revocation is idempotent).   *)
ConsumeBudget(tracker, blob) ==
  [tracker EXCEPT !.revoked = @ \cup {blob}]

=============================================================================
