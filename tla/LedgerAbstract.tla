---------------------------- MODULE LedgerAbstract ----------------------------
(***************************************************************************)
(* What the ledger promises its clients, without key ids, headers, status  *)
(* codes or the order of checks: live keypairs with their expirations, the *)
(* blobs revoked and the budget spent under each, and the blobs clients    *)
(* sealed.  Access to a blob is granted only under a live keypair, for a   *)
(* blob sealed to it under that very policy, not revoked, through some     *)
(* transform of the policy that matches the application and has budget     *)
(* left -- which one is not promised.  Every other call grants nothing and *)
(* may only move the clock forward (evicting what expired).               *)
(***************************************************************************)
EXTENDS Naturals, FiniteSets, TLC

CONSTANTS
  Blobs, Tags, NoMatcher, Unlimited, Decode, NoGrant, PolicyBytes,
  PublicKeys,   \* the keypairs gen_keypair can return
  Times,        \* the clock values a request can carry
  Durations     \* the ttls a request can carry

VARIABLES
  clock,        \* the latest accepted time
  keys,         \* live keypair -> [expiration, revoked blobs, spent budget]
  issued,       \* every keypair ever handed out
  sealed,       \* [pk, blob, policy] clients sealed
  grant         \* the access the most recent call granted, or NoGrant

avars == <<clock, keys, issued, sealed, grant>>

AInit ==
  /\ clock = 0
  /\ keys = <<>>
  /\ issued = {}
  /\ sealed = {}
  /\ grant = NoGrant

(* The keys still live at time t.                                         *)
LiveAt(t) == [pk \in {p \in DOMAIN keys : keys[p].expiration > t} |-> keys[pk]]

(* Move the clock to t, dropping every key that has expired by then.      *)
Tick(t) ==
  /\ t >= clock
  /\ clock' = t
  /\ keys' = LiveAt(t)

Spent(k, blob, policy, i) ==
  IF <<blob, policy, i>> \in DOMAIN k.spent THEN k.spent[<<blob, policy, i>>] ELSE 0

(* A call that grants nothing: the clock may have moved, nothing else.    *)
Deny ==
  /\ \/ \E t \in Times : Tick(t)
     \/ UNCHANGED <<clock, keys>>
  /\ grant' = NoGrant
  /\ UNCHANGED <<issued, sealed>>

(* A new keypair, expiring d after the clock the call moved to.            *)
Create ==
  \E t \in Times, d \in Durations, pk \in PublicKeys \ issued :
    /\ t >= clock
    /\ clock' = t
    /\ keys' = (pk :> [expiration |-> t + d, revoked |-> {}, spent |-> <<>>]) @@ LiveAt(t)
    /\ issued' = issued \cup {pk}
    /\ grant' = NoGrant
    /\ UNCHANGED sealed

Delete ==
  \E pk \in DOMAIN keys :
    /\ keys' = [p \in DOMAIN keys \ {pk} |-> keys[p]]
    /\ grant' = NoGrant
    /\ UNCHANGED <<clock, issued, sealed>>

Revoke ==
  \E pk \in DOMAIN keys, blob \in Blobs :
    /\ keys' = [keys EXCEPT ![pk].revoked = @ \cup {blob}]
    /\ grant' = NoGrant
    /\ UNCHANGED <<clock, issued, sealed>>

Seal ==
  \E pk \in DOMAIN keys, blob \in Blobs, policy \in PolicyBytes :
    /\ sealed' = sealed \cup {[pk |-> pk, blob |-> blob, policy |-> policy]}
    /\ UNCHANGED <<clock, keys, issued, grant>>

(* The one way to get access.                                             *)
Grant ==
  \E t \in Times, pk \in PublicKeys, blob \in Blobs, policy \in DOMAIN Decode,
     app \in Tags :
    /\ t >= clock
    /\ pk \in DOMAIN LiveAt(t)
    /\ [pk |-> pk, blob |-> blob, policy |-> policy] \in sealed
    /\ blob \notin keys[pk].revoked
    /\ \E i \in DOMAIN Decode[policy] :
         LET tr == Decode[policy][i] IN
         /\ tr.tag \in {NoMatcher, app}
         /\ tr.budget = Unlimited \/ Spent(keys[pk], blob, policy, i) < tr.budget
         /\ keys' = [LiveAt(t) EXCEPT ![pk].spent =
                       (<<blob, policy, i>> :> (Spent(keys[pk], blob, policy, i) + 1)) @@ @]
    /\ clock' = t
    /\ grant' = [pk |-> pk, blob_id |-> blob, policy |-> policy]
    /\ UNCHANGED <<issued, sealed>>

ANext == Deny \/ Create \/ Delete \/ Revoke \/ Seal \/ Grant

ASpec == AInit /\ [][ANext]_avars

=============================================================================
