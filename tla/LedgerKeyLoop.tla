---------------------------- MODULE LedgerKeyLoop ----------------------------
(***************************************************************************)
(* create_key of ledger.rs with its key-id retry loop as steps of its own. *)
(* The handler first moves the clock and evicts expired keys              *)
(* (update_current_time), parses the ttl, and then repeats               *)
(*     key_id = OsRng.next_u32(); per_key_ledgers.contains_key(&key_id)   *)
(* until the id is unused, before generating and inserting the keypair.    *)
(* The handler holds &mut self for the whole loop, so no other call runs   *)
(* while it draws: every other handler is disabled while `creating` is set.*)
(***************************************************************************)
EXTENDS Ledger

CONSTANT Idle   \* `creating` when no create_key is inside its loop

VARIABLE
  creating  \* the create_key inside its draw loop: the expiration it computed

lvars == <<vars, creating>>

(* The loop condition: per_key_ledgers.contains_key(&key_id).              *)
KeyTaken(ledgers, key_id) == key_id \in DOMAIN ledgers

LInit == Init /\ creating = Idle

(* Entry of create_key up to the loop.  A bad `now` or ttl returns, and an *)
(* overflowing clock + ttl panics, at once exactly as in the atomic       *)
(* handler; otherwise the clock advance and the                           *)
(* eviction are written to self before the first draw.                     *)
CreateKeyStart(now, ttl) ==
  LET u == update_current_time(now) IN
  /\ creating = Idle
  /\ \/ /\ IF ~u.ok \/ ttl = BadDuration THEN TRUE ELSE u.time + ttl > U64MaxSeconds
        /\ create_key(now, ttl)
        /\ UNCHANGED creating
     \/ /\ u.ok
        /\ ttl # BadDuration
        /\ u.time + ttl <= U64MaxSeconds
        /\ current_time' = u.time
        /\ per_key_ledgers' = u.ledgers
        /\ creating' = [expiration |-> u.time + ttl]
        /\ UNCHANGED <<next_public_key, ciphertexts, last, revoked_log, grant_count>>

(* One iteration of the loop: OsRng yields key_id.  A used id leaves every *)
(* variable as it was and the loop goes round again; an unused one ends    *)
(* the loop, and the rest of the handler runs: gen_keypair, the insert,    *)
(* and the expiration conversion that fails after the insert.             *)
CreateKeyDraw(key_id) ==
  /\ creating # Idle
  /\ IF KeyTaken(per_key_ledgers, key_id)
     THEN UNCHANGED lvars
     ELSE /\ per_key_ledgers' =
               (key_id :> [public_key |-> gen_keypair,
                           expiration |-> creating.expiration,
                           budget_tracker |-> NewTracker]) @@ per_key_ledgers
          /\ next_public_key' = next_public_key + 1
          /\ last' = Reply("CreateKey",
                           PublicKeyDetailsCode(current_time, creating.expiration),
                           NoGrant)
          /\ creating' = Idle
          /\ UNCHANGED <<current_time, ciphertexts, revoked_log, grant_count>>

(* The other handlers, and the clients, run only between two calls.       *)
Others ==
  /\ creating = Idle
  /\ \/ \E key_id \in KeyIds : delete_key(key_id)
     \/ \E now \in Time \cup {BadTimestamp}, app \in Attestations,
           header \in Header \cup {MalformedHeader}, policy \in PolicyBytes :
          \E ct \in {c \in ciphertexts : c.aad = header} \cup {GarbageCiphertext} :
            authorize_access(now, app, header, policy, ct)
     \/ \E key_id \in KeyIds, blob \in Blobs : revoke_access(key_id, blob)
     \/ \E key_id \in KeyIds, blob \in Blobs, policy \in PolicyBytes :
          encrypt_message(key_id, blob, policy)
  /\ UNCHANGED creating

LNext ==
  /\ Running
  /\ \/ \E now \in Time \cup {BadTimestamp}, ttl \in (0..MaxTtl) \cup {BadDuration} :
          CreateKeyStart(now, ttl)
     \/ \E key_id \in KeyIds : CreateKeyDraw(key_id)
     \/ Others

(* OsRng is uniform over the ids: while an id is free, each iteration draws *)
(* one with positive probability, so with probability one the loop leaves. *)
(* No fairness is assumed of callers.                                      *)
LSpec == LInit /\ [][LNext]_lvars /\ WF_lvars(\E key_id \in KeyIds : CreateKeyDraw(key_id))

-----------------------------------------------------------------------------
(* The spec's requirement on the loop (section 9): a create_key that has  *)
(* begun drawing key ids eventually returns, if need be with Internal      *)
(* after a bounded number of retries.                                     *)
CreateKeyReturns == (creating # Idle) ~> (creating = Idle)

=============================================================================
