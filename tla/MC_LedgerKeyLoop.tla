--------------------------- MODULE MC_LedgerKeyLoop ---------------------------
(***************************************************************************)
(* LedgerKeyLoop under the constants and bounds of MC_Ledger.  With two    *)
(* key ids and up to two keypairs the map can be full when a third        *)
(* create_key starts drawing, and ids free up by delete_key or expiry.     *)
(***************************************************************************)
EXTENDS LedgerKeyLoop, MC_Ledger

(* Whether the loop leaves depends only on which ids the map holds, which  *)
(* sealed blobs, grants and revocations never change: the loop runs keep  *)
(* the keypair bound of MC_Ledger and let no client seal a blob (every     *)
(* authorize_access still runs, and fails at the latest at the re-wrap).   *)
KeyLoopBound ==
  /\ next_public_key <= MaxKeypairs + 1
  /\ ciphertexts = {}

=============================================================================
