---------------------------- MODULE MC_LedgerTests ----------------------------
(***************************************************************************)
(* LedgerTests instantiated for TLC: the policies of the tests decoded as  *)
(* the tests build them, seconds as in the tests (i64::MAX scaled down:   *)
(* 2^30 - 1 stands for i64::MAX, so that u64::MAX = 2^31 - 1 is still a  *)
(* TLC integer; no test reaches either), and three key ids so that        *)
(* OsRng's draw can yield different ids for the two keys of                *)
(* test_create_key.                                                         *)
(***************************************************************************)
EXTENDS LedgerTests

TestDecode ==
  (PTag :> << [tag |-> Tag, budget |-> Unlimited] >>) @@
  (PTimes1 :> << [tag |-> NoMatcher, budget |-> 1] >>) @@
  (PDefault :> << [tag |-> NoMatcher, budget |-> Unlimited] >>) @@
  (PEmpty :> << >>)

TestWireMaxSeconds == 1073741823

=============================================================================
