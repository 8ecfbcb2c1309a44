---------------------------- MODULE MCReassembler ----------------------------
(* Two slots and five streams: more groups than slots, two groups of one id  *)
(* and different totals, and one whose slices together exceed a payload.     *)
EXTENDS ReassemblerSpec

MCStream == {
  [group_id |-> 1, head |-> "a", slices |-> <<<<1, 2>>, <<3>>>>],
  [group_id |-> 1, head |-> "b", slices |-> <<<<4>>, <<5>>, <<6>>>>],
  [group_id |-> 2, head |-> "c", slices |-> <<<<7>>, <<8, 9>>>>],
  [group_id |-> 3, head |-> "d", slices |-> <<<<1, 2>>, <<3, 4>>>>],
  [group_id |-> 4, head |-> "e", slices |-> <<<<5>>>>]}

MCWhole == {[head |-> "w", payload |-> <<1>>, frag |-> NoFrag]}

MCBadHeader == {
  [group_id |-> 1, seq |-> 0, total |-> 0],
  [group_id |-> 1, seq |-> 2, total |-> 2],
  [group_id |-> 2, seq |-> 0, total |-> 4]}

=============================================================================
