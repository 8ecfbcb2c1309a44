----------------------------- MODULE SeenWindow ------------------------------
(***************************************************************************)
(* What a duplicate cache of capacity N promises, with no ring, index or   *)
(* valid bit: it remembers the last N keys recorded, oldest first, and a   *)
(* check answers "new" exactly when the key is none of them.               *)
(***************************************************************************)
EXTENDS Naturals, Sequences

CONSTANTS N, Key

VARIABLES
  window,  \* the keys remembered, oldest first
  verdict, \* the answer of the last check: TRUE when the key was new
  call     \* the last call: <<operation, key>>

vars == <<window, verdict, call>>

Init == window = <<>> /\ verdict = FALSE /\ call = <<>>

Remember(id) ==
  window' = IF Len(window) < N THEN Append(window, id)
                               ELSE Append(Tail(window), id)

Remembered(id) == \E k \in 1 .. Len(window) : window[k] = id

Record(id) == Remember(id) /\ UNCHANGED verdict

CheckNew(id) == ~Remembered(id) /\ Remember(id) /\ verdict' = TRUE

CheckSeen(id) == Remembered(id) /\ verdict' = FALSE /\ UNCHANGED window

Next ==
  \E id \in Key :
    \/ call' = <<"insert", id>> /\ Record(id)
    \/ call' = <<"check", id>> /\ (CheckNew(id) \/ CheckSeen(id))

Spec == Init /\ [][Next]_vars

=============================================================================
