------------------------------- MODULE PeerMap -------------------------------
(***************************************************************************)
(* What a receiver table promises: a map from at most NR peers to the      *)
(* non-empty set of transports each was observed on.  A new peer is turned *)
(* away only when NR others are tracked.                                   *)
(***************************************************************************)
EXTENDS Naturals, FiniteSets

CONSTANTS Peer, Transport, NR

VARIABLES
  via,     \* [peer -> SUBSET Transport]: the empty set for a peer that is not tracked
  answer,  \* what the last call reported
  call     \* the last call: <<operation, peer, transports>>

vars == <<via, answer, call>>

Tracked == {p \in Peer : via[p] # {}}

Init == via = [p \in Peer |-> {}] /\ answer = "None" /\ call = <<>>

Observe(p, t) ==
  \/ /\ p \in Tracked \/ Cardinality(Tracked) < NR
     /\ via' = [via EXCEPT ![p] = @ \cup {t}]
     /\ answer' = IF t \in via[p] THEN "Known" ELSE "Added"
  \/ /\ p \notin Tracked /\ Cardinality(Tracked) >= NR
     /\ via' = via
     /\ answer' = "ReceiverTableFull"

Forget(p, ts) ==
  /\ via' = [via EXCEPT ![p] = @ \ ts]
  /\ answer' = IF via[p] \cap ts # {} THEN "Changed" ELSE "Unchanged"

ForgetAll == via' = [p \in Peer |-> {}] /\ answer' = "None"

Next ==
  \/ \E p \in Peer, t \in Transport : call' = <<"add", p, {t}>> /\ Observe(p, t)
  \/ \E p \in Peer, t \in Transport : call' = <<"remove", p, {t}>> /\ Forget(p, {t})
  \/ \E p \in Peer : call' = <<"remove", p, Transport>> /\ Forget(p, Transport)
  \/ call' = <<"clear">> /\ ForgetAll

Spec == Init /\ [][Next]_vars

=============================================================================
