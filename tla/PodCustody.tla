----------------------------- MODULE PodCustody -----------------------------
(* What re-adoption promises about the pods of a node, without any of the    *)
(* handshake that keeps the promise: the pod of the live episode of a spawn  *)
(* that no driver is working on is only destroyed when its own rebuild       *)
(* failed, and pods are only started by the control plane.                   *)
(* Readopt implements this module.                                           *)
EXTENDS Naturals

CONSTANTS Spawns, MaxGen

VARIABLES
  live,      \* [spawn -> generation of its live row, 0 when it has none]
  last,      \* [spawn -> highest generation handed out]
  busy,      \* [spawn -> a driver owns the spawn]
  pod,       \* [spawn -> generation of the pod that runs on the node, or 0]
  linked,    \* the node is connected to the control plane
  rebuilding \* spawns whose rebuild failed

vars == <<live, last, busy, pod, linked, rebuilding>>

Init ==
  /\ last \in [Spawns -> 1..MaxGen]
  /\ live \in {f \in [Spawns -> 0..MaxGen] : \A s \in Spawns : f[s] \in {0, last[s]}}
  /\ pod \in {f \in [Spawns -> 0..MaxGen] : \A s \in Spawns : f[s] <= last[s]}
  /\ busy = [s \in Spawns |-> FALSE]
  /\ linked = FALSE
  /\ rebuilding = {}

(* The ledger moves on: a row ends, or a newer one replaces it.              *)
Ledger ==
  /\ \E s \in Spawns :
        /\ last' \in {last, [last EXCEPT ![s] = @ + 1]}
        /\ live' \in {live, [live EXCEPT ![s] = 0], [live EXCEPT ![s] = last'[s]]}
        /\ live'[s] \in {0, live[s]} \/ last'[s] > last[s]
        /\ busy' \in {busy, [busy EXCEPT ![s] = ~@]}
  /\ UNCHANGED <<pod, linked, rebuilding>>

Destroy(s) ==
  /\ pod[s] # 0
  /\ live[s] # pod[s] \/ busy[s] \/ s \in rebuilding
  /\ pod' = [pod EXCEPT ![s] = 0]
  /\ UNCHANGED <<live, last, busy>>

(* A newer episode starts, in place of whatever pod was there.               *)
Start(s) ==
  /\ linked
  /\ \E g \in (pod[s] + 1)..last[s] : pod' = [pod EXCEPT ![s] = g]
  /\ UNCHANGED <<live, last, busy>>

Handshake == UNCHANGED <<live, last, busy, pod>>

Next == Ledger \/ Handshake \/ \E s \in Spawns : Destroy(s) \/ Start(s)

Spec == Init /\ [][Next]_vars

=============================================================================
