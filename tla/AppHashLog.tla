----------------------------- MODULE AppHashLog -----------------------------
(***************************************************************************)
(* What Tendermint needs of a replicated application: one log of app       *)
(* hashes, and replicas that walk along it from the start, each of them    *)
(* free to lose everything and begin again.                                *)
(***************************************************************************)
EXTENDS Naturals, Sequences

CONSTANT Replica

VARIABLES log,   \* the app hash after every decided block
          at,    \* how far each replica is
          hash   \* the app hash each replica answered last

vars == <<log, at, hash>>

Init ==
  /\ log = <<>>
  /\ at = [r \in Replica |-> 0]
  /\ hash = [r \in Replica |-> 0]

\* A block without orders is never proposed: the hash grows with every block.
Decide ==
  /\ Len(log') = Len(log) + 1
  /\ LET next == log'[Len(log) + 1]
     IN  /\ next \in Nat
         /\ \A h \in DOMAIN log : log[h] < next
         /\ log' = Append(log, next)
  /\ UNCHANGED <<at, hash>>

Apply(r) ==
  /\ at[r] < Len(log)
  /\ at' = [at EXCEPT ![r] = @ + 1]
  /\ hash' = [hash EXCEPT ![r] = log[at[r] + 1]]
  /\ UNCHANGED log

Restart(r) ==
  /\ at' = [at EXCEPT ![r] = 0]
  /\ hash' = [hash EXCEPT ![r] = 0]
  /\ UNCHANGED log

Next == Decide \/ \E r \in Replica : Apply(r) \/ Restart(r)

Spec == Init /\ [][Next]_vars
=============================================================================
