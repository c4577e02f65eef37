---------------------------- MODULE JobLifecycle ----------------------------
(***************************************************************************)
(* What a family of background jobs promises to the rest of the system,    *)
(* whatever workers, leases, queues and crashes do: a job is tried at most *)
(* MaxAttempts times, it is given back only while another try is left, it  *)
(* ends once, and its ending is published exactly when it ends.            *)
(*                                                                         *)
(* One step may move several jobs, because the lease sweep does.           *)
(***************************************************************************)
EXTENDS Naturals, Sequences

CONSTANTS Jobs, MaxAttempts, Endings

VARIABLES
  phase,      \* where the job is
  tries,      \* attempts begun
  published   \* the finished events of the job, in order

lifecycleVars == <<phase, tries, published>>

Init ==
  /\ phase = [j \in Jobs |-> "absent"]
  /\ tries = [j \in Jobs |-> 0]
  /\ published = [j \in Jobs |-> <<>>]

Unpublished(j) == published'[j] = published[j]
Untried(j) == tries'[j] = tries[j]

Stay(j) == phase'[j] = phase[j] /\ Untried(j) /\ Unpublished(j)

Submit(j) ==
  phase[j] = "absent" /\ phase'[j] = "waiting" /\ Untried(j) /\ Unpublished(j)

Start(j) ==
  /\ phase[j] = "waiting" /\ phase'[j] = "running"
  /\ tries[j] < MaxAttempts /\ tries'[j] = tries[j] + 1
  /\ Unpublished(j)

GiveBack(j) ==
  /\ phase[j] = "running" /\ phase'[j] = "waiting"
  /\ tries[j] < MaxAttempts /\ Untried(j)
  /\ Unpublished(j)

End(j) ==
  /\ phase[j] = "running" /\ phase'[j] \in Endings
  /\ Untried(j)
  /\ published'[j] = Append(published[j], phase'[j])

Next ==
  \A j \in Jobs : Stay(j) \/ Submit(j) \/ Start(j) \/ GiveBack(j) \/ End(j)

Spec == Init /\ [][Next]_lifecycleVars

=============================================================================
