------------------------------ MODULE JobTracker -------------------------------
(***************************************************************************)
(* What the job endpoints promise, without queues, services or messages:   *)
(* a job is created over a set of feeds; each of its feeds is recorded at  *)
(* most once, as fine or as an error; the status follows from what is      *)
(* recorded, at the moment it is recorded; the backend may declare a job   *)
(* failed; a feed removed from the catalog disappears from every job.      *)
(***************************************************************************)
EXTENDS Integers, FiniteSets

CONSTANTS Jobs, Feeds

VARIABLES
  status,   \* by job
  total,    \* by job: how many feeds it was created over
  pending,  \* by job: its feeds without a result
  fine,     \* by job: its feeds that succeeded or were not modified
  bad       \* by job: its feeds that ended in an error

trackerVars == <<status, total, pending, fine, bad>>

TrackerInit ==
  /\ status = [j \in Jobs |-> "none"]
  /\ total = [j \in Jobs |-> 0]
  /\ pending = [j \in Jobs |-> {}]
  /\ fine = [j \in Jobs |-> {}]
  /\ bad = [j \in Jobs |-> {}]

\* The status of a job with n feeds of which these are recorded.
Verdict(n, ok, ko) ==
  IF Cardinality(ok) + Cardinality(ko) < n THEN "processing"
  ELSE IF ko = {} THEN "completed" ELSE "completed_with_errors"

Create(j, fs) ==
  /\ status[j] = "none"
  /\ status' = [status EXCEPT ![j] = IF fs = {} THEN "completed" ELSE "queued"]
  /\ total' = [total EXCEPT ![j] = Cardinality(fs)]
  /\ pending' = [pending EXCEPT ![j] = fs]
  /\ UNCHANGED <<fine, bad>>

RecordFine(j, f) ==
  /\ f \in pending[j]
  /\ pending' = [pending EXCEPT ![j] = @ \ {f}]
  /\ fine' = [fine EXCEPT ![j] = @ \cup {f}]
  /\ status' = [status EXCEPT ![j] = Verdict(total[j], fine[j] \cup {f}, bad[j])]
  /\ UNCHANGED <<total, bad>>

RecordBad(j, f) ==
  /\ f \in pending[j]
  /\ pending' = [pending EXCEPT ![j] = @ \ {f}]
  /\ bad' = [bad EXCEPT ![j] = @ \cup {f}]
  /\ status' = [status EXCEPT ![j] = Verdict(total[j], fine[j], bad[j] \cup {f})]
  /\ UNCHANGED <<total, fine>>

DeclareFailed(j) ==
  /\ status[j] # "none"
  /\ status' = [status EXCEPT ![j] = "failed"]
  /\ UNCHANGED <<total, pending, fine, bad>>

Forget(f) ==
  /\ pending' = [j \in Jobs |-> pending[j] \ {f}]
  /\ fine' = [j \in Jobs |-> fine[j] \ {f}]
  /\ bad' = [j \in Jobs |-> bad[j] \ {f}]
  /\ UNCHANGED <<status, total>>

TrackerNext ==
  \/ \E j \in Jobs, fs \in SUBSET Feeds : Create(j, fs)
  \/ \E j \in Jobs, f \in Feeds : RecordFine(j, f) \/ RecordBad(j, f)
  \/ \E j \in Jobs : DeclareFailed(j)
  \/ \E f \in Feeds : Forget(f)

TrackerSpec == TrackerInit /\ [][TrackerNext]_trackerVars
===============================================================================
