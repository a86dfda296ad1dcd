------------------------------ MODULE FencedJobs ------------------------------
(***************************************************************************)
(* What the leased jobs of the state database promise.  A client works on a *)
(* job at most once, with an ownership token of its own.  The job may be    *)
(* taken from a client that still works on it (its lease ran out, the table *)
(* was cleared); from then on nothing that client does changes the job.     *)
(***************************************************************************)
EXTENDS Integers

CONSTANTS Job, Client, None

VARIABLES
  holder,   \* the client whose token is on the running job, or None
  client,   \* what each client is doing about the job
  done      \* the success watermark: how far the job's input was processed

fencedVars == <<holder, client, done>>

Init ==
  /\ holder = [j \in Job |-> None]
  /\ client = [j \in Job |-> [k \in Client |-> "new"]]
  /\ done = [j \in Job |-> 0]

Moves(j, k, from, to) ==
  client[j][k] \in from /\ client'[j] = [client[j] EXCEPT ![k] = to]

Acquire(j, k) ==
  /\ Moves(j, k, {"new"}, "working")
  /\ holder'[j] = k
  /\ done'[j] = done[j]

\* Only the holder moves the watermark, and never backwards.
Commit(j, k) ==
  /\ Moves(j, k, {"working"}, "over")
  /\ holder[j] = k /\ holder'[j] = None
  /\ done'[j] >= done[j]

\* A client goes: it had nothing to do, failed, was fenced off or crashed.
\* If it was the holder, the job is given up, or stays its until taken over.
Leave(j, k) ==
  /\ Moves(j, k, {"new", "working"}, "over")
  /\ holder'[j] = holder[j] \/ (holder[j] = k /\ holder'[j] = None)
  /\ done'[j] = done[j]

\* The table is cleared.
Wipe(j) ==
  /\ client'[j] = client[j]
  /\ holder'[j] = None
  /\ done'[j] = 0

Rests(j) == client'[j] = client[j] /\ holder'[j] = holder[j] /\ done'[j] = done[j]

\* A client may be through with several jobs at once; each takes its own step.
Step(j) == Rests(j) \/ Wipe(j) \/ \E k \in Client : Acquire(j, k) \/ Commit(j, k) \/ Leave(j, k)

Next ==
  /\ DOMAIN holder' = Job /\ DOMAIN client' = Job /\ DOMAIN done' = Job
  /\ \A j \in Job : Step(j)

Spec == Init /\ [][Next]_fencedVars
==============================================================================
