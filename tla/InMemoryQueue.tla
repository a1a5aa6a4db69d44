--------------------------- MODULE InMemoryQueue ---------------------------
(***************************************************************************)
(* The in-memory task queue (src/vsrs/distributed/memory.py).  Every       *)
(* method runs under the queue's lock, so each is one atomic operation.    *)
(* The module defines the state and the operations; Worker composes them   *)
(* with the threads that call them.                                        *)
(***************************************************************************)
EXTENDS Naturals, Sequences, SequencesExt, FiniteSets

CONSTANTS
    Jobs,          \* job identifiers ("Unique job identifier", base.py)
    Priority,      \* a job's priority: lower runs first
    None           \* Python's None

\* The JobResults that tell the callers apart: the handler returned or raised,
\* there was no handler for the job's type, or the job was cancelled.
Outcomes == {"succeeded", "raised", "no_handler", "cancelled"}

ASSUME PriorityAssumption == Priority \in [Jobs -> Nat]
ASSUME NoneAssumption == None \notin Jobs \union Outcomes

VARIABLES
    known,         \* DOMAIN of _jobs
    started,       \* the known jobs whose started_at is set
    finished,      \* the known jobs whose completed_at is set
    result,        \* _results: the outcome stored for a job, or None
    pending,       \* _pending: identifiers in priority order
    submitted      \* the identifiers used so far, in order of submission

queueVars == <<known, started, finished, result, pending, submitted>>

QueueTypeOK ==
    /\ known \in SUBSET Jobs
    /\ started \in SUBSET known
    /\ finished \in SUBSET known
    /\ result \in [Jobs -> Outcomes \union {None}]
    /\ pending \in Seq(known)
    /\ submitted \in Seq(Jobs)

QueueInit ==
    /\ known = {}
    /\ started = {}
    /\ finished = {}
    /\ result = [j \in Jobs |-> None]
    /\ pending = <<>>
    /\ submitted = <<>>

-----------------------------------------------------------------------------
(* Slips the properties must notice: each Faulty operator is the operation  *)
(* without the prefix, with one plausible mistake.  No specification uses   *)
(* them.                                                                    *)

\* Sorting so that a new job overtakes the waiting ones of its own priority.
FaultyIsInsertionPoint(s, k, j) ==
    /\ k \in 1..(Len(s) + 1)
    /\ \A i \in 1..Len(s) : i < k <=> Priority[s[i]] < Priority[j]

\* Reading the first pending job without removing it.
FaultyFetch(j) ==
    /\ pending # <<>>
    /\ j = Head(pending)
    /\ started' = started \union {j}
    /\ UNCHANGED <<known, finished, result, pending, submitted>>

\* Storing a completion for a job the queue does not know (any more).
FaultyComplete(j, r) ==
    /\ known' = known \union {j}
    /\ finished' = finished \union {j}
    /\ result' = [result EXCEPT ![j] = r]
    /\ UNCHANGED <<started, pending, submitted>>

\* Cancelling without looking at completed_at.
FaultyCancelCompleted(j) ==
    /\ j \in known
    /\ pending' = SelectSeq(pending, LAMBDA i : i # j)
    /\ finished' = finished \union {j}
    /\ result' = [result EXCEPT ![j] = "cancelled"]
    /\ UNCHANGED <<known, started, submitted>>

-----------------------------------------------------------------------------
(* The operations.                                                         *)

\* The position a stable sort by priority gives an element appended to an
\* already sorted list: right after the last one that is not of lower priority.
IsInsertionPoint(s, k, j) ==
    /\ k \in 1..(Len(s) + 1)
    /\ \A i \in 1..Len(s) : i < k <=> Priority[s[i]] <= Priority[j]

\* submit: record the job, append it and sort _pending by priority.
Submit(j) ==
    /\ j \notin ToSet(submitted)
    /\ known' = known \union {j}
    /\ \E k \in 1..(Len(pending) + 1) :
          /\ IsInsertionPoint(pending, k, j)
          /\ pending' = InsertAt(pending, k, j)
    /\ submitted' = Append(submitted, j)
    /\ UNCHANGED <<started, finished, result>>

\* fetch on a queue that is not empty: take the first job, stamp started_at.
Fetch(j) ==
    /\ pending # <<>>
    /\ j = Head(pending)
    /\ pending' = Tail(pending)
    /\ started' = started \union {j}
    /\ UNCHANGED <<known, finished, result, submitted>>

\* complete: an unknown job is only logged; otherwise the result is stored,
\* whatever was stored before.
Complete(j, r) ==
    /\ IF j \in known
       THEN /\ finished' = finished \union {j}
            /\ result' = [result EXCEPT ![j] = r]
       ELSE UNCHANGED <<finished, result>>
    /\ UNCHANGED <<known, started, pending, submitted>>

\* cancel on a job it answers True for: known and not completed.
Cancel(j) ==
    /\ j \in known
    /\ j \notin finished
    /\ pending' = IF \E i \in 1..Len(pending) : pending[i] = j
                  THEN RemoveAt(pending, CHOOSE i \in 1..Len(pending) :
                          pending[i] = j /\ \A k \in 1..(i - 1) : pending[k] # j)
                  ELSE pending
    /\ finished' = finished \union {j}
    /\ result' = [result EXCEPT ![j] = "cancelled"]
    /\ UNCHANGED <<known, started, submitted>>

\* clear: forget every job, result and pending identifier.  The identifiers
\* stay used: a client never draws one twice.
Clear ==
    /\ known' = {}
    /\ started' = {}
    /\ finished' = {}
    /\ result' = [j \in Jobs |-> None]
    /\ pending' = <<>>
    /\ UNCHANGED submitted

\* TaskJob.status, which get_status answers for a known job.
Status(j) ==
    CASE j \notin known   -> "unknown"
      [] j \in finished   -> "completed"
      [] j \in started /\ j \notin finished -> "running"
      [] OTHER            -> "pending"
=============================================================================
