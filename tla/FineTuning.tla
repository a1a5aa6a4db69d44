----------------------------- MODULE FineTuning -----------------------------
(***************************************************************************)
(* Fine-tuning jobs and dataset versions: JobOrchestrator in               *)
(* src/src/vsrs/finetuning/jobs.py and DatasetVersionManager in            *)
(* src/src/vsrs/finetuning/versioning.py.                                  *)
(*                                                                         *)
(* Neither class takes a lock.  Threads call them at the same time, and    *)
(* managers of several processes share a storage directory; the steps of   *)
(* a call are cut where another thread can see or change what lies         *)
(* between.  The executor is called without holding anything: it returns   *)
(* metrics (named by the call) or raises.                                  *)
(***************************************************************************)
EXTENDS Integers, Sequences, SequencesExt, FiniteSets

CONSTANTS
    Trainers,  \* threads; each makes one call
    Jobs,      \* fine-tuning jobs
    Managers,  \* version managers on one storage directory
    Datasets,  \* dataset files: sequences of entries
    Names,     \* version identifiers a caller may choose
    Nothing

ASSUME NothingAssumption == Nothing \notin Trainers
ASSUME DatasetsAreFiles == \A d \in Datasets : d \in Seq(UNION {ToSet(e) : e \in Datasets})

VARIABLES
    job,        \* job -> [status, metrics, error]
    submitted,  \* _jobs: the jobs the orchestrator knows
    file,       \* version identifier -> the entries in its file, Nothing without a file
    registry,   \* manager -> [version identifier -> [content, count] or Nothing]
    thread      \* trainer -> [pc, ...]: the call it is in

tuningVars == <<job, submitted, file, registry, thread>>

\* The positions of the entries no earlier one is equal to.
FirstOf(entries) == {i \in DOMAIN entries : \A j \in 1..(i - 1) : entries[j] # entries[i]}

\* _hash_entry is injective on the entries here; the first of equal entries is kept.
Unique(entries) ==
    LET Nth(k) == CHOOSE i \in FirstOf(entries) : Cardinality({j \in FirstOf(entries) : j <= i}) = k
    IN  [k \in 1..Cardinality(FirstOf(entries)) |-> entries[Nth(k)]]

\* An identifier computed from the set of entries: the order of the file is lost.
FaultyVersionId(name, content) ==
    IF name # Nothing THEN name ELSE ToSet(content)

\* "v_" and the hash of the unique entries in their order, unless the caller gives a name.
VersionId(name, content) ==
    IF name # Nothing THEN name ELSE content

Ids == Names \union {VersionId(Nothing, Unique(d)) : d \in Datasets}

TuningInit ==
    /\ job = [j \in Jobs |-> [status |-> "pending", metrics |-> Nothing, error |-> Nothing]]
    /\ submitted = {}
    /\ file = [v \in Ids |-> Nothing]
    /\ registry = [m \in Managers |-> [v \in Ids |-> Nothing]]
    /\ thread = [c \in Trainers |-> [pc |-> "idle"]]

Proceed(c, next) == thread' = [thread EXCEPT ![c] = next]
Returned == [pc |-> "done"]
Within(c, pc) == thread[c].pc = pc

-----------------------------------------------------------------------------
(***************************************************************************)
(* Jobs.                                                                   *)
(***************************************************************************)

Submit(j) ==
    /\ submitted' = submitted \union {j}
    /\ UNCHANGED <<job, file, registry, thread>>

\* clear() forgets the jobs; an execution under way keeps its own reference.
Clear ==
    /\ submitted # {}
    /\ submitted' = {}
    /\ UNCHANGED <<job, file, registry, thread>>

\* execute looks at no status: a finished or cancelled job runs again.
ExecuteStart(c, j) ==
    /\ Within(c, "idle") /\ j \in submitted
    /\ job' = [job EXCEPT ![j].status = "running"]
    /\ Proceed(c, [pc |-> "executing", job |-> j])
    /\ UNCHANGED <<submitted, file, registry>>

\* The executor returned: metrics first, then the status.
ExecutorReturns(c) ==
    /\ Within(c, "executing")
    /\ job' = [job EXCEPT ![thread[c].job].metrics = c]
    /\ Proceed(c, [thread[c] EXCEPT !.pc = "returned"])
    /\ UNCHANGED <<submitted, file, registry>>

ExecuteCompletes(c) ==
    /\ Within(c, "returned")
    /\ job' = [job EXCEPT ![thread[c].job].status = "completed"]
    /\ Proceed(c, Returned)
    /\ UNCHANGED <<submitted, file, registry>>

\* The executor raised: the status first, then the error.
ExecutorRaises(c) ==
    /\ Within(c, "executing")
    /\ job' = [job EXCEPT ![thread[c].job].status = "failed"]
    /\ Proceed(c, [thread[c] EXCEPT !.pc = "raised"])
    /\ UNCHANGED <<submitted, file, registry>>

ExecuteFails(c) ==
    /\ Within(c, "raised")
    /\ job' = [job EXCEPT ![thread[c].job].error = c]
    /\ Proceed(c, Returned)
    /\ UNCHANGED <<submitted, file, registry>>

\* cancel tests the status and then sets it.
CancelTest(c, j) ==
    /\ Within(c, "idle") /\ j \in submitted
    /\ job[j].status \notin {"completed", "failed"}
    /\ Proceed(c, [pc |-> "cancelling", job |-> j])
    /\ UNCHANGED <<job, submitted, file, registry>>

CancelSet(c) ==
    /\ Within(c, "cancelling")
    /\ job' = [job EXCEPT ![thread[c].job].status = "cancelled"]
    /\ Proceed(c, Returned)
    /\ UNCHANGED <<submitted, file, registry>>

-----------------------------------------------------------------------------
(***************************************************************************)
(* Dataset versions.                                                       *)
(***************************************************************************)

\* create_version reads the dataset and computes the identifier; deduplicate is not looked at.
CreateRead(c, m, d, name) ==
    /\ Within(c, "idle")
    /\ LET content == Unique(d)
       IN  Proceed(c, [pc |-> "open", manager |-> m, id |-> VersionId(name, content),
                    content |-> content, count |-> Len(d)])
    /\ UNCHANGED <<job, submitted, file, registry>>

\* Opening for writing empties the file.
CreateOpen(c) ==
    /\ Within(c, "open")
    /\ file' = [file EXCEPT ![thread[c].id] = <<>>]
    /\ Proceed(c, [thread[c] EXCEPT !.pc = "flush"])
    /\ UNCHANGED <<job, submitted, registry>>

\* Closing writes the buffer from the file's start; what another writer left beyond it stays.
CreateFlush(c) ==
    /\ Within(c, "flush")
    /\ LET new == thread[c].content  old == file[thread[c].id]
       IN  file' = [file EXCEPT ![thread[c].id] = new \o SubSeq(old, Len(new) + 1, Len(old))]
    /\ Proceed(c, [thread[c] EXCEPT !.pc = "register"])
    /\ UNCHANGED <<job, submitted, registry>>

CreateRegister(c) ==
    /\ Within(c, "register")
    /\ registry' = [registry EXCEPT ![thread[c].manager][thread[c].id] =
                      [content |-> thread[c].content, count |-> thread[c].count]]
    /\ Proceed(c, Returned)
    /\ UNCHANGED <<job, submitted, file>>

\* clear() of a manager leaves the files.
ClearVersions(m) ==
    /\ \E v \in Ids : registry[m][v] # Nothing
    /\ registry' = [registry EXCEPT ![m] = [v \in Ids |-> Nothing]]
    /\ UNCHANGED <<job, submitted, file, thread>>

LoadEntries(v) == IF file[v] = Nothing THEN <<>> ELSE file[v]

\* compare_versions of two registered versions.
CompareVersions(m, a, b) ==
    LET A == ToSet(LoadEntries(a))  B == ToSet(LoadEntries(b))
    IN  [added |-> Cardinality(B \ A), removed |-> Cardinality(A \ B),
         common |-> Cardinality(A \intersect B),
         identical |-> registry[m][a].content = registry[m][b].content]

JobCalls(c) ==
    \/ \E j \in Jobs : ExecuteStart(c, j) \/ CancelTest(c, j)
    \/ ExecutorReturns(c) \/ ExecuteCompletes(c) \/ ExecutorRaises(c) \/ ExecuteFails(c)
    \/ CancelSet(c)

VersionCalls(c) ==
    \/ \E m \in Managers, d \in Datasets, name \in Names \union {Nothing} : CreateRead(c, m, d, name)
    \/ CreateOpen(c) \/ CreateFlush(c) \/ CreateRegister(c)

JobSteps == Clear \/ (\E j \in Jobs : Submit(j)) \/ (\E c \in Trainers : JobCalls(c))
VersionSteps == (\E m \in Managers : ClearVersions(m)) \/ (\E c \in Trainers : VersionCalls(c))
TuningNext == JobSteps \/ VersionSteps

TuningSpec == TuningInit /\ [][TuningNext]_tuningVars

-----------------------------------------------------------------------------
(***************************************************************************)
(* Properties.                                                             *)
(***************************************************************************)

Busy(j, pcs) == {c \in Trainers : thread[c].pc \in pcs /\ thread[c].job = j}

\* A job's status is backed by what its executions did, under any overlap of executions and
\* cancellations: it is running only while an execution is, completed only with the metrics
\* of an execution, failed only with the error of one (or while that one writes it).
JobsAddUp ==
    \A j \in Jobs :
        /\ job[j].status = "running" => Busy(j, {"executing", "returned"}) # {}
        /\ job[j].status = "completed" => job[j].metrics # Nothing
        /\ job[j].status = "failed" => job[j].error # Nothing \/ Busy(j, {"raised"}) # {}
        /\ job[j].status = "pending" => job[j].metrics = Nothing /\ job[j].error = Nothing

\* The calls that have a version's file open or are about to.
Rewriting(v) == {c \in Trainers : thread[c].pc \in {"open", "flush"} /\ thread[c].id = v}

\* A registered version with a computed identifier describes its file, whichever manager
\* wrote it last and however often, unless the file is being rewritten at the moment; and
\* comparing two such versions calls them identical only if no entry was added or removed.
VersionsMatchFiles ==
    \A m \in Managers : \A v \in Ids \ Names :
        registry[m][v] # Nothing /\ Rewriting(v) = {} =>
            /\ file[v] = registry[m][v].content
            /\ Len(file[v]) <= registry[m][v].count
            /\ \A w \in Ids \ Names :
                  registry[m][w] # Nothing /\ Rewriting(w) = {} =>
                      LET diff == CompareVersions(m, v, w)
                      IN  diff.identical => diff.added = 0 /\ diff.removed = 0

\* What the fine-tuning records say is backed by the executions and by the files.
TrainingRecordsTrue == JobsAddUp /\ VersionsMatchFiles
=============================================================================
