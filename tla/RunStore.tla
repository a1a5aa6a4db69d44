------------------------------ MODULE RunStore ------------------------------
(***************************************************************************)
(* The database of task runs: src/src/vsrs/core/store.py, with the         *)
(* requests and commands that use it (src/src/vsrs/api/routes.py,          *)
(* src/src/vsrs/cli.py) and the order in which a pipeline writes to it     *)
(* (src/src/vsrs/orchestrator.py, lines 187-403).                          *)
(*                                                                         *)
(* Several requests are in flight, each with a connection of its own.      *)
(* Every save commits by itself, so other requests see the rows of an      *)
(* unfinished run, and a process that dies leaves the rows it had saved.   *)
(* delete_run is one transaction that starts with its first DELETE.  A     *)
(* task is created with its run and has the run's name here.               *)
(***************************************************************************)
EXTENDS ProvenanceGraph

CONSTANTS
    TaskRuns,  \* requests to start a run, named by the run
    Deleters,  \* requests to delete a run
    Findings,  \* findings the critic can report on a patch
    NoRow      \* no value: not a row, not a plan

ASSUME FindingsAssumption == IsFiniteSet(Findings)

VARIABLES
    db,       \* the committed tables
    script,   \* run -> the set of writes its request has still to make
    plan,     \* history: run -> how its pipeline goes, NoRow before it starts
    deleter   \* deleter -> [run, table, pending]: the transaction it has open, or NoRow

storeVars == <<db, script, plan, deleter>>

-----------------------------------------------------------------------------
(***************************************************************************)
(* The tables.  A table is a set of rows; INSERT OR REPLACE removes the    *)
(* row with the same key.  Foreign keys are declared and not enforced.     *)
(***************************************************************************)

EmptyDatabase ==
    [repositories |-> {}, tasks |-> {}, task_runs |-> {}, evidence_items |-> {},
     patch_candidates |-> {}, verification_reports |-> {}, review_findings |-> {},
     provenance_edges |-> {}, run_events |-> {}, final_decisions |-> {}]

Upsert(table, row) == {x \in table : x.id # row.id} \union {row}

SaveRepository(d, row) == [d EXCEPT !.repositories = Upsert(@, row)]
SaveTask(d, row) == [d EXCEPT !.tasks = Upsert(@, row)]
SaveRun(d, row) == [d EXCEPT !.task_runs = Upsert(@, row)]
SaveEvidence(d, row) == [d EXCEPT !.evidence_items = Upsert(@, row)]
SavePatch(d, row) == [d EXCEPT !.patch_candidates = Upsert(@, row)]
SaveVerificationReport(d, row) == [d EXCEPT !.verification_reports = Upsert(@, row)]
SaveFinding(d, row) == [d EXCEPT !.review_findings = Upsert(@, row)]
\* Edges are inserted under a new key and never replaced.
SaveProvenanceEdge(d, row) == [d EXCEPT !.provenance_edges = @ \union {row}]
SaveEvent(d, row) == [d EXCEPT !.run_events = Upsert(@, row)]
\* The key of a decision is its task.
SaveFinalDecision(d, row) == [d EXCEPT !.final_decisions = Upsert(@, row)]

\* SELECT ... WHERE id = ? and fetchone: the row, or NoRow.  The other queries return sets of rows.
RowOf(table, id) ==
    IF \E x \in table : x.id = id THEN CHOOSE x \in table : x.id = id ELSE NoRow

GetRepository(d, id) == RowOf(d.repositories, id)
GetTask(d, id) == RowOf(d.tasks, id)
GetRun(d, id) == RowOf(d.task_runs, id)
GetRunsForTask(d, task) == {x \in d.task_runs : x.task = task}
ListAllRuns(d) == {x.id : x \in d.task_runs}
CountRuns(d) == Cardinality(d.task_runs)
GetEvidenceForTask(d, task) == {x \in d.evidence_items : x.task = task}
GetPatchesForTask(d, task) == {x \in d.patch_candidates : x.task = task}
GetVerificationReports(d, patch) == {x \in d.verification_reports : x.patch = patch}
GetFindingsForPatch(d, patch) == {x \in d.review_findings : x.patch = patch}
GetProvenanceEdgesFrom(d, n) == {x.edge : x \in {y \in d.provenance_edges : y.edge.from = n}}
GetProvenanceEdgesTo(d, n) == {x.edge : x \in {y \in d.provenance_edges : y.edge.to = n}}
GetEventsForRun(d, run) == {x \in d.run_events : x.run = run}
GetFinalDecision(d, task) == RowOf(d.final_decisions, task)

-----------------------------------------------------------------------------
(***************************************************************************)
(* What a run writes.  A plan says where its pipeline stops, whether the   *)
(* first verification passed, whether the repair loop found a patch that   *)
(* passes or raised, what the critic found, what was decided, and, at the  *)
(* end, whether the provenance graph was stored as a whole.                *)
(***************************************************************************)

Stages == {"intake", "retrieve", "reason", "patch", "verify", "all"}

Plans ==
    {p \in [ends : Stages, invalid : BOOLEAN, passed : BOOLEAN,
            repair : {"none", "found", "failed", "raised"}, findings : SUBSET Findings,
            decision : {"verified_candidate", "rejected", "needs_review", NoRow}, graph : BOOLEAN] :
        /\ p.invalid => p.ends = "patch"
        /\ p.ends # "all" => ~p.passed /\ p.repair = "none" /\ p.findings = {} /\ p.decision = NoRow
        /\ p.ends = "all" => (p.passed <=> p.repair = "none")
        /\ p.decision = NoRow => p.findings = {}
        /\ p.decision = "verified_candidate" => p.passed \/ p.repair = "found"}

PatchOf(r) == <<r, 1>>
RepairedPatchOf(r) == <<r, 2>>

\* result.patch: the repaired patch replaces the first, and is never saved.
ReviewedPatch(r, p) == IF p.repair = "found" THEN RepairedPatchOf(r) ELSE PatchOf(r)

ResultState(p) ==
    IF p.ends # "all" THEN "failed"
    ELSE CASE p.decision = "verified_candidate" -> "verified"
           [] p.decision = "rejected" -> "rejected"
           [] OTHER -> "needs_review"

Write(step, table, row) == [step |-> step, table |-> table, row |-> row]
Only(condition, writes) == IF condition THEN writes ELSE {}
RunRow(r, state, decision) == [id |-> r, task |-> r, repo |-> r, state |-> state, decision |-> decision]

\* An event has a new identifier and the time at which it is written.
Emit(r, step, type) == Write(step, "run_events", [id |-> <<r, step>>, run |-> r, type |-> type])

GraphOf(r, p) ==
    BuildFromPipeline(
        [run |-> r, task |-> r, locators |-> {}, hypothesis |-> <<"fix">>,
         patch |-> <<ReviewedPatch(r, p)>>, files |-> {}, verified |-> TRUE, checks |-> {},
         findings |-> p.findings, decision |-> IF p.decision = NoRow THEN <<>> ELSE <<p.decision>>])

\* The saves of create_run before it calls the pipeline.
Opening(r) ==
    { Write(1, "repositories", [id |-> r]), Write(2, "tasks", [id |-> r, repo |-> r]),
      Write(3, "task_runs", RunRow(r, "intake", NoRow)) }

\* What the last stage saves once the patch is verified.
Reviewing(r, p) ==
    LET reviewed == p.decision # NoRow
        state == IF p.repair = "raised" \/ ~reviewed THEN "failed" ELSE "reviewing"
    IN  { Emit(r, 11, "verification_result"),
          Write(12, "verification_reports",
                [id |-> <<PatchOf(r), 12>>, patch |-> PatchOf(r), passed |-> p.passed]) }
        \union Only(reviewed, { Emit(r, 13, "review_complete") })
        \union { Write(14, "review_findings", [id |-> <<r, f>>, patch |-> ReviewedPatch(r, p)]) :
                     f \in p.findings }
        \union Only(reviewed, { Write(15, "final_decisions", [id |-> r, status |-> p.decision]) })
        \union { Write(16, "task_runs", RunRow(r, state, p.decision)) }

\* The graph, edge by edge, and the event that ends the pipeline.
Recording(r, p) ==
    LET graph == GraphOf(r, p)
    IN  { Write(16 + k, "provenance_edges", [id |-> <<r, k>>, edge |-> graph[k]]) : k \in DOMAIN graph }
        \union { Emit(r, 17 + Len(graph), "run_complete") }

\* The saves and events of Orchestrator.run: each stage adds its own, an early return adds no more.
PipelineWrites(r, p) ==
    LET patched == p.ends \in {"verify", "all"}
    IN  { Emit(r, 5, "state_change") }
        \union Only(p.ends # "intake", { Emit(r, 6, "state_change") })
        \union Only(p.ends \notin {"intake", "retrieve"},
                    { Write(7, "evidence_items", [id |-> r, task |-> r]), Emit(r, 8, "state_change") })
        \union Only(patched \/ p.invalid, { Emit(r, 9, "patch_generated") })
        \union Only(patched, { Write(10, "patch_candidates", [id |-> PatchOf(r), task |-> r, attempt |-> 1]) })
        \union Only(p.ends = "all", Reviewing(r, p) \union Recording(r, p))

\* create_run saves the pipeline's run row again when the pipeline has returned.
Closing(r, p, step) == { Write(step, "task_runs", RunRow(r, ResultState(p), p.decision)) }

\* create_run whose run row is saved in its last state before the pipeline is executed.
FaultyScript(r, p) == Opening(r) \union Closing(r, p, 4) \union PipelineWrites(r, p)

\* All that a run writes, each write at its step; the findings share one.
Script(r, p) == Opening(r) \union PipelineWrites(r, p) \union Closing(r, p, 18 + Len(GraphOf(r, p)))

ASSUME NoRowAssumption ==
    /\ NoRow \notin Plans
    /\ \A r \in TaskRuns, p \in Plans : \A w \in Script(r, p) : w.row # NoRow

Save(d, w) ==
    CASE w.table = "repositories" -> SaveRepository(d, w.row)
      [] w.table = "tasks" -> SaveTask(d, w.row)
      [] w.table = "task_runs" -> SaveRun(d, w.row)
      [] w.table = "evidence_items" -> SaveEvidence(d, w.row)
      [] w.table = "patch_candidates" -> SavePatch(d, w.row)
      [] w.table = "verification_reports" -> SaveVerificationReport(d, w.row)
      [] w.table = "review_findings" -> SaveFinding(d, w.row)
      [] w.table = "provenance_edges" -> SaveProvenanceEdge(d, w.row)
      [] w.table = "run_events" -> SaveEvent(d, w.row)
      [] w.table = "final_decisions" -> SaveFinalDecision(d, w.row)

-----------------------------------------------------------------------------
(***************************************************************************)
(* What the requests and commands show of a run: <<answer>>, or <<>> for   *)
(* every "not found".                                                      *)
(***************************************************************************)

NotFound == <<>>

LastPatch(patches) == CHOOSE x \in patches : \A y \in patches : y.attempt <= x.attempt
LastReport(reports) == CHOOSE x \in reports : \A y \in reports : y.id[2] <= x.id[2]

\* GET /runs/{id}/diff: the last patch of the run's task.
GetRunDiff(d, r) ==
    IF GetRun(d, r) = NoRow \/ GetPatchesForTask(d, r) = {} THEN NotFound
    ELSE << LastPatch(GetPatchesForTask(d, r)).id >>

\* GET /runs/{id}/verify: the last report of that patch.
GetRunVerification(d, r) ==
    IF GetRunDiff(d, r) = NotFound THEN NotFound
    ELSE LET reports == GetVerificationReports(d, GetRunDiff(d, r)[1])
         IN  IF reports = {} THEN NotFound ELSE << LastReport(reports).passed >>

\* GET /runs/{id}/review: the findings on that patch, and the decision on the task.
GetRunReview(d, r) ==
    IF GetRun(d, r) = NoRow THEN NotFound
    ELSE LET patches == GetPatchesForTask(d, r)
             decision == GetFinalDecision(d, r)
         IN  [findings |-> IF patches = {} THEN {} ELSE GetFindingsForPatch(d, LastPatch(patches).id),
              decision |-> IF decision = NoRow THEN NoRow ELSE decision.status]

\* GET /runs/{id}/report: what the run left and the decision; its counts of the provenance
\* graph are Summary's, in Provenance.
GetRunReport(d, r) ==
    IF GetRun(d, r) = NoRow THEN NotFound
    ELSE [state |-> GetRun(d, r).state,
          evidence |-> Cardinality(GetEvidenceForTask(d, r)),
          patches |-> Cardinality(GetPatchesForTask(d, r)),
          events |-> GetEventsForRun(d, r),
          decision |-> GetRunReview(d, r).decision]

-----------------------------------------------------------------------------
StoreInit ==
    /\ db = EmptyDatabase
    /\ script = [r \in TaskRuns |-> {}]
    /\ plan = [r \in TaskRuns |-> NoRow]
    /\ deleter = [u \in Deleters |-> NoRow]

\* SQLite has one writer: while a transaction is open the others wait for its lock.
Unlocked == \A u \in Deleters : deleter[u] = NoRow

\* POST /runs, or the command run: the pipeline's course is not known in advance.
CreateRun(r) ==
    /\ plan[r] = NoRow
    /\ \E p \in {q \in Plans : q.graph} :
          /\ plan' = [plan EXCEPT ![r] = p]
          /\ script' = [script EXCEPT ![r] = Script(r, p)]
    /\ UNCHANGED <<db, deleter>>

\* The writes a run makes next.
Due(r) == {w \in script[r] : \A v \in script[r] : w.step <= v.step}

\* The next save of a run, committed.
SaveNext(r) ==
    /\ Unlocked
    /\ \E w \in Due(r) :
          /\ db' = Save(db, w)
          /\ script' = [script EXCEPT ![r] = @ \ {w}]
    /\ UNCHANGED <<plan, deleter>>

\* Storing an edge of the provenance graph raises: the pipeline goes on without the rest of it.
GraphFails(r) ==
    /\ \E w \in Due(r) : w.table = "provenance_edges"
    /\ script' = [script EXCEPT ![r] = {w \in @ : w.table # "provenance_edges"}]
    /\ plan' = [plan EXCEPT ![r].graph = FALSE]
    /\ UNCHANGED <<db, deleter>>

\* The process dies, the database stays locked too long, or the connection is used from
\* another thread than its own, which sqlite3 refuses: the rest of the saves is lost.
Abandon(r) ==
    /\ script[r] # {}
    /\ script' = [script EXCEPT ![r] = {}]
    /\ UNCHANGED <<db, plan, deleter>>

\* delete_run: the first two DELETEs, in a transaction that other connections do not see.
DeleteBegin(u, r) ==
    /\ Unlocked
    /\ GetRun(db, r) # NoRow
    /\ deleter' = [deleter EXCEPT ![u] =
                     [run |-> r,
                      pending |-> [db EXCEPT !.run_events = {x \in @ : x.run # r},
                                             !.final_decisions = {x \in @ : x.id # GetRun(db, r).task}]]]
    /\ UNCHANGED <<db, script, plan>>

\* The next DELETE names a table (critic_findings) or a column (source) that does not exist:
\* it raises, and closing the connection rolls the transaction back.
DeleteFails(u) ==
    /\ deleter[u] # NoRow
    /\ deleter' = [deleter EXCEPT ![u] = NoRow]
    /\ UNCHANGED <<db, script, plan>>

StoreNext ==
    \/ \E r \in TaskRuns : CreateRun(r) \/ SaveNext(r) \/ GraphFails(r) \/ Abandon(r)
    \/ \E u \in Deleters :
          \/ \E r \in TaskRuns : DeleteBegin(u, r)
          \/ DeleteFails(u)

StoreSpec == StoreInit /\ [][StoreNext]_storeVars

-----------------------------------------------------------------------------
(***************************************************************************)
(* Properties.                                                             *)
(***************************************************************************)

\* The declared foreign keys, which SQLite does not enforce here, hold in every committed
\* state.  Findings are the exception: those on a repaired patch name a patch with no row.
ReferencesResolve ==
    /\ \A t \in db.tasks : GetRepository(db, t.repo) # NoRow
    /\ \A x \in db.task_runs : GetTask(db, x.task) # NoRow /\ GetRepository(db, x.repo) # NoRow
    /\ \A x \in db.patch_candidates \union db.evidence_items : GetTask(db, x.task) # NoRow
    /\ \A x \in db.verification_reports : RowOf(db.patch_candidates, x.patch) # NoRow
    /\ \A x \in db.run_events : GetRun(db, x.run) # NoRow
    /\ \A x \in db.final_decisions : GetTask(db, x.id) # NoRow
    /\ \A x \in db.review_findings :
          RowOf(db.patch_candidates, x.patch) = NoRow => plan[x.id[1]].repair = "found"

Shown(x) ==
    LET r == x.id
        p == plan[r]
        review == GetRunReview(db, r)
        report == GetRunReport(db, r)
        reviewed == p.decision # NoRow
        decided == Edge(<<"run", r>>, "decided", <<"decision", r>>)
        leaving == GetProvenanceEdgesFrom(db, <<"run", r>>)
    IN  /\ x.state = ResultState(p)
        /\ review.decision = p.decision /\ x.decision = p.decision
        /\ p.ends = "all" =>
              /\ GetRunDiff(db, r) = << PatchOf(r) >>
              /\ GetRunVerification(db, r) = << p.passed >>
              /\ p.repair # "found" => {y.id[2] : y \in review.findings} = p.findings
              /\ report.patches = 1
              /\ {y.type : y \in report.events} =
                    {"state_change", "patch_generated", "verification_result", "run_complete"}
                    \union Only(reviewed, {"review_complete"})
              /\ p.graph => leaving =
                    { Edge(<<"run", r>>, "executes", <<"task", r>>),
                      Edge(<<"run", r>>, "produced", <<"patch", ReviewedPatch(r, p)>>) }
                    \union Only(reviewed, {decided})
        /\ GetRunsForTask(db, x.task) = {x}
        /\ GetProvenanceEdgesTo(db, <<"decision", r>>) \subseteq leaving

\* In every committed state, whatever died before and whatever deletion is under way, the
\* references between rows resolve, a run has one row, and a run whose row shows a result is
\* shown in full: its decision, its first patch and the report on it, its events, its findings
\* unless they are on a repaired patch, and, unless storing it failed, a provenance graph that
\* leads from the run to its patch and its decision (the order of the saves in
\* routes.py:128-143 and orchestrator.py:248-409, and the rollback of a delete_run that fails).
StoredRunsComplete ==
    /\ ReferencesResolve
    /\ CountRuns(db) = Cardinality(ListAllRuns(db))
    /\ \A x \in db.task_runs : x.state \in {"verified", "rejected", "needs_review"} => Shown(x)
=============================================================================
