------------------------------ MODULE Tenants ------------------------------
(***************************************************************************)
(* Tenants, projects and run quotas: TenantManager of                      *)
(* src/vsrs/enterprise/tenant.py behind the handlers of                    *)
(* src/vsrs/api/enterprise_routes.py, which FastAPI runs in a thread pool. *)
(* A method that looks at one table and stores in another after a call in  *)
(* between is cut there; `call` is what each thread is in the middle of.   *)
(* Storage and API-key counters, which nothing else reads, are left out,   *)
(* and so is the order in which a tenant's projects are listed: a list is  *)
(* how often each project is in it.                                        *)
(***************************************************************************)
EXTENDS Integers, FiniteSets

CONSTANTS
    Tenants, Projects, \* the identifiers clients use
    Runs,              \* bound: the runs clients start
    Handlers,          \* threads executing request handlers
    MaxProjects, MaxRunsPerDay, MaxConcurrentRuns, \* the quota; negative is unlimited
    Days,              \* bound: the days the clock goes through
    Creations,         \* bound: the tenants created altogether
    None

ASSUME QuotaAssumption == {MaxProjects, MaxRunsPerDay, MaxConcurrentRuns} \subseteq Int
ASSUME ClockAssumption == Days \in Nat /\ Creations \in Nat
ASSUME RunsAssumption == IsFiniteSet(Runs)

UsageRecords == [record : Nat, day : Nat, runsToday : Nat, concurrent : Nat, projects : Nat,
                 crossed : BOOLEAN]

\* A run a client asked about: whether it started or ended, on which record and day,
\* and whether another one started since it was checked (history).
ClientRuns == [at : {"checked", "running", "ended"}, tenant : Tenants, stale : BOOLEAN,
               record : Nat, day : Nat]

\* What a thread keeps in its local variables in the middle of a method.
Calls == [op : {"create_tenant"}, tenant : Tenants]
         \union [op : {"delete_tenant"}, tenant : Tenants, projects : SUBSET Projects]
         \union [op : {"create_project"}, project : Projects, tenant : Tenants, record : Nat]
         \union [op : {"delete_project"}, project : Projects, tenant : Tenants]

ASSUME NoneAssumption == None \notin Tenants \union UsageRecords \union ClientRuns \union Calls

VARIABLES
    tenantStatus, \* _tenants: the status of a tenant, or None
    owner,        \* _projects: the tenant_id of a project, or None
    listed,       \* _projects_by_tenant: how often a project is listed (0 where it is absent)
    usage,        \* _usage: the UsageRecord of a tenant, or None
    today,        \* the date _get_usage computes
    call,         \* the method each thread is in the middle of, or None
    run,          \* what each client run did, or None
    made,         \* how many usage records were created; numbers them
    disturbed     \* history: projects two overlapping methods worked on

tenantVars == <<tenantStatus, owner, listed, usage, today, call, run, made, disturbed>>

NoProjects == [p \in Projects |-> 0]

TenantsInit ==
    /\ tenantStatus = [t \in Tenants |-> None]
    /\ owner = [p \in Projects |-> None]
    /\ listed = [t \in Tenants |-> NoProjects]
    /\ usage = [t \in Tenants |-> None]
    /\ today = 1
    /\ call = [h \in Handlers |-> None]
    /\ run = [r \in Runs |-> None]
    /\ made = 0
    /\ disturbed = {}

-----------------------------------------------------------------------------
\* UsageRecord(tenant_id): number `made` + 1, dated today.  `crossed` is
\* history: a run that started on another record ended on this one.
NewUsage == [record |-> made + 1, day |-> today, runsToday |-> 0, concurrent |-> 0,
             projects |-> 0, crossed |-> FALSE]

\* Forgetting the turn of the day.
FaultyGetUsage(t) == IF usage[t] = None THEN NewUsage ELSE usage[t]

\* What _get_usage returns and leaves in _usage: created when absent, its
\* daily counter reset when the date changed.
GetUsage(t) ==
    IF usage[t] = None THEN NewUsage
    ELSE IF usage[t].day # today THEN [usage[t] EXCEPT !.day = today, !.runsToday = 0]
    ELSE usage[t]

\* A call of _get_usage whose record is then changed to u.
PutUsage(t, u) ==
    /\ usage' = [usage EXCEPT ![t] = u]
    /\ made' = IF usage[t] = None THEN made + 1 ELSE made

\* _check_quota does not raise.
WithinQuota(limit, current) == limit < 0 \/ current < limit

Without(list, p) == [list EXCEPT ![p] = 0]

Elements(list) == {p \in Projects : list[p] > 0}

\* The projects the call of a thread works on.
Touched(h) ==
    IF call[h] = None THEN {}
    ELSE CASE call[h].op \in {"create_project", "delete_project"} -> {call[h].project}
           [] call[h].op = "delete_tenant" -> call[h].projects
           [] OTHER -> {}

\* Projects being created in tenant t by a method in the middle.
Arriving(t) == {p \in Projects : \E h \in Handlers :
                   /\ call[h] # None
                   /\ call[h].op = "create_project"
                   /\ call[h].project = p
                   /\ call[h].tenant = t}

\* A method starts on the projects ps; those another method is at work on are
\* disturbed.
Overlap(ps) == disturbed' = disturbed \union (ps \intersect UNION {Touched(h) : h \in Handlers})

Idle(h) == call[h] = None

Enter(h, c) == call' = [call EXCEPT ![h] = c]

Leave(h) == call' = [call EXCEPT ![h] = None]

-----------------------------------------------------------------------------
\* create_tenant, down to the test that the identifier is new (the handler
\* answers an error otherwise).
CreateTenantCheck(h, t) ==
    /\ Idle(h) /\ made < Creations
    /\ tenantStatus[t] = None
    /\ Enter(h, [op |-> "create_tenant", tenant |-> t])
    /\ UNCHANGED <<tenantStatus, owner, listed, usage, today, run, made, disturbed>>

\* The rest of create_tenant: the tenant, an empty list and a new record
\* replace whatever is there.
CreateTenantStore(h) ==
    /\ ~Idle(h) /\ call[h].op = "create_tenant"
    /\ LET t == call[h].tenant IN
           /\ tenantStatus' = [tenantStatus EXCEPT ![t] = "active"]
           /\ listed' = [listed EXCEPT ![t] = NoProjects]
           /\ usage' = [usage EXCEPT ![t] = NewUsage]
           /\ made' = made + 1
           /\ disturbed' = disturbed \union Arriving(t)
                               \union {p \in Projects : owner[p] = t}
    /\ Leave(h)
    /\ UNCHANGED <<owner, today, run>>

\* suspend_tenant and reactivate_tenant: update_tenant with a status.
SetStatus(h, t, status) ==
    /\ Idle(h)
    /\ tenantStatus[t] # None
    /\ tenantStatus' = [tenantStatus EXCEPT ![t] = status]
    /\ UNCHANGED <<owner, listed, usage, today, call, run, made, disturbed>>

\* POST /tenants/{tenant_id}/suspend.
SuspendTenant(h, t) == SetStatus(h, t, "suspended")

\* POST /tenants/{tenant_id}/reactivate.
ReactivateTenant(h, t) == SetStatus(h, t, "active")

\* delete_tenant takes the tenant's list of projects away first ...
DeleteTenantUnlist(h, t) ==
    /\ Idle(h)
    /\ tenantStatus[t] # None
    /\ Enter(h, [op |-> "delete_tenant", tenant |-> t, projects |-> Elements(listed[t])])
    /\ listed' = [listed EXCEPT ![t] = NoProjects]
    /\ Overlap(Elements(listed[t]) \union Arriving(t))
    /\ UNCHANGED <<tenantStatus, owner, usage, today, run, made>>

\* Dropping the tenant and leaving its projects behind.
FaultyDeleteTenantDrop(h) ==
    /\ ~Idle(h) /\ call[h].op = "delete_tenant"
    /\ tenantStatus[call[h].tenant] # None
    /\ LET t == call[h].tenant IN
           /\ tenantStatus' = [tenantStatus EXCEPT ![t] = None]
           /\ usage' = [usage EXCEPT ![t] = None]
           /\ disturbed' = disturbed \union Arriving(t)
    /\ Leave(h)
    /\ UNCHANGED <<owner, listed, today, run, made>>

\* ... then its projects, the tenant and its usage record.  Another thread that
\* deleted the tenant meanwhile makes the second pop raise.
DeleteTenantDrop(h) ==
    /\ ~Idle(h) /\ call[h].op = "delete_tenant"
    /\ LET t == call[h].tenant IN
           /\ owner' = [p \in Projects |-> IF p \in call[h].projects THEN None ELSE owner[p]]
           /\ tenantStatus' = [tenantStatus EXCEPT ![t] = None]
           /\ usage' = IF tenantStatus[t] = None THEN usage ELSE [usage EXCEPT ![t] = None]
           /\ disturbed' = disturbed \union Arriving(t)
    /\ Leave(h)
    /\ UNCHANGED <<listed, today, run, made>>

-----------------------------------------------------------------------------
\* create_project, down to the last of its tests; the thread keeps the usage
\* record it looked at.
CreateProjectCheck(h, p, t) ==
    /\ Idle(h)
    /\ tenantStatus[t] = "active"
    /\ WithinQuota(MaxProjects, GetUsage(t).projects)
    /\ owner[p] = None
    /\ PutUsage(t, GetUsage(t))
    /\ Enter(h, [op |-> "create_project", project |-> p, tenant |-> t,
                 record |-> GetUsage(t).record])
    /\ disturbed' = disturbed \union
           IF \E g \in Handlers : /\ ~Idle(g)
                                  /\ \/ p \in Touched(g)
                                     \/ call[g].op \in {"create_tenant", "delete_tenant"} /\ call[g].tenant = t
           THEN {p} ELSE {}
    /\ UNCHANGED <<tenantStatus, owner, listed, today, run>>

\* The rest of create_project: stored, listed and counted in the record the
\* thread holds, which need not be the tenant's any more.
CreateProjectStore(h) ==
    /\ ~Idle(h) /\ call[h].op = "create_project"
    /\ LET t == call[h].tenant
           p == call[h].project IN
           /\ owner' = [owner EXCEPT ![p] = t]
           /\ listed' = [listed EXCEPT ![t][p] = @ + 1]
           /\ usage' = IF usage[t] # None /\ usage[t].record = call[h].record
                       THEN [usage EXCEPT ![t].projects = @ + 1] ELSE usage
    /\ Leave(h)
    /\ UNCHANGED <<tenantStatus, today, run, made, disturbed>>

\* DELETE /tenants/{tenant_id}/projects/{project_id} requires the tenant of the
\* path to exist, not to own the project; delete_project takes the project out
\* of _projects first ...
DeleteProjectPop(h, p, t) ==
    /\ Idle(h)
    /\ tenantStatus[t] # None
    /\ owner[p] # None
    /\ owner' = [owner EXCEPT ![p] = None]
    /\ Enter(h, [op |-> "delete_project", project |-> p, tenant |-> owner[p]])
    /\ Overlap({p})
    /\ UNCHANGED <<tenantStatus, listed, usage, today, run, made>>

\* ... then out of its owner's list, and counts it off.
DeleteProjectUnlist(h) ==
    /\ ~Idle(h) /\ call[h].op = "delete_project"
    /\ LET t == call[h].tenant
           u == GetUsage(t) IN
           /\ listed' = [listed EXCEPT ![t] = Without(@, call[h].project)]
           /\ PutUsage(t, [u EXCEPT !.projects = IF @ > 0 THEN @ - 1 ELSE 0])
    /\ Leave(h)
    /\ UNCHANGED <<tenantStatus, owner, today, run, disturbed>>

\* list_projects: the listed identifiers that still have a project.
ListProjects(t) == {p \in Elements(listed[t]) : owner[p] # None}

-----------------------------------------------------------------------------
\* check_run_allowed lets a client's run r go on.
CheckRunAllowed(r, t) ==
    /\ run[r] = None
    /\ tenantStatus[t] = "active"
    /\ WithinQuota(MaxRunsPerDay, GetUsage(t).runsToday)
    /\ WithinQuota(MaxConcurrentRuns, GetUsage(t).concurrent)
    /\ PutUsage(t, GetUsage(t))
    /\ run' = [run EXCEPT ![r] = [at |-> "checked", tenant |-> t, stale |-> FALSE,
                                  record |-> GetUsage(t).record, day |-> today]]
    /\ UNCHANGED <<tenantStatus, owner, listed, today, call, disturbed>>

\* record_run_start, which tests nothing.  The runs checked but not started yet
\* on that tenant went by an older count now.
RecordRunStart(r) ==
    /\ run[r] # None /\ run[r].at = "checked"
    /\ LET t == run[r].tenant
           u == GetUsage(t) IN
           /\ PutUsage(t, [u EXCEPT !.runsToday = @ + 1, !.concurrent = @ + 1])
           /\ run' = [s \in Runs |->
                  IF s = r THEN [run[r] EXCEPT !.at = "running", !.record = u.record, !.day = today]
                  ELSE IF run[s] # None /\ run[s].at = "checked" /\ run[s].tenant = t
                       THEN [run[s] EXCEPT !.stale = TRUE] ELSE run[s]]
    /\ UNCHANGED <<tenantStatus, owner, listed, today, call, disturbed>>

\* record_run_end, on the tenant's record of the moment.
RecordRunEnd(r) ==
    /\ run[r] # None /\ run[r].at = "running"
    /\ LET t == run[r].tenant
           u == GetUsage(t) IN
           PutUsage(t, [u EXCEPT !.concurrent = IF @ > 0 THEN @ - 1 ELSE 0,
                                 !.crossed = @ \/ u.record # run[r].record])
    /\ run' = [run EXCEPT ![r].at = "ended"]
    /\ UNCHANGED <<tenantStatus, owner, listed, today, call, disturbed>>

NextDay ==
    /\ today < Days
    /\ today' = today + 1
    /\ UNCHANGED <<tenantStatus, owner, listed, usage, call, run, made, disturbed>>

TenantMethods(h) ==
    \/ CreateTenantStore(h) \/ DeleteTenantDrop(h)
    \/ \E t \in Tenants : \/ CreateTenantCheck(h, t) \/ DeleteTenantUnlist(h, t)
                          \/ SuspendTenant(h, t) \/ ReactivateTenant(h, t)

ProjectMethods(h) ==
    \/ CreateProjectStore(h) \/ DeleteProjectUnlist(h)
    \/ \E t \in Tenants, p \in Projects : CreateProjectCheck(h, p, t) \/ DeleteProjectPop(h, p, t)

RunMethods(r) ==
    \/ \E t \in Tenants : CheckRunAllowed(r, t)
    \/ RecordRunStart(r) \/ RecordRunEnd(r)

TenantsNext ==
    \/ \E h \in Handlers : TenantMethods(h) \/ ProjectMethods(h)
    \/ \E r \in Runs : RunMethods(r)
    \/ NextDay

TenantsSpec == TenantsInit /\ [][TenantsNext]_tenantVars

-----------------------------------------------------------------------------
Started(t) == {r \in Runs : run[r] # None /\ run[r].at \in {"running", "ended"}
                                /\ run[r].record = usage[t].record}

\* Every run is on the books of its tenant: the record counts exactly the runs
\* in flight and those of the day, and the runs that started on a fresh check
\* stay within both quotas, whatever was deleted, re-created or turned over
\* meanwhile.  Not claimed once the end of a run has been charged to a record of
\* a later tenant of the same name.
RunQuotaHeld ==
    \A t \in Tenants : usage[t] # None /\ ~usage[t].crossed =>
        LET inFlight == {r \in Started(t) : run[r].at = "running"}
            daily == {r \in Started(t) : run[r].day = usage[t].day}
            Fresh(rs) == Cardinality({r \in rs : ~run[r].stale}) IN
        /\ usage[t].concurrent = Cardinality(inFlight)
        /\ usage[t].runsToday = Cardinality(daily)
        /\ MaxConcurrentRuns >= 0 => Fresh(inFlight) <= MaxConcurrentRuns
        /\ MaxRunsPerDay >= 0 => Fresh(daily) <= MaxRunsPerDay

\* A project that no two overlapping methods worked on is kept once in the list
\* of the tenant it belongs to and in no other, or nowhere: the two tables agree
\* whenever no method is at work on it, and list_projects shows it to its owner alone.
ProjectsIsolated ==
    \A p \in Projects \ disturbed :
        (\A h \in Handlers : p \notin Touched(h)) =>
            \A t \in Tenants :
                /\ listed[t][p] = IF owner[p] = t THEN 1 ELSE 0
                /\ p \in ListProjects(t) <=> owner[p] = t
=============================================================================
