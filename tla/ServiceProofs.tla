--------------------------- MODULE ServiceProofs ----------------------------
(***************************************************************************)
(* ProjectsIsolated and RunQuotaHeld of Tenants hold for any number of     *)
(* tenants, projects, runs and threads, any quotas and any number of days; *)
(* SessionsAccounted of SingleSignOn for any number of identities, callers *)
(* and sessions; AuditKeepsNewest and LimitsHold of ApiGate for any number *)
(* of threads, keys and requests, any max_events and any limits;           *)
(* NoEventMissed of WebSockets for any number of clients, events and       *)
(* clears.                                                                 *)
(*                                                                         *)
(* A session that somebody sets out to take away has a cause from then on  *)
(* (TakenForCause), which a refresh does not forget; and the tables of     *)
(* users lead to each other (UsersLinked).                                 *)
(***************************************************************************)
EXTENDS Tenants, SingleSignOn, ApiGate, WebSockets, SequenceTheorems, FiniteSetTheorems, TLAPS

-----------------------------------------------------------------------------
(***************************************************************************)
(* Tenants: types.                                                         *)
(***************************************************************************)
TenantsTypeOK ==
    /\ owner \in [Projects -> Tenants \union {None}]
    /\ listed \in [Tenants -> [Projects -> Nat]]
    /\ usage \in [Tenants -> UsageRecords \union {None}]
    /\ call \in [Handlers -> Calls \union {None}]
    /\ run \in [Runs -> ClientRuns \union {None}]
    /\ today \in Nat /\ made \in Nat /\ disturbed \subseteq Projects

\* What each method keeps while it is in the middle.
LEMMA CallFields ==
    ASSUME TenantsTypeOK, NEW h \in Handlers, call[h] # None
    PROVE  /\ call[h].op \in {"create_tenant", "delete_tenant", "create_project", "delete_project"}
           /\ call[h].tenant \in Tenants
           /\ call[h].op = "delete_tenant" => call[h].projects \subseteq Projects
           /\ call[h].op = "create_project" => call[h].project \in Projects /\ call[h].record \in Nat
           /\ call[h].op = "delete_project" => call[h].project \in Projects
<1>1. call[h] \in Calls
  BY DEF TenantsTypeOK
<1>2. CASE call[h] \in [op : {"create_tenant"}, tenant : Tenants]
  BY <1>2
<1>3. CASE call[h] \in [op : {"delete_tenant"}, tenant : Tenants, projects : SUBSET Projects]
  BY <1>3
<1>4. CASE call[h] \in [op : {"create_project"}, project : Projects, tenant : Tenants, record : Nat]
  BY <1>4
<1>5. CASE call[h] \in [op : {"delete_project"}, project : Projects, tenant : Tenants]
  BY <1>5
<1> QED
  BY <1>1, <1>2, <1>3, <1>4, <1>5 DEF Calls

\* _get_usage returns a record dated today.
LEMMA GetUsageType ==
    ASSUME TenantsTypeOK, NEW t \in Tenants
    PROVE  /\ GetUsage(t) \in UsageRecords /\ GetUsage(t).day = today
           /\ usage[t] = None => GetUsage(t) = NewUsage
           /\ usage[t] # None =>
                 /\ GetUsage(t).record = usage[t].record
                 /\ GetUsage(t).concurrent = usage[t].concurrent
                 /\ GetUsage(t).crossed = usage[t].crossed
                 /\ GetUsage(t).runsToday = IF usage[t].day = today THEN usage[t].runsToday ELSE 0
<1>1. NewUsage \in UsageRecords /\ NewUsage.day = today
  BY DEF NewUsage, UsageRecords, TenantsTypeOK
<1>2. CASE usage[t] = None
  BY <1>1, <1>2 DEF GetUsage
<1>3. CASE usage[t] # None /\ usage[t].day = today
  BY <1>3 DEF GetUsage, TenantsTypeOK
<1>4. CASE usage[t] # None /\ usage[t].day # today
  <2>1. usage[t] \in UsageRecords /\ today \in Nat
    BY <1>4 DEF TenantsTypeOK
  <2>2. GetUsage(t) = [usage[t] EXCEPT !.day = today, !.runsToday = 0]
    BY <1>4 DEF GetUsage
  <2>3. ASSUME NEW u \in UsageRecords, NEW d \in Nat
        PROVE  /\ [u EXCEPT !.day = d, !.runsToday = 0] \in UsageRecords
               /\ [u EXCEPT !.day = d, !.runsToday = 0].day = d
               /\ [u EXCEPT !.day = d, !.runsToday = 0].runsToday = 0
               /\ [u EXCEPT !.day = d, !.runsToday = 0].record = u.record
               /\ [u EXCEPT !.day = d, !.runsToday = 0].concurrent = u.concurrent
               /\ [u EXCEPT !.day = d, !.runsToday = 0].crossed = u.crossed
    BY DEF UsageRecords
  <2>4. /\ GetUsage(t) \in UsageRecords /\ GetUsage(t).day = today /\ GetUsage(t).runsToday = 0
        /\ GetUsage(t).record = usage[t].record /\ GetUsage(t).concurrent = usage[t].concurrent
        /\ GetUsage(t).crossed = usage[t].crossed
    <3>1. PICK u : u = usage[t]
      OBVIOUS
    <3>2. PICK d : d = today
      OBVIOUS
    <3> DEFINE v == [u EXCEPT !.day = d, !.runsToday = 0]
    <3>3. GetUsage(t) = v /\ u \in UsageRecords /\ d \in Nat
      BY <2>1, <2>2, <3>1, <3>2
    <3>4. /\ v \in UsageRecords /\ v.day = d /\ v.runsToday = 0
          /\ v.record = u.record /\ v.concurrent = u.concurrent /\ v.crossed = u.crossed
      BY <2>3, <3>3
    <3> HIDE DEF v
    <3> QED
      BY <3>1, <3>2, <3>3, <3>4
  <2> QED
    BY <1>4, <2>4
<1> QED
  BY <1>2, <1>3, <1>4

LEMMA PutUsageType ==
    ASSUME TenantsTypeOK, NEW t \in Tenants, NEW u \in UsageRecords, PutUsage(t, u)
    PROVE  usage' \in [Tenants -> UsageRecords \union {None}] /\ made' \in Nat
BY DEF TenantsTypeOK, PutUsage

\* Counting a project leaves the rest of a record alone.
LEMMA ProjectsField ==
    ASSUME NEW u \in UsageRecords, NEW p \in Nat, NEW v, v = [u EXCEPT !.projects = p]
    PROVE  /\ v \in UsageRecords /\ v.record = u.record /\ v.day = u.day
           /\ v.runsToday = u.runsToday /\ v.concurrent = u.concurrent /\ v.crossed = u.crossed
BY DEF UsageRecords

LEMMA EnterType ==
    ASSUME TenantsTypeOK, NEW h \in Handlers, NEW c \in Calls \union {None}, Enter(h, c)
    PROVE  /\ call' \in [Handlers -> Calls \union {None}] /\ call'[h] = c
           /\ \A g \in Handlers : g # h => call'[g] = call[g]
BY DEF TenantsTypeOK, Enter

LEMMA LeaveType ==
    ASSUME TenantsTypeOK, NEW h \in Handlers, Leave(h)
    PROVE  /\ call' \in [Handlers -> Calls \union {None}] /\ call'[h] = None
           /\ \A g \in Handlers : g # h => call'[g] = call[g]
BY DEF TenantsTypeOK, Leave

-----------------------------------------------------------------------------
(* Projects.  A project two overlapping methods never worked on is in the  *)
(* tables as the one method at work on it, or none, has left it.           *)

\* How far the method of h has got with project p.
Underway(h, p) ==
    /\ call[h].op = "create_project" => owner[p] = None /\ \A t \in Tenants : listed[t][p] = 0
    /\ call[h].op = "delete_project" =>
          owner[p] = None /\ \A t \in Tenants : listed[t][p] <= IF t = call[h].tenant THEN 1 ELSE 0
    /\ call[h].op = "delete_tenant" =>
          owner[p] = call[h].tenant /\ \A t \in Tenants : listed[t][p] = 0

ProjectOK(p) ==
    /\ \A g, h \in Handlers : p \in Touched(g) /\ p \in Touched(h) => g = h
    /\ \A h \in Handlers : p \in Touched(h) => Underway(h, p)
    /\ (\A h \in Handlers : p \notin Touched(h)) =>
          \A t \in Tenants : listed[t][p] = IF owner[p] = t THEN 1 ELSE 0

ProjectInv == \A p \in Projects \ disturbed : ProjectOK(p)

\* A step that leaves the row and the lists of p alone, and the method at work on it.
LEMMA ProjectUntouched ==
    ASSUME NEW p \in Projects, ProjectOK(p), owner'[p] = owner[p],
           \A t \in Tenants : listed'[t][p] = listed[t][p],
           \A g \in Handlers : p \in Touched(g)' => p \in Touched(g) /\ call'[g] = call[g],
           \A g \in Handlers : p \in Touched(g) => p \in Touched(g)'
    PROVE  ProjectOK(p)'
<1>1. ASSUME NEW h \in Handlers, p \in Touched(h)' PROVE Underway(h, p)'
  <2>1. Underway(h, p) /\ call'[h] = call[h]
    BY <1>1 DEF ProjectOK
  <2> QED
    BY <2>1 DEF Underway
<1> QED
  BY <1>1 DEF ProjectOK

LEMMA TypeInitially == TenantsInit => TenantsTypeOK
BY DEF TenantsInit, TenantsTypeOK, NoProjects

LEMMA TypeStep == TenantsTypeOK /\ [TenantsNext]_tenantVars => TenantsTypeOK'
<1> SUFFICES ASSUME TenantsTypeOK, [TenantsNext]_tenantVars PROVE TenantsTypeOK'
  OBVIOUS
<1>1. /\ NewUsage \in UsageRecords /\ made + 1 \in Nat /\ today + 1 \in Nat
      /\ NoProjects \in [Projects -> Nat]
  BY DEF TenantsTypeOK, NewUsage, UsageRecords, NoProjects
<1>2. ASSUME NEW h \in Handlers, CreateTenantStore(h) PROVE TenantsTypeOK'
  BY <1>1, <1>2, CallFields, LeaveType DEF TenantsTypeOK, CreateTenantStore, Idle, Arriving
<1>3. ASSUME NEW h \in Handlers, DeleteTenantDrop(h) PROVE TenantsTypeOK'
  <2>1. /\ call[h].tenant \in Tenants /\ call' \in [Handlers -> Calls \union {None}]
        /\ usage' \in [Tenants -> UsageRecords \union {None}]
    BY <1>3, CallFields, LeaveType DEF DeleteTenantDrop, Idle, TenantsTypeOK
  <2> QED
    BY <1>3, <2>1 DEF TenantsTypeOK, DeleteTenantDrop, Arriving
<1>4. ASSUME NEW h \in Handlers, NEW t \in Tenants, CreateTenantCheck(h, t) PROVE TenantsTypeOK'
  <2>1. [op |-> "create_tenant", tenant |-> t] \in Calls
    BY DEF Calls
  <2> QED
    BY <1>4, <2>1, EnterType DEF TenantsTypeOK, CreateTenantCheck
<1>5. ASSUME NEW h \in Handlers, NEW t \in Tenants, DeleteTenantUnlist(h, t) PROVE TenantsTypeOK'
  <2>1. [op |-> "delete_tenant", tenant |-> t, projects |-> Elements(listed[t])] \in Calls
    BY DEF Calls, Elements
  <2>2. call' \in [Handlers -> Calls \union {None}]
    BY <1>5, <2>1, EnterType DEF DeleteTenantUnlist
  <2>3. disturbed' \subseteq Projects
    BY <1>5 DEF TenantsTypeOK, DeleteTenantUnlist, Overlap, Arriving, Elements
  <2> QED
    BY <1>1, <1>5, <2>2, <2>3 DEF TenantsTypeOK, DeleteTenantUnlist
<1>6. ASSUME NEW h \in Handlers, NEW t \in Tenants, SuspendTenant(h, t) \/ ReactivateTenant(h, t)
      PROVE  TenantsTypeOK'
  BY <1>6 DEF TenantsTypeOK, SuspendTenant, ReactivateTenant, SetStatus
<1>7. ASSUME NEW h \in Handlers, CreateProjectStore(h) PROVE TenantsTypeOK'
  <2>1. /\ call[h].tenant \in Tenants /\ call[h].project \in Projects
        /\ call' \in [Handlers -> Calls \union {None}]
    BY <1>7, CallFields, LeaveType DEF CreateProjectStore, Idle
  <2>2. usage' \in [Tenants -> UsageRecords \union {None}]
    <3> DEFINE t == call[h].tenant
    <3>1. CASE usage[t] # None /\ usage[t].record = call[h].record
      <4>1. usage[t] \in UsageRecords /\ usage[t].projects + 1 \in Nat
        BY <2>1, <3>1 DEF TenantsTypeOK, UsageRecords
      <4>2. [usage[t] EXCEPT !.projects = usage[t].projects + 1] \in UsageRecords
        BY <4>1, ProjectsField
      <4>3. usage' = [usage EXCEPT ![t] = [usage[t] EXCEPT !.projects = usage[t].projects + 1]]
        BY <1>7, <3>1 DEF CreateProjectStore
      <4> QED
        BY <4>2, <4>3 DEF TenantsTypeOK
    <3>2. CASE ~(usage[t] # None /\ usage[t].record = call[h].record)
      BY <1>7, <3>2 DEF CreateProjectStore, TenantsTypeOK
    <3> QED
      BY <3>1, <3>2
  <2>3. owner' \in [Projects -> Tenants \union {None}] /\ listed' \in [Tenants -> [Projects -> Nat]]
    BY <1>7, <2>1 DEF TenantsTypeOK, CreateProjectStore
  <2> QED
    BY <1>7, <2>1, <2>2, <2>3 DEF TenantsTypeOK, CreateProjectStore
<1>8. ASSUME NEW h \in Handlers, DeleteProjectUnlist(h) PROVE TenantsTypeOK'
  <2> DEFINE t == call[h].tenant
             u == GetUsage(t)
  <2>1. /\ t \in Tenants /\ call[h].project \in Projects
        /\ call' \in [Handlers -> Calls \union {None}]
    BY <1>8, CallFields, LeaveType DEF DeleteProjectUnlist, Idle
  <2>2. u \in UsageRecords
    BY <2>1, GetUsageType
  <2>3. PICK n \in Nat : PutUsage(t, [u EXCEPT !.projects = n])
    <3>1. u.projects \in Nat
      BY <2>2 DEF UsageRecords
    <3>2. (IF u.projects > 0 THEN u.projects - 1 ELSE 0) \in Nat
      BY <3>1
    <3>3. PutUsage(t, [u EXCEPT !.projects = IF u.projects > 0 THEN u.projects - 1 ELSE 0])
      BY <1>8 DEF DeleteProjectUnlist
    <3> QED
      BY <3>2, <3>3
  <2>4. [u EXCEPT !.projects = n] \in UsageRecords
    BY <2>2, ProjectsField
  <2>5. usage' \in [Tenants -> UsageRecords \union {None}] /\ made' \in Nat
    BY <2>1, <2>3, <2>4, PutUsageType
  <2>6. listed' \in [Tenants -> [Projects -> Nat]]
    BY <1>8, <2>1 DEF TenantsTypeOK, DeleteProjectUnlist, Without
  <2> QED
    BY <1>8, <2>1, <2>5, <2>6 DEF TenantsTypeOK, DeleteProjectUnlist
<1>9. ASSUME NEW h \in Handlers, NEW p \in Projects, NEW t \in Tenants, CreateProjectCheck(h, p, t)
      PROVE  TenantsTypeOK'
  <2>1. GetUsage(t) \in UsageRecords /\ GetUsage(t).record \in Nat
    BY GetUsageType DEF UsageRecords
  <2>2. usage' \in [Tenants -> UsageRecords \union {None}] /\ made' \in Nat
    BY <1>9, <2>1, PutUsageType DEF CreateProjectCheck
  <2>3. [op |-> "create_project", project |-> p, tenant |-> t, record |-> GetUsage(t).record] \in Calls
    BY <2>1 DEF Calls
  <2>4. call' \in [Handlers -> Calls \union {None}]
    BY <1>9, <2>3, EnterType DEF CreateProjectCheck
  <2>5. disturbed' \subseteq Projects
    BY <1>9 DEF TenantsTypeOK, CreateProjectCheck
  <2> QED
    BY <1>9, <2>2, <2>4, <2>5 DEF TenantsTypeOK, CreateProjectCheck
<1>10. ASSUME NEW h \in Handlers, NEW p \in Projects, NEW t \in Tenants, DeleteProjectPop(h, p, t)
       PROVE  TenantsTypeOK'
  <2>1. owner[p] \in Tenants
    BY <1>10 DEF TenantsTypeOK, DeleteProjectPop
  <2>2. [op |-> "delete_project", project |-> p, tenant |-> owner[p]] \in Calls
    BY <2>1 DEF Calls
  <2>3. call' \in [Handlers -> Calls \union {None}]
    BY <1>10, <2>2, EnterType DEF DeleteProjectPop
  <2> QED
    BY <1>10, <2>3 DEF TenantsTypeOK, DeleteProjectPop, Overlap
<1>11. ASSUME NEW r \in Runs, NEW t \in Tenants, CheckRunAllowed(r, t) PROVE TenantsTypeOK'
  <2>1. GetUsage(t) \in UsageRecords /\ GetUsage(t).record \in Nat
    BY GetUsageType DEF UsageRecords
  <2>2. usage' \in [Tenants -> UsageRecords \union {None}] /\ made' \in Nat
    BY <1>11, <2>1, PutUsageType DEF CheckRunAllowed
  <2>3. [at |-> "checked", tenant |-> t, stale |-> FALSE, record |-> GetUsage(t).record, day |-> today]
           \in ClientRuns
    BY <2>1 DEF ClientRuns, TenantsTypeOK
  <2> QED
    BY <1>11, <2>2, <2>3 DEF TenantsTypeOK, CheckRunAllowed
<1>12. ASSUME NEW r \in Runs, RecordRunStart(r) PROVE TenantsTypeOK'
  <2> DEFINE t == run[r].tenant
             u == GetUsage(t)
  <2>1. run[r] \in ClientRuns /\ t \in Tenants
    BY <1>12 DEF RecordRunStart, TenantsTypeOK, ClientRuns
  <2>2. u \in UsageRecords /\ u.record \in Nat /\ u.runsToday + 1 \in Nat /\ u.concurrent + 1 \in Nat
    BY <2>1, GetUsageType DEF UsageRecords
  <2>3. PutUsage(t, [u EXCEPT !.runsToday = u.runsToday + 1, !.concurrent = u.concurrent + 1])
    BY <1>12 DEF RecordRunStart
  <2>4. [u EXCEPT !.runsToday = u.runsToday + 1, !.concurrent = u.concurrent + 1] \in UsageRecords
    <3>1. PICK n \in Nat : n = u.runsToday + 1
      BY <2>2
    <3>2. PICK c \in Nat : c = u.concurrent + 1
      BY <2>2
    <3>3. PICK w \in UsageRecords : w = u
      BY <2>2
    <3>4. [w EXCEPT !.runsToday = n, !.concurrent = c] \in UsageRecords
      BY DEF UsageRecords
    <3> QED
      BY <3>1, <3>2, <3>3, <3>4
  <2>5. usage' \in [Tenants -> UsageRecords \union {None}] /\ made' \in Nat
    BY <2>1, <2>3, <2>4, PutUsageType
  <2>6. ASSUME NEW s \in Runs PROVE run'[s] \in ClientRuns \union {None}
    <3>1. CASE s = r
      <4>1. run'[s] = [run[r] EXCEPT !.at = "running", !.record = u.record, !.day = today]
        BY <1>12, <3>1 DEF RecordRunStart
      <4> HIDE DEF u, t
      <4>2. run'[s] \in ClientRuns
        BY <2>1, <2>2, <4>1 DEF ClientRuns, TenantsTypeOK
      <4> QED
        BY <4>2
    <3>2. CASE s # r /\ run[s] # None /\ run[s].at = "checked" /\ run[s].tenant = t
      <4>1. run'[s] = [run[s] EXCEPT !.stale = TRUE] /\ run[s] \in ClientRuns
        BY <1>12, <3>2 DEF RecordRunStart, TenantsTypeOK
      <4>2. run'[s] \in ClientRuns
        BY <4>1 DEF ClientRuns
      <4> QED
        BY <4>2
    <3>3. CASE s # r /\ ~(run[s] # None /\ run[s].at = "checked" /\ run[s].tenant = t)
      <4>1. run'[s] = run[s]
        BY <1>12, <3>3 DEF RecordRunStart
      <4> QED
        BY <4>1 DEF TenantsTypeOK
    <3> QED
      BY <3>1, <3>2, <3>3
  <2> QED
    BY <1>12, <2>5, <2>6 DEF TenantsTypeOK, RecordRunStart
<1>13. ASSUME NEW r \in Runs, RecordRunEnd(r) PROVE TenantsTypeOK'
  <2> DEFINE t == run[r].tenant
             u == GetUsage(t)
  <2>1. run[r] \in ClientRuns /\ t \in Tenants
    BY <1>13 DEF RecordRunEnd, TenantsTypeOK, ClientRuns
  <2>2. u \in UsageRecords /\ u.concurrent \in Nat
    BY <2>1, GetUsageType DEF UsageRecords
  <2>3. PICK c \in Nat, b \in BOOLEAN : PutUsage(t, [u EXCEPT !.concurrent = c, !.crossed = b])
    <3>1. /\ (IF u.concurrent > 0 THEN u.concurrent - 1 ELSE 0) \in Nat
          /\ (u.crossed \/ u.record # run[r].record) \in BOOLEAN
      BY <2>2
    <3>2. PutUsage(t, [u EXCEPT !.concurrent = IF u.concurrent > 0 THEN u.concurrent - 1 ELSE 0,
                                !.crossed = u.crossed \/ u.record # run[r].record])
      BY <1>13 DEF RecordRunEnd
    <3> QED
      BY <3>1, <3>2
  <2>4. [u EXCEPT !.concurrent = c, !.crossed = b] \in UsageRecords
    BY <2>2 DEF UsageRecords
  <2>5. usage' \in [Tenants -> UsageRecords \union {None}] /\ made' \in Nat
    BY <2>1, <2>3, <2>4, PutUsageType
  <2>6. [run[r] EXCEPT !.at = "ended"] \in ClientRuns
    BY <2>1 DEF ClientRuns
  <2>7. run' \in [Runs -> ClientRuns \union {None}]
    BY <1>13, <2>6 DEF TenantsTypeOK, RecordRunEnd
  <2> QED
    BY <1>13, <2>5, <2>7 DEF TenantsTypeOK, RecordRunEnd
<1>14. CASE NextDay
  BY <1>1, <1>14 DEF TenantsTypeOK, NextDay
<1>15. CASE UNCHANGED tenantVars
  BY <1>15 DEF TenantsTypeOK, tenantVars
<1> QED
  BY <1>2, <1>3, <1>4, <1>5, <1>6, <1>7, <1>8, <1>9, <1>10, <1>11, <1>12, <1>13, <1>14, <1>15
     DEF TenantsNext, TenantMethods, ProjectMethods, RunMethods

\* Steps of other methods leave what a thread touches.
LEMMA TouchedSame ==
    ASSUME NEW g \in Handlers, call'[g] = call[g]
    PROVE  Touched(g)' = Touched(g)
BY DEF Touched

LEMMA CreateTenantStoreKeeps ==
    ASSUME TenantsTypeOK, ProjectInv, NEW h \in Handlers, CreateTenantStore(h)
    PROVE  ProjectInv'
<1> DEFINE t == call[h].tenant
<1>1. /\ t \in Tenants /\ call[h] # None /\ call[h].op = "create_tenant"
      /\ call'[h] = None /\ \A g \in Handlers : g # h => call'[g] = call[g]
  BY CallFields, LeaveType DEF CreateTenantStore, Idle
<1>2. \A g \in Handlers : Touched(g)' = Touched(g)
  <2>1. Touched(h) = {} /\ Touched(h)' = {}
    BY <1>1 DEF Touched
  <2> QED
    BY <1>1, <2>1, TouchedSame
<1>3. ASSUME NEW p \in Projects, p \notin disturbed'
      PROVE  ProjectOK(p)'
  <2>1. ProjectOK(p) /\ owner[p] # t /\ owner'[p] = owner[p] /\ p \notin Arriving(t)
    BY <1>3 DEF ProjectInv, CreateTenantStore
  <2>2. \A u \in Tenants : listed'[u][p] = IF u = t THEN 0 ELSE listed[u][p]
    BY <1>1 DEF CreateTenantStore, TenantsTypeOK, NoProjects
  <2>3. \A u \in Tenants : listed[u][p] \in Nat
    BY DEF TenantsTypeOK
  <2>4. ASSUME NEW g \in Handlers, p \in Touched(g)'
        PROVE  Underway(g, p)'
    <3>1. p \in Touched(g) /\ Underway(g, p) /\ call'[g] = call[g]
      BY <1>1, <1>2, <2>1, <2>4 DEF ProjectOK, Touched
    <3> QED
      BY <2>1, <2>2, <2>3, <3>1 DEF Underway
  <2>5. (\A g \in Handlers : p \notin Touched(g)') =>
           \A u \in Tenants : listed'[u][p] = IF owner'[p] = u THEN 1 ELSE 0
    BY <1>2, <2>1, <2>2 DEF ProjectOK
  <2> QED
    BY <1>2, <2>1, <2>4, <2>5 DEF ProjectOK
<1> QED
  BY <1>3 DEF ProjectInv

LEMMA DeleteTenantUnlistKeeps ==
    ASSUME TenantsTypeOK, ProjectInv, NEW h \in Handlers, NEW t \in Tenants, DeleteTenantUnlist(h, t)
    PROVE  ProjectInv'
<1>1. /\ call[h] = None /\ \A g \in Handlers : g # h => call'[g] = call[g]
      /\ call'[h] = [op |-> "delete_tenant", tenant |-> t, projects |-> Elements(listed[t])]
  BY DEF DeleteTenantUnlist, Idle, Enter, TenantsTypeOK
<1>2. Touched(h) = {} /\ Touched(h)' = Elements(listed[t])
  <2>1. Calls = Calls /\ [op |-> "delete_tenant", tenant |-> t, projects |-> Elements(listed[t])] \in Calls
    BY DEF Calls, Elements
  <2>2. call'[h] # None
    BY <1>1, <2>1, NoneAssumption
  <2> QED
    BY <1>1, <2>2 DEF Touched
<1>3. \A g \in Handlers : g # h => Touched(g)' = Touched(g)
  BY <1>1, TouchedSame
<1>4. ASSUME NEW p \in Projects, p \notin disturbed'
      PROVE  ProjectOK(p)'
  <2>1. ProjectOK(p) /\ owner'[p] = owner[p]
    BY <1>4 DEF ProjectInv, DeleteTenantUnlist, Overlap
  <2>2. \A u \in Tenants : listed'[u][p] = IF u = t THEN 0 ELSE listed[u][p]
    BY DEF DeleteTenantUnlist, TenantsTypeOK, NoProjects
  <2>3. /\ \A u \in Tenants : listed[u][p] \in Nat
        /\ p \in Elements(listed[t]) <=> listed[t][p] > 0
    BY DEF TenantsTypeOK, Elements
  <2>4. CASE p \in Elements(listed[t])
    <3>1. \A g \in Handlers : p \notin Touched(g)
      BY <1>4, <2>4 DEF DeleteTenantUnlist, Overlap
    <3>2. \A u \in Tenants : listed[u][p] = IF owner[p] = u THEN 1 ELSE 0
      BY <2>1, <3>1 DEF ProjectOK
    <3>3. owner[p] = t /\ \A u \in Tenants : listed'[u][p] = 0
      BY <2>2, <2>3, <2>4, <3>2
    <3>4. Underway(h, p)'
      BY <1>1, <2>1, <3>3 DEF Underway
    <3>5. \A g \in Handlers : p \in Touched(g)' <=> g = h
      BY <1>2, <1>3, <2>4, <3>1
    <3> QED
      BY <3>4, <3>5 DEF ProjectOK
  <2>5. CASE p \notin Elements(listed[t])
    <3>1. \A u \in Tenants : listed'[u][p] = listed[u][p]
      BY <2>2, <2>3, <2>5
    <3>2. \A g \in Handlers : /\ p \in Touched(g)' => p \in Touched(g) /\ call'[g] = call[g]
                              /\ p \in Touched(g) => p \in Touched(g)'
      BY <1>1, <1>2, <1>3, <2>5
    <3> QED
      BY <2>1, <3>1, <3>2, ProjectUntouched
  <2> QED
    BY <2>4, <2>5
<1> QED
  BY <1>4 DEF ProjectInv

LEMMA DeleteTenantDropKeeps ==
    ASSUME TenantsTypeOK, ProjectInv, NEW h \in Handlers, DeleteTenantDrop(h)
    PROVE  ProjectInv'
<1>1. /\ call[h] # None /\ call[h].op = "delete_tenant"
      /\ call'[h] = None /\ \A g \in Handlers : g # h => call'[g] = call[g]
  BY LeaveType DEF DeleteTenantDrop, Idle
<1>2. Touched(h) = call[h].projects /\ Touched(h)' = {}
  BY <1>1 DEF Touched
<1>3. \A g \in Handlers : g # h => Touched(g)' = Touched(g)
  BY <1>1, TouchedSame
<1>4. ASSUME NEW p \in Projects, p \notin disturbed'
      PROVE  ProjectOK(p)'
  <2>1. ProjectOK(p) /\ owner'[p] = IF p \in call[h].projects THEN None ELSE owner[p]
    BY <1>4 DEF ProjectInv, DeleteTenantDrop
  <2>2. \A u \in Tenants : listed'[u][p] = listed[u][p] /\ u # None
    BY NoneAssumption DEF DeleteTenantDrop
  <2>3. CASE p \in call[h].projects
    <3>1. \A u \in Tenants : listed'[u][p] = 0
      BY <1>1, <1>2, <2>1, <2>2, <2>3 DEF ProjectOK, Underway
    <3>2. \A g \in Handlers : p \notin Touched(g)'
      BY <1>2, <1>3, <2>1, <2>3 DEF ProjectOK
    <3> QED
      BY <2>1, <2>2, <2>3, <3>1, <3>2 DEF ProjectOK
  <2>4. CASE p \notin call[h].projects
    <3>1. \A g \in Handlers : /\ p \in Touched(g)' => p \in Touched(g) /\ call'[g] = call[g]
                              /\ p \in Touched(g) => p \in Touched(g)'
      BY <1>1, <1>2, <1>3, <2>4
    <3> QED
      BY <2>1, <2>2, <2>4, <3>1, ProjectUntouched
  <2> QED
    BY <2>3, <2>4
<1> QED
  BY <1>4 DEF ProjectInv

LEMMA CreateProjectCheckKeeps ==
    ASSUME TenantsTypeOK, ProjectInv, NEW h \in Handlers, NEW q \in Projects, NEW t \in Tenants,
           CreateProjectCheck(h, q, t)
    PROVE  ProjectInv'
<1>1. /\ call[h] = None /\ \A g \in Handlers : g # h => call'[g] = call[g]
      /\ call'[h] = [op |-> "create_project", project |-> q, tenant |-> t, record |-> GetUsage(t).record]
      /\ UNCHANGED <<owner, listed>>
  BY DEF CreateProjectCheck, Idle, Enter, TenantsTypeOK
<1>2. Touched(h) = {} /\ Touched(h)' = {q}
  <2>1. GetUsage(t).record \in Nat
    BY GetUsageType DEF UsageRecords
  <2>2. [op |-> "create_project", project |-> q, tenant |-> t, record |-> GetUsage(t).record] \in Calls
    BY <2>1 DEF Calls
  <2>3. call'[h] # None
    BY <1>1, <2>2, NoneAssumption
  <2> QED
    BY <1>1, <2>3 DEF Touched
<1>3. \A g \in Handlers : g # h => Touched(g)' = Touched(g)
  BY <1>1, TouchedSame
<1>4. ASSUME NEW p \in Projects, p \notin disturbed'
      PROVE  ProjectOK(p)'
  <2>1. ProjectOK(p)
    BY <1>4 DEF ProjectInv, CreateProjectCheck
  <2>2. CASE p = q
    <3>1. \A g \in Handlers : p \notin Touched(g)
      BY <1>2, <1>4, <2>2 DEF CreateProjectCheck, Idle, Touched
    <3>2. owner[p] = None /\ \A u \in Tenants : u # None
      BY <2>2, NoneAssumption DEF CreateProjectCheck
    <3>3. \A u \in Tenants : listed[u][p] = 0
      BY <2>1, <3>1, <3>2 DEF ProjectOK
    <3>4. Underway(h, p)'
      BY <1>1, <3>2, <3>3 DEF Underway
    <3>5. \A g \in Handlers : p \in Touched(g)' <=> g = h
      BY <1>2, <1>3, <2>2, <3>1
    <3> QED
      BY <3>4, <3>5 DEF ProjectOK
  <2>3. CASE p # q
    <3>1. \A g \in Handlers : /\ p \in Touched(g)' => p \in Touched(g) /\ call'[g] = call[g]
                              /\ p \in Touched(g) => p \in Touched(g)'
      BY <1>1, <1>2, <1>3, <2>3
    <3> QED
      BY <1>1, <2>1, <3>1, ProjectUntouched
  <2> QED
    BY <2>2, <2>3
<1> QED
  BY <1>4 DEF ProjectInv

LEMMA CreateProjectStoreKeeps ==
    ASSUME TenantsTypeOK, ProjectInv, NEW h \in Handlers, CreateProjectStore(h)
    PROVE  ProjectInv'
<1> DEFINE t == call[h].tenant
           q == call[h].project
<1>1. /\ call[h] # None /\ call[h].op = "create_project" /\ t \in Tenants /\ q \in Projects
      /\ call'[h] = None /\ \A g \in Handlers : g # h => call'[g] = call[g]
  BY CallFields, LeaveType DEF CreateProjectStore, Idle
<1>2. Touched(h) = {q} /\ Touched(h)' = {}
  BY <1>1 DEF Touched
<1>3. \A g \in Handlers : g # h => Touched(g)' = Touched(g)
  BY <1>1, TouchedSame
<1>4. ASSUME NEW p \in Projects, p \notin disturbed'
      PROVE  ProjectOK(p)'
  <2>1. ProjectOK(p)
    BY <1>4 DEF ProjectInv, CreateProjectStore
  <2>2. CASE p = q
    <3>1. owner'[p] = t /\ \A u \in Tenants : listed'[u][p] = IF u = t THEN listed[u][p] + 1 ELSE listed[u][p]
      BY <1>1, <2>2 DEF CreateProjectStore, TenantsTypeOK
    <3>2. \A u \in Tenants : listed[u][p] = 0
      BY <1>1, <1>2, <2>1, <2>2 DEF ProjectOK, Underway
    <3>3. \A g \in Handlers : p \notin Touched(g)'
      BY <1>2, <1>3, <2>1, <2>2 DEF ProjectOK
    <3> QED
      BY <3>1, <3>2, <3>3 DEF ProjectOK
  <2>3. CASE p # q
    <3>1. owner'[p] = owner[p] /\ \A u \in Tenants : listed'[u][p] = listed[u][p]
      BY <1>1, <2>3 DEF CreateProjectStore, TenantsTypeOK
    <3>2. \A g \in Handlers : /\ p \in Touched(g)' => p \in Touched(g) /\ call'[g] = call[g]
                              /\ p \in Touched(g) => p \in Touched(g)'
      BY <1>1, <1>2, <1>3, <2>3
    <3> QED
      BY <2>1, <3>1, <3>2, ProjectUntouched
  <2> QED
    BY <2>2, <2>3
<1> QED
  BY <1>4 DEF ProjectInv

LEMMA DeleteProjectPopKeeps ==
    ASSUME TenantsTypeOK, ProjectInv, NEW h \in Handlers, NEW q \in Projects, NEW t \in Tenants,
           DeleteProjectPop(h, q, t)
    PROVE  ProjectInv'
<1>1. /\ call[h] = None /\ \A g \in Handlers : g # h => call'[g] = call[g]
      /\ call'[h] = [op |-> "delete_project", project |-> q, tenant |-> owner[q]]
      /\ owner[q] \in Tenants /\ UNCHANGED listed
  BY DEF DeleteProjectPop, Idle, Enter, TenantsTypeOK
<1>2. Touched(h) = {} /\ Touched(h)' = {q}
  <2>1. [op |-> "delete_project", project |-> q, tenant |-> owner[q]] \in Calls
    BY <1>1 DEF Calls
  <2>2. call'[h] # None
    BY <1>1, <2>1, NoneAssumption
  <2> QED
    BY <1>1, <2>2 DEF Touched
<1>3. \A g \in Handlers : g # h => Touched(g)' = Touched(g)
  BY <1>1, TouchedSame
<1>4. ASSUME NEW p \in Projects, p \notin disturbed'
      PROVE  ProjectOK(p)'
  <2>1. ProjectOK(p)
    BY <1>4 DEF ProjectInv, DeleteProjectPop, Overlap
  <2>2. CASE p = q
    <3>1. \A g \in Handlers : p \notin Touched(g)
      BY <1>4, <2>2 DEF DeleteProjectPop, Overlap
    <3>2. \A u \in Tenants : listed[u][p] = IF owner[p] = u THEN 1 ELSE 0
      BY <2>1, <3>1 DEF ProjectOK
    <3>3. owner'[p] = None
      BY <2>2 DEF DeleteProjectPop, TenantsTypeOK
    <3>4. Underway(h, p)'
      BY <1>1, <2>2, <3>2, <3>3 DEF Underway
    <3>5. \A g \in Handlers : p \in Touched(g)' <=> g = h
      BY <1>2, <1>3, <2>2, <3>1
    <3> QED
      BY <3>4, <3>5 DEF ProjectOK
  <2>3. CASE p # q
    <3>1. owner'[p] = owner[p]
      BY <2>3 DEF DeleteProjectPop, TenantsTypeOK
    <3>2. \A g \in Handlers : /\ p \in Touched(g)' => p \in Touched(g) /\ call'[g] = call[g]
                              /\ p \in Touched(g) => p \in Touched(g)'
      BY <1>1, <1>2, <1>3, <2>3
    <3> QED
      BY <1>1, <2>1, <3>1, <3>2, ProjectUntouched
  <2> QED
    BY <2>2, <2>3
<1> QED
  BY <1>4 DEF ProjectInv

LEMMA DeleteProjectUnlistKeeps ==
    ASSUME TenantsTypeOK, ProjectInv, NEW h \in Handlers, DeleteProjectUnlist(h)
    PROVE  ProjectInv'
<1> DEFINE t == call[h].tenant
           q == call[h].project
<1>1. /\ call[h] # None /\ call[h].op = "delete_project" /\ t \in Tenants /\ q \in Projects
      /\ call'[h] = None /\ \A g \in Handlers : g # h => call'[g] = call[g]
      /\ UNCHANGED owner
  BY CallFields, LeaveType DEF DeleteProjectUnlist, Idle
<1>2. Touched(h) = {q} /\ Touched(h)' = {}
  BY <1>1 DEF Touched
<1>3. \A g \in Handlers : g # h => Touched(g)' = Touched(g)
  BY <1>1, TouchedSame
<1>4. ASSUME NEW p \in Projects, p \notin disturbed'
      PROVE  ProjectOK(p)'
  <2>1. ProjectOK(p)
    BY <1>4 DEF ProjectInv, DeleteProjectUnlist
  <2>2. CASE p = q
    <3>1. \A u \in Tenants : listed'[u][p] = IF u = t THEN 0 ELSE listed[u][p]
      BY <1>1, <2>2 DEF DeleteProjectUnlist, TenantsTypeOK, Without
    <3>2. owner[p] = None /\ \A u \in Tenants : listed[u][p] <= IF u = t THEN 1 ELSE 0
      BY <1>1, <1>2, <2>1, <2>2 DEF ProjectOK, Underway
    <3>3. \A u \in Tenants : u # None /\ listed[u][p] \in Nat
      BY NoneAssumption DEF TenantsTypeOK
    <3>4. \A u \in Tenants : listed'[u][p] = 0
      BY <3>1, <3>2, <3>3
    <3>5. \A g \in Handlers : p \notin Touched(g)'
      BY <1>2, <1>3, <2>1, <2>2 DEF ProjectOK
    <3> QED
      BY <1>1, <3>2, <3>3, <3>4, <3>5 DEF ProjectOK
  <2>3. CASE p # q
    <3>1. \A u \in Tenants : listed'[u][p] = listed[u][p]
      BY <1>1, <2>3 DEF DeleteProjectUnlist, TenantsTypeOK, Without
    <3>2. \A g \in Handlers : /\ p \in Touched(g)' => p \in Touched(g) /\ call'[g] = call[g]
                              /\ p \in Touched(g) => p \in Touched(g)'
      BY <1>1, <1>2, <1>3, <2>3
    <3> QED
      BY <1>1, <2>1, <3>1, <3>2, ProjectUntouched
  <2> QED
    BY <2>2, <2>3
<1> QED
  BY <1>4 DEF ProjectInv

LEMMA ProjectStep == TenantsTypeOK /\ ProjectInv /\ [TenantsNext]_tenantVars => ProjectInv'
<1> SUFFICES ASSUME TenantsTypeOK, ProjectInv, [TenantsNext]_tenantVars PROVE ProjectInv'
  OBVIOUS
<1>1. ASSUME NEW h \in Handlers, NEW t \in Tenants, CreateTenantCheck(h, t) PROVE ProjectInv'
  <2>1. /\ call[h] = None /\ \A g \in Handlers : g # h => call'[g] = call[g]
        /\ call'[h] = [op |-> "create_tenant", tenant |-> t]
        /\ UNCHANGED <<owner, listed, disturbed>>
    BY <1>1 DEF CreateTenantCheck, Idle, Enter, TenantsTypeOK
  <2>2. Touched(h) = {} /\ Touched(h)' = {}
    BY <2>1 DEF Touched
  <2>3. \A p \in Projects : \A g \in Handlers : /\ p \in Touched(g)' => p \in Touched(g) /\ call'[g] = call[g]
                                                /\ p \in Touched(g) => p \in Touched(g)'
    BY <2>1, <2>2, TouchedSame
  <2> QED
    BY <2>1, <2>3, ProjectUntouched DEF ProjectInv
<1>2. ASSUME UNCHANGED <<owner, listed, call, disturbed>> PROVE ProjectInv'
  <2>1. \A g \in Handlers : Touched(g)' = Touched(g)
    BY <1>2 DEF Touched
  <2> QED
    BY <1>2, <2>1, ProjectUntouched DEF ProjectInv
<1>3. ASSUME NEW h \in Handlers, NEW t \in Tenants, SuspendTenant(h, t) \/ ReactivateTenant(h, t)
      PROVE  ProjectInv'
  BY <1>2, <1>3 DEF SuspendTenant, ReactivateTenant, SetStatus
<1>4. ASSUME NEW r \in Runs, RunMethods(r) PROVE ProjectInv'
  BY <1>2, <1>4 DEF RunMethods, CheckRunAllowed, RecordRunStart, RecordRunEnd
<1>5. CASE NextDay \/ UNCHANGED tenantVars
  BY <1>2, <1>5 DEF NextDay, tenantVars
<1> QED
  BY <1>1, <1>3, <1>4, <1>5, CreateTenantStoreKeeps, DeleteTenantUnlistKeeps, DeleteTenantDropKeeps,
     CreateProjectCheckKeeps, CreateProjectStoreKeeps, DeleteProjectPopKeeps, DeleteProjectUnlistKeeps
     DEF TenantsNext, TenantMethods, ProjectMethods

\* However the tenant and project handlers overlap (enterprise_routes.py over TenantManager,
\* which takes no lock), a project no two of them worked on at once is listed once by its
\* owner and by no other tenant.
THEOREM ProjectsAreIsolated == TenantsSpec => []ProjectsIsolated
<1>1. TenantsInit => ProjectInv
  <2>1. ASSUME TenantsInit, NEW p \in Projects PROVE ProjectOK(p)
    <3>1. \A h \in Handlers : Touched(h) = {}
      BY <2>1 DEF TenantsInit, Touched
    <3>2. owner[p] = None /\ \A t \in Tenants : listed[t][p] = 0 /\ t # None
      BY <2>1, NoneAssumption DEF TenantsInit, NoProjects
    <3> QED
      BY <3>1, <3>2 DEF ProjectOK
  <2> QED
    BY <2>1 DEF ProjectInv
<1>2. TenantsTypeOK /\ ProjectInv => ProjectsIsolated
  <2> SUFFICES ASSUME TenantsTypeOK, ProjectInv, NEW p \in Projects \ disturbed,
                      \A h \in Handlers : p \notin Touched(h), NEW t \in Tenants
               PROVE  /\ listed[t][p] = IF owner[p] = t THEN 1 ELSE 0
                      /\ p \in ListProjects(t) <=> owner[p] = t
    BY DEF ProjectsIsolated
  <2>1. listed[t][p] = IF owner[p] = t THEN 1 ELSE 0
    BY DEF ProjectInv, ProjectOK
  <2>2. t # None
    BY NoneAssumption
  <2> QED
    BY <2>1, <2>2 DEF ListProjects, Elements
<1> QED
  BY <1>1, <1>2, TypeInitially, TypeStep, ProjectStep, PTL DEF TenantsSpec

-----------------------------------------------------------------------------
(* Quotas.  The usage records U (M of them made so far), the client runs R *)
(* and the day D agree: every record but a crossed one counts its own runs *)
(* exactly, and a run checked a moment ago still finds room.               *)

StartedOn(R, n) == {r \in Runs : R[r] # None /\ R[r].at \in {"running", "ended"} /\ R[r].record = n}

InFlight(R, n) == {r \in StartedOn(R, n) : R[r].at = "running"}

Daily(R, n, d) == {r \in StartedOn(R, n) : R[r].day = d}

Timely(R, rs) == {r \in rs : ~R[r].stale}

Balanced(R, u) ==
    /\ u.concurrent = Cardinality(InFlight(R, u.record))
    /\ u.runsToday = Cardinality(Daily(R, u.record, u.day))
    /\ MaxConcurrentRuns >= 0 => Cardinality(Timely(R, InFlight(R, u.record))) <= MaxConcurrentRuns
    /\ MaxRunsPerDay >= 0 => Cardinality(Timely(R, Daily(R, u.record, u.day))) <= MaxRunsPerDay

HasRoom(concurrent, runsToday) ==
    WithinQuota(MaxConcurrentRuns, concurrent) /\ WithinQuota(MaxRunsPerDay, runsToday)

\* A run checked on tenant t since the last run started there.
Awaiting(R, r, t) == R[r] # None /\ R[r].at = "checked" /\ ~R[r].stale /\ R[r].tenant = t

\* Records are numbered, no two tenants share one, and a run is on one of its tenant's.
Numbered(U, M, R, D) ==
    /\ \A t \in Tenants : U[t] # None => U[t].record <= M /\ U[t].day <= D
    /\ \A s, t \in Tenants : U[s] # None /\ U[t] # None /\ U[s].record = U[t].record => s = t
    /\ \A r \in Runs : R[r] # None => R[r].record <= M /\ R[r].day <= D
    /\ \A r \in Runs, t \in Tenants : R[r] # None /\ U[t] # None /\ U[t].record = R[r].record =>
           R[r].tenant = t /\ R[r].day <= U[t].day

Books(U, R) == \A t \in Tenants : U[t] # None /\ ~U[t].crossed => Balanced(R, U[t])

Passes(U, R) == \A r \in Runs, t \in Tenants : Awaiting(R, r, t) =>
    /\ HasRoom(0, 0)
    /\ U[t] # None /\ ~U[t].crossed => HasRoom(U[t].concurrent, U[t].runsToday)

Tables(U, M, R, D) ==
    /\ U \in [Tenants -> UsageRecords \union {None}] /\ R \in [Runs -> ClientRuns \union {None}]
    /\ M \in Nat /\ D \in Nat

QuotaInv(U, M, R, D) == Tables(U, M, R, D) /\ Numbered(U, M, R, D) /\ Books(U, R) /\ Passes(U, R)

\* The runs a record counts are finitely many, the timely ones no more than all.
LEMMA RunsCounted ==
    ASSUME NEW rs, rs \subseteq Runs, NEW R
    PROVE  /\ IsFiniteSet(rs) /\ Cardinality(rs) \in Nat
           /\ IsFiniteSet(Timely(R, rs)) /\ Cardinality(Timely(R, rs)) \in Nat
           /\ Cardinality(Timely(R, rs)) <= Cardinality(rs)
<1>1. IsFiniteSet(rs)
  BY RunsAssumption, FS_Subset
<1>2. Timely(R, rs) \subseteq rs
  BY DEF Timely
<1> QED
  BY <1>1, <1>2, FS_Subset, FS_CardinalityType

\* A record no run is on.
LEMMA NoRuns ==
    ASSUME NEW R, NEW u \in UsageRecords, u.runsToday = 0, Daily(R, u.record, u.day) = {}
    PROVE  /\ u.runsToday = Cardinality(Daily(R, u.record, u.day))
           /\ MaxRunsPerDay >= 0 => Cardinality(Timely(R, Daily(R, u.record, u.day))) <= MaxRunsPerDay
<1>1. Timely(R, {}) = {} /\ Cardinality({}) = 0
  BY FS_EmptySet DEF Timely
<1> QED
  BY <1>1, QuotaAssumption

\* One tenant's record disappears, keeps its counts, turns to the new day or is a new one.
LEMMA RecordReplaced ==
    ASSUME NEW U, NEW M, NEW R, NEW D, QuotaInv(U, M, R, D), NEW t \in Tenants,
           NEW V, NEW N, NEW E, Tables(V, N, R, E), M <= N, D <= E,
           \A s \in Tenants : s # t => V[s] = U[s],
           \/ V[t] = None
           \/ /\ U[t] # None /\ V[t] # None
              /\ V[t].record = U[t].record /\ V[t].concurrent = U[t].concurrent
              /\ V[t].crossed = U[t].crossed
              /\ \/ V[t].day = U[t].day /\ V[t].runsToday = U[t].runsToday
                 \/ U[t].day # D /\ V[t].day = D /\ V[t].runsToday = 0
           \/ /\ V[t] # None /\ V[t].record = M + 1 /\ V[t].day = D /\ V[t].runsToday = 0
              /\ V[t].concurrent = 0 /\ N = M + 1
    PROVE  QuotaInv(V, N, R, E)
<1>1. Tables(U, M, R, D) /\ Numbered(U, M, R, D) /\ Books(U, R) /\ Passes(U, R)
  BY DEF QuotaInv
<1>2. M \in Nat /\ N \in Nat /\ D \in Nat /\ E \in Nat
  BY <1>1 DEF Tables
<1>3. \A s \in Tenants : /\ U[s] # None => U[s] \in UsageRecords /\ U[s].record \in Nat /\ U[s].day \in Nat
                         /\ V[s] # None => V[s] \in UsageRecords /\ V[s].record \in Nat /\ V[s].day \in Nat
  BY <1>1 DEF Tables, UsageRecords
<1>4. \A r \in Runs : R[r] # None => R[r].record \in Nat /\ R[r].day \in Nat
  BY <1>1 DEF Tables, ClientRuns
<1>5. Numbered(V, N, R, E)
  BY <1>1, <1>2, <1>3, <1>4 DEF Numbered
<1>6. ASSUME V[t] # None, ~V[t].crossed
      PROVE  /\ Balanced(R, V[t])
             /\ \A r \in Runs : Awaiting(R, r, t) => HasRoom(V[t].concurrent, V[t].runsToday)
  <2>1. CASE /\ U[t] # None /\ V[t].record = U[t].record /\ V[t].concurrent = U[t].concurrent
             /\ V[t].crossed = U[t].crossed /\ V[t].day = U[t].day /\ V[t].runsToday = U[t].runsToday
    BY <1>1, <1>6, <2>1 DEF Books, Passes, Balanced
  <2>2. CASE /\ U[t] # None /\ V[t].record = U[t].record /\ V[t].concurrent = U[t].concurrent
             /\ V[t].crossed = U[t].crossed /\ U[t].day # D /\ V[t].day = D /\ V[t].runsToday = 0
    <3>1. Balanced(R, U[t]) /\ U[t].day < D
      BY <1>1, <1>2, <1>3, <1>6, <2>2 DEF Books, Numbered
    <3>2. Daily(R, V[t].record, V[t].day) = {}
      <4>1. ASSUME NEW r \in Runs, R[r] # None, R[r].record = U[t].record PROVE R[r].day # D
        BY <1>1, <1>2, <1>3, <1>4, <2>2, <3>1, <4>1 DEF Numbered
      <4> QED
        BY <2>2, <4>1 DEF Daily, StartedOn
    <3>3. Balanced(R, V[t])
      BY <1>3, <1>6, <2>2, <3>1, <3>2, NoRuns DEF Balanced
    <3>4. \A r \in Runs : Awaiting(R, r, t) => HasRoom(V[t].concurrent, V[t].runsToday)
      BY <1>1, <1>6, <2>2 DEF Passes, HasRoom
    <3> QED
      BY <3>3, <3>4
  <2>3. CASE V[t].record = M + 1 /\ V[t].day = D /\ V[t].runsToday = 0 /\ V[t].concurrent = 0
    <3>1. StartedOn(R, V[t].record) = {}
      <4>1. \A r \in Runs : R[r] # None => R[r].record # M + 1
        BY <1>1, <1>2, <1>4 DEF Numbered
      <4> QED
        BY <2>3, <4>1 DEF StartedOn
    <3>2. InFlight(R, V[t].record) = {} /\ Daily(R, V[t].record, V[t].day) = {}
      BY <3>1 DEF InFlight, Daily
    <3>3. Timely(R, {}) = {} /\ Cardinality({}) = 0
      BY FS_EmptySet DEF Timely
    <3>4. Balanced(R, V[t])
      BY <1>3, <1>6, <2>3, <3>2, <3>3, NoRuns, QuotaAssumption DEF Balanced
    <3> QED
      BY <1>1, <2>3, <3>4 DEF Passes
  <2> QED
    BY <1>6, <2>1, <2>2, <2>3
<1>7. Books(V, R)
  BY <1>1, <1>6 DEF Books
<1>8. Passes(V, R)
  BY <1>1, <1>6 DEF Passes
<1> QED
  BY <1>5, <1>7, <1>8 DEF QuotaInv

\* check_run_allowed, on a record that is up to date.
ChecksOn(U, R, D, t, r, W) ==
    /\ R[r] = None
    /\ U[t] # None /\ U[t].day = D /\ HasRoom(U[t].concurrent, U[t].runsToday)
    /\ W \in [Runs -> ClientRuns \union {None}]
    /\ W[r] # None /\ W[r].at = "checked" /\ W[r].tenant = t /\ W[r].record = U[t].record /\ W[r].day = D
    /\ \A s \in Runs : s # r => W[s] = R[s]

LEMMA RunChecked ==
    ASSUME NEW U, NEW M, NEW R, NEW D, QuotaInv(U, M, R, D), NEW t \in Tenants, NEW r \in Runs,
           NEW W, ChecksOn(U, R, D, t, r, W)
    PROVE  QuotaInv(U, M, W, D)
<1> USE DEF ChecksOn
<1>1. Tables(U, M, R, D) /\ Numbered(U, M, R, D) /\ Books(U, R) /\ Passes(U, R)
  BY DEF QuotaInv
<1>2. Tables(U, M, W, D) /\ D \in Nat
  BY <1>1 DEF Tables
<1>3. Numbered(U, M, W, D)
  BY <1>1, <1>2 DEF Numbered
<1>4. \A n : StartedOn(W, n) = StartedOn(R, n)
  BY DEF StartedOn
<1>5. \A n : /\ InFlight(W, n) = InFlight(R, n)
             /\ Timely(W, InFlight(W, n)) = Timely(R, InFlight(R, n))
  BY <1>4 DEF InFlight, Timely, StartedOn
<1>6. \A n, d : /\ Daily(W, n, d) = Daily(R, n, d)
                /\ Timely(W, Daily(W, n, d)) = Timely(R, Daily(R, n, d))
  BY <1>4 DEF Daily, Timely, StartedOn
<1>7. Books(U, W)
  BY <1>1, <1>5, <1>6 DEF Books, Balanced
<1>8. HasRoom(0, 0)
  <2>1. U[t].concurrent \in Nat /\ U[t].runsToday \in Nat
    BY <1>1 DEF Tables, UsageRecords
  <2> QED
    BY <2>1, QuotaAssumption DEF HasRoom, WithinQuota
<1>9. Passes(U, W)
  <2>1. ASSUME NEW s \in Runs, NEW v \in Tenants, Awaiting(W, s, v)
        PROVE  U[v] # None /\ ~U[v].crossed => HasRoom(U[v].concurrent, U[v].runsToday)
    <3>1. CASE s = r
      BY <2>1, <3>1 DEF Awaiting
    <3>2. CASE s # r
      BY <1>1, <2>1, <3>2 DEF Passes, Awaiting
    <3> QED
      BY <3>1, <3>2
  <2> QED
    BY <1>8, <2>1 DEF Passes
<1> QED
  BY <1>2, <1>3, <1>7, <1>9 DEF QuotaInv

\* record_run_start, on a record that is up to date: the runs waiting there are stale now.
StartsOn(U, R, D, t, r, V, W) ==
    /\ R[r] # None /\ R[r].at = "checked" /\ R[r].tenant = t
    /\ U[t] # None /\ U[t].day = D
    /\ V \in [Tenants -> UsageRecords \union {None}]
    /\ \A s \in Tenants : s # t => V[s] = U[s]
    /\ V[t] # None /\ V[t].record = U[t].record /\ V[t].day = D /\ V[t].crossed = U[t].crossed
    /\ V[t].concurrent = U[t].concurrent + 1 /\ V[t].runsToday = U[t].runsToday + 1
    /\ W \in [Runs -> ClientRuns \union {None}]
    /\ W[r] # None /\ W[r].at = "running" /\ W[r].tenant = t /\ W[r].stale = R[r].stale
    /\ W[r].record = U[t].record /\ W[r].day = D
    /\ \A s \in Runs : s # r =>
           IF R[s] # None /\ R[s].at = "checked" /\ R[s].tenant = t
           THEN /\ W[s] # None /\ W[s].at = "checked" /\ W[s].tenant = t /\ W[s].stale
                /\ W[s].record = R[s].record /\ W[s].day = R[s].day
           ELSE W[s] = R[s]

LEMMA RunStarted ==
    ASSUME NEW U, NEW M, NEW R, NEW D, QuotaInv(U, M, R, D), NEW t \in Tenants, NEW r \in Runs,
           NEW V, NEW W, StartsOn(U, R, D, t, r, V, W)
    PROVE  QuotaInv(V, M, W, D)
<1> USE DEF StartsOn
<1> DEFINE n == U[t].record
<1>1. Tables(U, M, R, D) /\ Numbered(U, M, R, D) /\ Books(U, R) /\ Passes(U, R)
  BY DEF QuotaInv
<1>2. Tables(V, M, W, D) /\ D \in Nat /\ M \in Nat
  BY <1>1 DEF Tables
<1>3. U[t] \in UsageRecords /\ U[t].concurrent \in Nat /\ U[t].runsToday \in Nat
  BY <1>1 DEF Tables, UsageRecords
<1>4. \A s \in Runs : W[s] # None => \/ s = r
                                     \/ R[s] # None /\ W[s].record = R[s].record /\ W[s].day = R[s].day
                                           /\ W[s].tenant = R[s].tenant
  OBVIOUS
<1>5. Numbered(V, M, W, D)
  <2>1. \A s \in Tenants : /\ V[s] # None <=> U[s] # None
                           /\ V[s] # None => V[s].record = U[s].record /\ V[s].day = U[s].day
    OBVIOUS
  <2>2. \A s \in Runs : W[s] # None => W[s].record <= M /\ W[s].day <= D
    BY <1>1, <1>2, <1>4 DEF Numbered
  <2>3. ASSUME NEW s \in Runs, NEW v \in Tenants, W[s] # None, V[v] # None, V[v].record = W[s].record
        PROVE  W[s].tenant = v /\ W[s].day <= V[v].day
    <3>1. CASE s = r
      BY <1>1, <1>2, <2>1, <2>3, <3>1 DEF Numbered
    <3>2. CASE s # r
      BY <1>1, <1>4, <2>1, <2>3, <3>2 DEF Numbered
    <3> QED
      BY <3>1, <3>2
  <2> QED
    BY <1>1, <2>1, <2>2, <2>3 DEF Numbered
<1>6. \A s \in Runs : s # r =>
         /\ W[s] # None /\ W[s].at \in {"running", "ended"} <=> R[s] # None /\ R[s].at \in {"running", "ended"}
         /\ R[s] # None /\ R[s].at \in {"running", "ended"} => W[s] = R[s]
  OBVIOUS
<1>7. StartedOn(W, n) = StartedOn(R, n) \union {r} /\ r \notin StartedOn(R, n)
  BY <1>6 DEF StartedOn
<1>8. ASSUME NEW m, m # n PROVE StartedOn(W, m) = StartedOn(R, m) /\ r \notin StartedOn(R, m)
  BY <1>6, <1>8 DEF StartedOn
<1>9. \A m : \A s \in StartedOn(R, m) : s \in Runs /\ s # r /\ W[s] = R[s]
  BY <1>6 DEF StartedOn
<1>10. /\ InFlight(W, n) = InFlight(R, n) \union {r}
       /\ Daily(W, n, D) = Daily(R, n, D) \union {r}
       /\ r \notin InFlight(R, n) /\ r \notin Daily(R, n, D)
       /\ InFlight(R, n) \subseteq Runs /\ Daily(R, n, D) \subseteq Runs
  BY <1>7, <1>9 DEF InFlight, Daily, StartedOn
<1>11. ASSUME ~U[t].crossed PROVE Balanced(W, V[t])
  <2>1. Balanced(R, U[t])
    BY <1>11, <1>1 DEF Books
  <2>2. /\ Cardinality(InFlight(W, n)) = Cardinality(InFlight(R, n)) + 1
        /\ Cardinality(Daily(W, n, D)) = Cardinality(Daily(R, n, D)) + 1
    <3>1. IsFiniteSet(InFlight(R, n)) /\ IsFiniteSet(Daily(R, n, D))
      BY <1>10, RunsCounted
    <3>2. /\ Cardinality(InFlight(R, n) \union {r}) = Cardinality(InFlight(R, n)) + 1
          /\ Cardinality(Daily(R, n, D) \union {r}) = Cardinality(Daily(R, n, D)) + 1
      BY <1>10, <3>1, FS_AddElement, Zenon
    <3> QED
      BY <1>10, <3>2
  <2>3. V[t].concurrent = Cardinality(InFlight(W, n)) /\ V[t].runsToday = Cardinality(Daily(W, n, D))
    BY <2>1, <2>2 DEF Balanced
  <2>4. CASE R[r].stale
    <3>1. /\ Timely(W, InFlight(W, n)) = Timely(R, InFlight(R, n))
          /\ Timely(W, Daily(W, n, D)) = Timely(R, Daily(R, n, D))
      <4>1. W[r].stale
        BY <2>4
      <4>2. \A s \in InFlight(R, n) : W[s] = R[s]
        BY <1>9 DEF InFlight
      <4>3. \A s \in Daily(R, n, D) : W[s] = R[s]
        BY <1>9 DEF Daily
      <4> QED
        BY <1>10, <4>1, <4>2, <4>3 DEF Timely
    <3> QED
      BY <2>1, <2>3, <3>1 DEF Balanced
  <2>5. CASE ~R[r].stale
    <3>1. HasRoom(U[t].concurrent, U[t].runsToday)
      BY <1>1, <1>11, <2>5 DEF Passes, Awaiting
    <3>2. /\ Cardinality(Timely(W, InFlight(W, n))) <= Cardinality(InFlight(W, n))
          /\ Cardinality(Timely(W, Daily(W, n, D))) <= Cardinality(Daily(W, n, D))
          /\ Cardinality(Timely(W, InFlight(W, n))) \in Nat /\ Cardinality(Timely(W, Daily(W, n, D))) \in Nat
      BY <1>10, RunsCounted
    <3>3. /\ MaxConcurrentRuns >= 0 => U[t].concurrent + 1 <= MaxConcurrentRuns
          /\ MaxRunsPerDay >= 0 => U[t].runsToday + 1 <= MaxRunsPerDay
      BY <1>3, <3>1, QuotaAssumption DEF HasRoom, WithinQuota
    <3>4. /\ MaxConcurrentRuns >= 0 => Cardinality(Timely(W, InFlight(W, n))) <= MaxConcurrentRuns
          /\ MaxRunsPerDay >= 0 => Cardinality(Timely(W, Daily(W, n, D))) <= MaxRunsPerDay
      BY <1>3, <2>3, <3>2, <3>3, QuotaAssumption
    <3> QED
      BY <2>3, <3>4 DEF Balanced
  <2> QED
    BY <2>4, <2>5
<1>12. Books(V, W)
  <2>1. ASSUME NEW v \in Tenants, v # t, U[v] # None, ~U[v].crossed PROVE Balanced(W, U[v])
    <3>1. U[v].record # n /\ Balanced(R, U[v])
      BY <1>1, <2>1 DEF Numbered, Books
    <3> DEFINE m == U[v].record
    <3>2. StartedOn(W, m) = StartedOn(R, m)
      BY <1>8, <3>1
    <3>3. \A s \in StartedOn(R, m) : W[s] = R[s]
      BY <1>9
    <3>4. /\ InFlight(W, m) = InFlight(R, m) /\ Timely(W, InFlight(W, m)) = Timely(R, InFlight(R, m))
          /\ \A d : /\ Daily(W, m, d) = Daily(R, m, d)
                    /\ Timely(W, Daily(W, m, d)) = Timely(R, Daily(R, m, d))
      BY <3>2, <3>3 DEF InFlight, Daily, Timely
    <3> QED
      BY <3>1, <3>4 DEF Balanced
  <2> QED
    BY <1>11, <2>1 DEF Books
<1>13. Passes(V, W)
  <2>1. ASSUME NEW s \in Runs, NEW v \in Tenants, Awaiting(W, s, v)
        PROVE  v # t /\ Awaiting(R, s, v)
    BY <2>1 DEF Awaiting
  <2> QED
    BY <1>1, <2>1 DEF Passes
<1> QED
  BY <1>2, <1>5, <1>12, <1>13 DEF QuotaInv

\* record_run_end, on a record that is up to date: its own, or it is crossed from now on.
EndsOn(U, R, D, t, r, V, W) ==
    /\ R[r] # None /\ R[r].at = "running" /\ R[r].tenant = t
    /\ U[t] # None /\ U[t].day = D
    /\ V \in [Tenants -> UsageRecords \union {None}]
    /\ \A s \in Tenants : s # t => V[s] = U[s]
    /\ V[t] # None /\ V[t].record = U[t].record /\ V[t].day = D /\ V[t].runsToday = U[t].runsToday
    /\ V[t].concurrent = IF U[t].concurrent > 0 THEN U[t].concurrent - 1 ELSE 0
    /\ V[t].crossed <=> U[t].crossed \/ U[t].record # R[r].record
    /\ W \in [Runs -> ClientRuns \union {None}]
    /\ W[r] # None /\ W[r].at = "ended" /\ W[r].tenant = t /\ W[r].stale = R[r].stale
    /\ W[r].record = R[r].record /\ W[r].day = R[r].day
    /\ \A s \in Runs : s # r => W[s] = R[s]

LEMMA RunEnded ==
    ASSUME NEW U, NEW M, NEW R, NEW D, QuotaInv(U, M, R, D), NEW t \in Tenants, NEW r \in Runs,
           NEW V, NEW W, EndsOn(U, R, D, t, r, V, W)
    PROVE  QuotaInv(V, M, W, D)
<1> USE DEF EndsOn
<1> DEFINE n == U[t].record
<1>1. Tables(U, M, R, D) /\ Numbered(U, M, R, D) /\ Books(U, R) /\ Passes(U, R)
  BY DEF QuotaInv
<1>2. Tables(V, M, W, D) /\ D \in Nat /\ M \in Nat
  BY <1>1 DEF Tables
<1>3. U[t] \in UsageRecords /\ U[t].concurrent \in Nat /\ U[t].runsToday \in Nat
  BY <1>1 DEF Tables, UsageRecords
<1>4. Numbered(V, M, W, D)
  <2>1. \A s \in Runs : /\ W[s] # None <=> R[s] # None
                        /\ W[s] # None => W[s].record = R[s].record /\ W[s].day = R[s].day
                                             /\ W[s].tenant = R[s].tenant
    OBVIOUS
  <2>2. \A s \in Tenants : /\ V[s] # None <=> U[s] # None
                           /\ V[s] # None => V[s].record = U[s].record /\ V[s].day = U[s].day
    OBVIOUS
  <2> QED
    BY <1>1, <2>1, <2>2 DEF Numbered
<1>5. \A m : /\ StartedOn(W, m) = StartedOn(R, m)
             /\ InFlight(W, m) = InFlight(R, m) \ {r}
             /\ Timely(W, InFlight(W, m)) \subseteq Timely(R, InFlight(R, m))
  BY DEF StartedOn, InFlight, Timely
<1>6. \A m, d : /\ Daily(W, m, d) = Daily(R, m, d)
                /\ Timely(W, Daily(W, m, d)) = Timely(R, Daily(R, m, d))
  <2>1. \A s \in Runs : R[s] # None => W[s].day = R[s].day /\ W[s].stale = R[s].stale
    OBVIOUS
  <2> QED
    BY <1>5, <2>1 DEF Daily, Timely, StartedOn
<1>7. ASSUME NEW m, NEW q \in Int, Cardinality(Timely(R, InFlight(R, m))) <= q
      PROVE  Cardinality(Timely(W, InFlight(W, m))) <= q
  <2>1. InFlight(R, m) \subseteq Runs /\ InFlight(W, m) \subseteq Runs
    BY DEF InFlight, StartedOn
  <2>2. /\ IsFiniteSet(Timely(R, InFlight(R, m))) /\ Cardinality(Timely(R, InFlight(R, m))) \in Nat
        /\ Cardinality(Timely(W, InFlight(W, m))) \in Nat
    BY <2>1, RunsCounted
  <2>3. Cardinality(Timely(W, InFlight(W, m))) <= Cardinality(Timely(R, InFlight(R, m)))
    BY <1>5, <2>2, FS_Subset
  <2> QED
    BY <1>7, <2>2, <2>3
<1>8. ASSUME ~V[t].crossed PROVE Balanced(W, V[t])
  <2>1. Balanced(R, U[t]) /\ R[r].record = n
    BY <1>1, <1>8 DEF Books
  <2>2. r \in InFlight(R, n) /\ InFlight(R, n) \subseteq Runs
    BY <2>1 DEF InFlight, StartedOn
  <2>3. /\ IsFiniteSet(InFlight(R, n)) /\ Cardinality(InFlight(R, n)) \in Nat
        /\ Cardinality(InFlight(R, n) \ {r}) = Cardinality(InFlight(R, n)) - 1
    BY <2>2, RunsCounted, FS_RemoveElement, ZenonT(60)
  <2>4. Cardinality(InFlight(R, n) \ {r}) \in Nat
    <3>1. InFlight(R, n) \ {r} \subseteq Runs
      BY <2>2
    <3> QED
      BY <3>1, RunsCounted
  <2>5. V[t].concurrent = Cardinality(InFlight(W, n))
    <3>1. U[t].concurrent = Cardinality(InFlight(R, n)) /\ InFlight(W, n) = InFlight(R, n) \ {r}
      BY <1>5, <2>1 DEF Balanced
    <3> HIDE DEF n
    <3>2. U[t].concurrent - 1 \in Nat /\ U[t].concurrent \in Nat
      BY <2>3, <2>4, <3>1
    <3> QED
      BY <2>3, <3>1, <3>2
  <2> QED
    BY <1>6, <1>7, <2>1, <2>5, QuotaAssumption DEF Balanced
<1>9. Books(V, W)
  <2>1. ASSUME NEW v \in Tenants, v # t, U[v] # None, ~U[v].crossed PROVE Balanced(W, U[v])
    <3> DEFINE m == U[v].record
    <3>1. Balanced(R, U[v])
      BY <1>1, <2>1 DEF Books
    <3>2. r \notin InFlight(R, m)
      BY <1>1, <2>1 DEF Numbered, InFlight, StartedOn
    <3>3. InFlight(W, m) = InFlight(R, m)
      BY <1>5, <3>2
    <3> QED
      BY <1>6, <1>7, <3>1, <3>3, QuotaAssumption DEF Balanced
  <2> QED
    BY <1>8, <2>1 DEF Books
<1>10. Passes(V, W)
  <2>1. ASSUME NEW s \in Runs, NEW v \in Tenants, Awaiting(W, s, v)
        PROVE  /\ HasRoom(0, 0)
               /\ V[v] # None /\ ~V[v].crossed => HasRoom(V[v].concurrent, V[v].runsToday)
    <3>1. Awaiting(R, s, v)
      BY <2>1 DEF Awaiting
    <3>2. /\ HasRoom(0, 0)
          /\ U[v] # None /\ ~U[v].crossed => HasRoom(U[v].concurrent, U[v].runsToday)
      BY <1>1, <3>1 DEF Passes
    <3>3. ASSUME v = t, ~V[v].crossed PROVE HasRoom(V[v].concurrent, V[v].runsToday)
      BY <1>3, <3>2, <3>3, QuotaAssumption DEF HasRoom, WithinQuota
    <3> QED
      BY <3>2, <3>3
  <2> QED
    BY <2>1 DEF Passes
<1> QED
  BY <1>2, <1>4, <1>9, <1>10 DEF QuotaInv

QuotasKept == QuotaInv(usage, made, run, today)

\* What _get_usage(t) leaves in _usage, and how many records there are then.
Refreshed(t) == [usage EXCEPT ![t] = GetUsage(t)]

MadeBy(t) == IF usage[t] = None THEN made + 1 ELSE made

LEMMA RefreshedKeeps ==
    ASSUME TenantsTypeOK, QuotasKept, NEW t \in Tenants
    PROVE  /\ QuotaInv(Refreshed(t), MadeBy(t), run, today)
           /\ Refreshed(t)[t] = GetUsage(t) /\ GetUsage(t) # None
           /\ \A s \in Tenants : s # t => Refreshed(t)[s] = usage[s]
<1>1. GetUsage(t) \in UsageRecords /\ GetUsage(t).day = today /\ GetUsage(t) # None
  BY GetUsageType, NoneAssumption
<1>2. Tables(usage, made, run, today) /\ QuotaInv(usage, made, run, today)
  BY DEF QuotasKept, QuotaInv
<1>3. Tables(Refreshed(t), MadeBy(t), run, today) /\ Refreshed(t)[t] = GetUsage(t)
      /\ \A s \in Tenants : s # t => Refreshed(t)[s] = usage[s]
  BY <1>1, <1>2 DEF Tables, Refreshed, MadeBy
<1>4. made \in Nat /\ today \in Nat /\ made <= MadeBy(t) /\ today <= today
  BY DEF TenantsTypeOK, MadeBy
<1>5. CASE usage[t] = None
  <2>1. /\ GetUsage(t).record = made + 1 /\ GetUsage(t).runsToday = 0 /\ GetUsage(t).concurrent = 0
        /\ MadeBy(t) = made + 1
    BY <1>5 DEF GetUsage, NewUsage, MadeBy
  <2> QED
    BY <1>1, <1>2, <1>3, <1>4, <2>1, RecordReplaced
<1>6. CASE usage[t] # None
  <2>1. /\ GetUsage(t).record = usage[t].record /\ GetUsage(t).concurrent = usage[t].concurrent
        /\ GetUsage(t).crossed = usage[t].crossed
        /\ \/ GetUsage(t).day = usage[t].day /\ GetUsage(t).runsToday = usage[t].runsToday
           \/ usage[t].day # today /\ GetUsage(t).day = today /\ GetUsage(t).runsToday = 0
    BY <1>1, <1>6, GetUsageType
  <2> QED
    BY <1>1, <1>2, <1>3, <1>4, <1>6, <2>1, RecordReplaced
<1> QED
  BY <1>1, <1>3, <1>5, <1>6

\* A method that changes no more of what _get_usage returned than its projects.
LEMMA PutKeeps ==
    ASSUME TenantsTypeOK, QuotasKept, NEW t \in Tenants, NEW v \in UsageRecords, PutUsage(t, v),
           v.record = GetUsage(t).record, v.concurrent = GetUsage(t).concurrent,
           v.crossed = GetUsage(t).crossed, v.day = GetUsage(t).day, v.runsToday = GetUsage(t).runsToday
    PROVE  QuotaInv(usage', made', run, today)
<1>1. /\ QuotaInv(Refreshed(t), MadeBy(t), run, today)
      /\ Refreshed(t)[t] = GetUsage(t) /\ GetUsage(t) # None
      /\ \A s \in Tenants : s # t => Refreshed(t)[s] = usage[s]
  BY RefreshedKeeps
<1>2. made' = MadeBy(t) /\ usage'[t] = v /\ v # None /\ \A s \in Tenants : s # t => usage'[s] = usage[s]
  BY NoneAssumption DEF PutUsage, MadeBy, TenantsTypeOK
<1>3. Tables(usage', made', run, today)
  BY <1>1, <1>2, PutUsageType DEF QuotaInv, Tables
<1>4. made' \in Nat /\ MadeBy(t) <= made' /\ today <= today
  BY <1>1, <1>2 DEF QuotaInv, Tables
<1>5. \A s \in Tenants : s # t => usage'[s] = Refreshed(t)[s]
  BY <1>1, <1>2
<1> HIDE DEF Refreshed
<1> QED
  BY <1>1, <1>2, <1>3, <1>4, <1>5, RecordReplaced

LEMMA QuotaStep == TenantsTypeOK /\ QuotasKept /\ [TenantsNext]_tenantVars => QuotasKept'
<1> SUFFICES ASSUME TenantsTypeOK, QuotasKept, [TenantsNext]_tenantVars PROVE QuotasKept'
  OBVIOUS
<1>0. /\ Tables(usage, made, run, today) /\ QuotaInv(usage, made, run, today)
      /\ made \in Nat /\ today \in Nat
  BY DEF QuotasKept, QuotaInv, Tables
<1>1. ASSUME UNCHANGED <<usage, made, run, today>> PROVE QuotasKept'
  BY <1>1 DEF QuotasKept
<1>2. ASSUME NEW h \in Handlers, CreateTenantStore(h) PROVE QuotasKept'
  <2> DEFINE t == call[h].tenant
  <2>1. t \in Tenants /\ NewUsage \in UsageRecords
    BY <1>0, <1>2, CallFields DEF CreateTenantStore, Idle, NewUsage, UsageRecords
  <2>2. /\ usage' \in [Tenants -> UsageRecords \union {None}] /\ usage'[t] = NewUsage /\ usage'[t] # None
        /\ \A s \in Tenants : s # t => usage'[s] = usage[s]
        /\ made' = made + 1 /\ run' = run /\ today' = today
    BY <1>0, <1>2, <2>1, NoneAssumption DEF CreateTenantStore, Tables
  <2>3. /\ usage'[t].record = made + 1 /\ usage'[t].day = today /\ usage'[t].runsToday = 0
        /\ usage'[t].concurrent = 0
    BY <2>2 DEF NewUsage
  <2>4. Tables(usage', made', run, today) /\ made <= made' /\ today <= today
    BY <1>0, <2>2 DEF Tables
  <2> HIDE DEF t
  <2>5. QuotaInv(usage', made', run, today)
    BY <1>0, <2>1, <2>2, <2>3, <2>4, RecordReplaced
  <2> QED
    BY <2>2, <2>5 DEF QuotasKept
<1>3. ASSUME NEW h \in Handlers, DeleteTenantDrop(h) PROVE QuotasKept'
  <2> DEFINE t == call[h].tenant
  <2>1. t \in Tenants /\ UNCHANGED <<made, run, today>>
    BY <1>3, CallFields DEF DeleteTenantDrop, Idle
  <2>2. CASE usage' = usage
    BY <1>1, <2>1, <2>2
  <2>3. CASE usage' = [usage EXCEPT ![t] = None]
    <3>1. /\ usage' \in [Tenants -> UsageRecords \union {None}] /\ usage'[t] = None
          /\ \A s \in Tenants : s # t => usage'[s] = usage[s]
      BY <1>0, <2>1, <2>3 DEF Tables
    <3>2. Tables(usage', made, run, today) /\ made <= made /\ today <= today
      BY <1>0, <3>1 DEF Tables
    <3> HIDE DEF t
    <3>3. QuotaInv(usage', made, run, today)
      BY <1>0, <2>1, <3>1, <3>2, RecordReplaced
    <3> QED
      BY <2>1, <3>3 DEF QuotasKept
  <2> QED
    BY <1>3, <2>2, <2>3 DEF DeleteTenantDrop
<1>4. ASSUME NEW h \in Handlers, NEW t \in Tenants,
             CreateTenantCheck(h, t) \/ DeleteTenantUnlist(h, t) \/ SuspendTenant(h, t) \/ ReactivateTenant(h, t)
      PROVE  QuotasKept'
  BY <1>1, <1>4 DEF CreateTenantCheck, DeleteTenantUnlist, SuspendTenant, ReactivateTenant, SetStatus
<1>5. ASSUME NEW h \in Handlers, CreateProjectStore(h) PROVE QuotasKept'
  <2> DEFINE t == call[h].tenant
  <2>1. t \in Tenants /\ UNCHANGED <<made, run, today>>
    BY <1>5, CallFields DEF CreateProjectStore, Idle
  <2>2. CASE usage' = usage
    BY <1>1, <2>1, <2>2
  <2>3. CASE usage[t] # None /\ usage' = [usage EXCEPT ![t] = [usage[t] EXCEPT !.projects = usage[t].projects + 1]]
    <3>1. usage[t] \in UsageRecords /\ usage[t].projects + 1 \in Nat
      BY <1>0, <2>1, <2>3 DEF Tables, UsageRecords
    <3>0. PICK v : v = [usage[t] EXCEPT !.projects = usage[t].projects + 1]
      OBVIOUS
    <3>2. /\ v \in UsageRecords /\ v.record = usage[t].record /\ v.day = usage[t].day
          /\ v.runsToday = usage[t].runsToday /\ v.concurrent = usage[t].concurrent
          /\ v.crossed = usage[t].crossed
      BY <3>0, <3>1, ProjectsField
    <3>3. usage' = [usage EXCEPT ![t] = v]
      BY <2>3, <3>0
    <3> HIDE DEF t
    <3>4. /\ usage' \in [Tenants -> UsageRecords \union {None}] /\ usage'[t] = v /\ v # None
          /\ \A s \in Tenants : s # t => usage'[s] = usage[s]
      BY <1>0, <2>1, <3>2, <3>3, NoneAssumption DEF Tables
    <3>5. Tables(usage', made, run, today) /\ made <= made /\ today <= today
      BY <1>0, <3>4 DEF Tables
    <3>6. QuotaInv(usage', made, run, today)
      BY <1>0, <2>1, <2>3, <3>2, <3>4, <3>5, RecordReplaced, ZenonT(60)
    <3> QED
      BY <2>1, <3>6 DEF QuotasKept
  <2> QED
    BY <1>5, <2>2, <2>3 DEF CreateProjectStore
<1>6. ASSUME NEW h \in Handlers, DeleteProjectUnlist(h) PROVE QuotasKept'
  <2> DEFINE t == call[h].tenant
  <2>1. t \in Tenants /\ UNCHANGED <<run, today>>
    BY <1>6, CallFields DEF DeleteProjectUnlist, Idle
  <2>2. PICK u \in UsageRecords : u = GetUsage(t)
    BY <2>1, GetUsageType
  <2>3. PICK n \in Nat : PutUsage(t, [u EXCEPT !.projects = n])
    <3>1. u.projects \in Nat
      BY DEF UsageRecords
    <3>2. (IF u.projects > 0 THEN u.projects - 1 ELSE 0) \in Nat
      BY <3>1
    <3>3. PutUsage(t, [u EXCEPT !.projects = IF u.projects > 0 THEN u.projects - 1 ELSE 0])
      BY <1>6, <2>2 DEF DeleteProjectUnlist
    <3> QED
      BY <3>2, <3>3
  <2> PICK v : v = [u EXCEPT !.projects = n]
    OBVIOUS
  <2>4. /\ v \in UsageRecords /\ v.record = u.record /\ v.day = u.day
        /\ v.runsToday = u.runsToday /\ v.concurrent = u.concurrent /\ v.crossed = u.crossed
    BY ProjectsField
  <2>5. PutUsage(t, v)
    BY <2>3
  <2> HIDE DEF t
  <2>6. QuotaInv(usage', made', run, today)
    BY <2>1, <2>2, <2>4, <2>5, PutKeeps
  <2> QED
    BY <2>1, <2>6 DEF QuotasKept
<1>7. ASSUME NEW h \in Handlers, NEW p \in Projects, NEW t \in Tenants, CreateProjectCheck(h, p, t)
      PROVE  QuotasKept'
  <2>1. GetUsage(t) \in UsageRecords /\ PutUsage(t, GetUsage(t)) /\ UNCHANGED <<run, today>>
    BY <1>7, GetUsageType DEF CreateProjectCheck
  <2>2. QuotaInv(usage', made', run, today)
    BY <2>1, PutKeeps
  <2> QED
    BY <2>1, <2>2 DEF QuotasKept
<1>8. ASSUME NEW h \in Handlers, NEW p \in Projects, NEW t \in Tenants, DeleteProjectPop(h, p, t)
      PROVE  QuotasKept'
  BY <1>1, <1>8 DEF DeleteProjectPop
<1>9. ASSUME NEW r \in Runs, NEW t \in Tenants, CheckRunAllowed(r, t) PROVE QuotasKept'
  <2>1. /\ GetUsage(t) \in UsageRecords /\ GetUsage(t).day = today /\ GetUsage(t) # None
        /\ GetUsage(t).record \in Nat /\ usage' = Refreshed(t) /\ made' = MadeBy(t) /\ today' = today
    BY <1>9, GetUsageType, NoneAssumption DEF CheckRunAllowed, PutUsage, Refreshed, MadeBy, UsageRecords
  <2>2. QuotaInv(usage', made', run, today) /\ usage'[t] = GetUsage(t)
    BY <2>1, RefreshedKeeps
  <2> DEFINE w == [at |-> "checked", tenant |-> t, stale |-> FALSE, record |-> GetUsage(t).record, day |-> today]
  <2>3. w \in ClientRuns
    BY <1>0, <2>1 DEF ClientRuns
  <2>4. /\ w # None /\ w.at = "checked" /\ w.tenant = t /\ w.record = GetUsage(t).record /\ w.day = today
    BY <2>3, NoneAssumption
  <2>5. run' = [run EXCEPT ![r] = w] /\ run[r] = None
    BY <1>9 DEF CheckRunAllowed
  <2> HIDE DEF w
  <2>6. /\ run' \in [Runs -> ClientRuns \union {None}] /\ run'[r] = w
        /\ \A s \in Runs : s # r => run'[s] = run[s]
    BY <1>0, <2>3, <2>5 DEF Tables
  <2>7. HasRoom(GetUsage(t).concurrent, GetUsage(t).runsToday)
    BY <1>9 DEF CheckRunAllowed, HasRoom
  <2>8. ChecksOn(usage', run, today, t, r, run')
    BY <2>1, <2>2, <2>4, <2>5, <2>6, <2>7 DEF ChecksOn
  <2>9. QuotaInv(usage', made', run', today)
    BY <2>2, <2>8, RunChecked
  <2> QED
    BY <2>1, <2>9 DEF QuotasKept
<1>10. ASSUME NEW r \in Runs, RecordRunStart(r) PROVE QuotasKept'
  <2>1. run[r] \in ClientRuns /\ run[r].tenant \in Tenants /\ run[r] # None /\ run[r].at = "checked"
    BY <1>0, <1>10 DEF RecordRunStart, Tables, ClientRuns
  <2>2. PICK t \in Tenants : t = run[r].tenant
    BY <2>1
  <2>3. PICK u \in UsageRecords : u = GetUsage(t)
    BY GetUsageType
  <2>4. u.day = today /\ u.record \in Nat /\ u.runsToday + 1 \in Nat /\ u.concurrent + 1 \in Nat
    BY <2>3, GetUsageType DEF UsageRecords
  <2> PICK n \in Nat : n = u.runsToday + 1
    BY <2>4
  <2> PICK c \in Nat : c = u.concurrent + 1
    BY <2>4
  <2> PICK v : v = [u EXCEPT !.runsToday = n, !.concurrent = c]
    OBVIOUS
  <2>5. /\ v \in UsageRecords /\ v.record = u.record /\ v.day = u.day /\ v.crossed = u.crossed
        /\ v.runsToday = u.runsToday + 1 /\ v.concurrent = u.concurrent + 1
    BY DEF UsageRecords
  <2>6. usage' = [usage EXCEPT ![t] = v] /\ made' = MadeBy(t) /\ today' = today
    BY <1>10, <2>2, <2>3 DEF RecordRunStart, PutUsage, MadeBy
  <2>7. run' = [s \in Runs |->
                  IF s = r THEN [run[r] EXCEPT !.at = "running", !.record = u.record, !.day = today]
                  ELSE IF run[s] # None /\ run[s].at = "checked" /\ run[s].tenant = t
                       THEN [run[s] EXCEPT !.stale = TRUE] ELSE run[s]]
    BY <1>10, <2>2, <2>3 DEF RecordRunStart
  <2>8. /\ usage' \in [Tenants -> UsageRecords \union {None}] /\ usage'[t] = v /\ v # None
        /\ \A s \in Tenants : s # t => usage'[s] = usage[s]
    BY <1>0, <2>5, <2>6, NoneAssumption DEF Tables
  <2>9. /\ QuotaInv(Refreshed(t), MadeBy(t), run, today)
        /\ Refreshed(t)[t] = u /\ u # None
        /\ \A s \in Tenants : s # t => usage'[s] = Refreshed(t)[s]
    BY <2>3, <2>8, RefreshedKeeps
  <2>10. run' \in [Runs -> ClientRuns \union {None}]
    BY <1>10, TypeStep DEF TenantsTypeOK, TenantsNext, RunMethods
  <2>11. /\ run'[r] # None /\ run'[r].at = "running" /\ run'[r].tenant = t /\ run'[r].stale = run[r].stale
         /\ run'[r].record = u.record /\ run'[r].day = today
    <3>1. run'[r] = [run[r] EXCEPT !.at = "running", !.record = u.record, !.day = today]
      BY <2>7
    <3>2. /\ run'[r] \in ClientRuns /\ run'[r].at = "running" /\ run'[r].tenant = run[r].tenant
          /\ run'[r].stale = run[r].stale /\ run'[r].record = u.record /\ run'[r].day = today
      <4>1. PICK x \in ClientRuns : x = run[r]
        BY <2>1
      <4>2. PICK m \in Nat : m = u.record
        BY <2>4
      <4>3. PICK d \in Nat : d = today
        BY <1>0
      <4>4. PICK y : y = [x EXCEPT !.at = "running", !.record = m, !.day = d]
        OBVIOUS
      <4>5. /\ y \in ClientRuns /\ y.at = "running" /\ y.tenant = x.tenant
            /\ y.stale = x.stale /\ y.record = m /\ y.day = d
        BY <4>4 DEF ClientRuns
      <4>6. run'[r] = y
        BY <3>1, <4>1, <4>2, <4>3, <4>4
      <4> QED
        BY <4>1, <4>2, <4>3, <4>5, <4>6
    <3> QED
      BY <2>2, <3>2, NoneAssumption
  <2>12. ASSUME NEW s \in Runs, s # r
         PROVE  IF run[s] # None /\ run[s].at = "checked" /\ run[s].tenant = t
                THEN /\ run'[s] # None /\ run'[s].at = "checked" /\ run'[s].tenant = t /\ run'[s].stale
                     /\ run'[s].record = run[s].record /\ run'[s].day = run[s].day
                ELSE run'[s] = run[s]
    <3>1. CASE run[s] # None /\ run[s].at = "checked" /\ run[s].tenant = t
      <4>1. run'[s] = [run[s] EXCEPT !.stale = TRUE] /\ run[s] \in ClientRuns
        BY <1>0, <2>7, <2>12, <3>1 DEF Tables
      <4>2. ASSUME NEW x \in ClientRuns
            PROVE  LET y == [x EXCEPT !.stale = TRUE] IN
                   /\ y \in ClientRuns /\ y.at = x.at /\ y.tenant = x.tenant /\ y.stale
                   /\ y.record = x.record /\ y.day = x.day
        BY DEF ClientRuns
      <4>3. /\ run'[s] \in ClientRuns /\ run'[s].at = run[s].at /\ run'[s].tenant = run[s].tenant
            /\ run'[s].stale /\ run'[s].record = run[s].record /\ run'[s].day = run[s].day
        BY <4>1, <4>2
      <4> QED
        BY <3>1, <4>3, NoneAssumption
    <3>2. CASE ~(run[s] # None /\ run[s].at = "checked" /\ run[s].tenant = t)
      BY <2>7, <2>12, <3>2
    <3> QED
      BY <3>1, <3>2
  <2> HIDE DEF Refreshed
  <2>13. StartsOn(Refreshed(t), run, today, t, r, usage', run')
    BY <2>1, <2>2, <2>4, <2>5, <2>8, <2>9, <2>10, <2>11, <2>12 DEF StartsOn
  <2>14. QuotaInv(usage', MadeBy(t), run', today)
    BY <2>9, <2>13, RunStarted
  <2> QED
    BY <2>6, <2>14 DEF QuotasKept
<1>11. ASSUME NEW r \in Runs, RecordRunEnd(r) PROVE QuotasKept'
  <2>1. run[r] \in ClientRuns /\ run[r].tenant \in Tenants /\ run[r] # None /\ run[r].at = "running"
    BY <1>0, <1>11 DEF RecordRunEnd, Tables, ClientRuns
  <2>2. PICK t \in Tenants : t = run[r].tenant
    BY <2>1
  <2>3. PICK u \in UsageRecords : u = GetUsage(t)
    BY GetUsageType
  <2>4. PICK n \in Nat : n = IF u.concurrent > 0 THEN u.concurrent - 1 ELSE 0
    <3>1. u.concurrent \in Nat
      BY DEF UsageRecords
    <3> QED
      BY <3>1
  <2>5. PICK b \in BOOLEAN : b <=> u.crossed \/ u.record # run[r].record
    OBVIOUS
  <2>6. PutUsage(t, [u EXCEPT !.concurrent = IF u.concurrent > 0 THEN u.concurrent - 1 ELSE 0,
                              !.crossed = u.crossed \/ u.record # run[r].record])
    BY <1>11, <2>2, <2>3 DEF RecordRunEnd
  <2>7. (u.crossed \/ u.record # run[r].record) = b
    BY <2>5
  <2> PICK v : v = [u EXCEPT !.concurrent = n, !.crossed = b]
    OBVIOUS
  <2>8. PutUsage(t, v) /\ UNCHANGED today
    BY <1>11, <2>4, <2>6, <2>7 DEF RecordRunEnd
  <2>9. /\ v \in UsageRecords /\ v.record = u.record /\ v.day = u.day /\ v.runsToday = u.runsToday
        /\ v.concurrent = n /\ v.crossed = b /\ u.day = today
    <3>1. u.day = today
      BY <2>3, GetUsageType
    <3> QED
      BY <3>1 DEF UsageRecords
  <2>10. usage' = [usage EXCEPT ![t] = v] /\ made' = MadeBy(t) /\ today' = today
    BY <2>8 DEF PutUsage, MadeBy
  <2>11. /\ usage' \in [Tenants -> UsageRecords \union {None}] /\ usage'[t] = v /\ v # None
         /\ \A s \in Tenants : s # t => usage'[s] = usage[s]
    BY <1>0, <2>9, <2>10, NoneAssumption DEF Tables
  <2>12. /\ QuotaInv(Refreshed(t), MadeBy(t), run, today)
         /\ Refreshed(t)[t] = u /\ u # None
         /\ \A s \in Tenants : s # t => usage'[s] = Refreshed(t)[s]
    BY <2>3, <2>11, RefreshedKeeps
  <2>13. run' = [run EXCEPT ![r] = [run[r] EXCEPT !.at = "ended"]]
    BY <1>11 DEF RecordRunEnd
  <2>14. ASSUME NEW x \in ClientRuns
         PROVE  LET y == [x EXCEPT !.at = "ended"] IN
                /\ y \in ClientRuns /\ y.at = "ended" /\ y.tenant = x.tenant /\ y.stale = x.stale
                /\ y.record = x.record /\ y.day = x.day
    BY DEF ClientRuns
  <2>15. PICK y \in ClientRuns :
            /\ y = [run[r] EXCEPT !.at = "ended"] /\ y.at = "ended" /\ y.tenant = run[r].tenant
            /\ y.stale = run[r].stale /\ y.record = run[r].record /\ y.day = run[r].day
    BY <2>1, <2>14
  <2>16. /\ run' \in [Runs -> ClientRuns \union {None}] /\ run'[r] = y /\ y # None
         /\ \A s \in Runs : s # r => run'[s] = run[s]
    BY <1>0, <2>13, <2>15, NoneAssumption DEF Tables
  <2> HIDE DEF Refreshed
  <2>17. EndsOn(Refreshed(t), run, today, t, r, usage', run')
    BY <2>1, <2>2, <2>4, <2>5, <2>9, <2>11, <2>12, <2>15, <2>16, ZenonT(60) DEF EndsOn
  <2>18. QuotaInv(usage', MadeBy(t), run', today)
    BY <2>12, <2>17, RunEnded
  <2> QED
    BY <2>10, <2>18 DEF QuotasKept
<1>12. CASE NextDay
  <2>1. UNCHANGED <<usage, made, run>> /\ today' = today + 1
    BY <1>12 DEF NextDay
  <2>2. Tables(usage, made, run, today + 1) /\ today <= today + 1
    BY <1>0 DEF Tables
  <2>3. Numbered(usage, made, run, today + 1)
    <3>1. Numbered(usage, made, run, today)
      BY <1>0 DEF QuotaInv
    <3>2. /\ \A t \in Tenants : usage[t] # None => usage[t].day \in Nat
          /\ \A r \in Runs : run[r] # None => run[r].day \in Nat
      BY <1>0 DEF Tables, UsageRecords, ClientRuns
    <3> QED
      BY <1>0, <3>1, <3>2 DEF Numbered
  <2> QED
    BY <1>0, <2>1, <2>2, <2>3 DEF QuotasKept, QuotaInv
<1>13. CASE UNCHANGED tenantVars
  BY <1>1, <1>13 DEF tenantVars
<1> QED
  BY <1>2, <1>3, <1>4, <1>5, <1>6, <1>7, <1>8, <1>9, <1>10, <1>11, <1>12, <1>13
     DEF TenantsNext, TenantMethods, ProjectMethods, RunMethods

\* However clients' checks, starts and ends of runs (check_run_allowed, record_run_start,
\* record_run_end) fall between deletions of the tenant and turns of the day, a record counts
\* exactly its runs, and the runs started on a fresh check stay within both quotas.
THEOREM QuotasAlwaysHold == TenantsSpec => []RunQuotaHeld
<1>1. TenantsInit => QuotasKept
  <2> SUFFICES ASSUME TenantsInit PROVE QuotasKept
    OBVIOUS
  <2>1. Tables(usage, made, run, today)
    BY TypeInitially DEF Tables, TenantsTypeOK
  <2>2. Numbered(usage, made, run, today) /\ Books(usage, run) /\ Passes(usage, run)
    BY DEF TenantsInit, Numbered, Books, Passes, Awaiting
  <2> QED
    BY <2>1, <2>2 DEF QuotasKept, QuotaInv
<1>2. QuotasKept => RunQuotaHeld
  <2> SUFFICES ASSUME QuotasKept, NEW t \in Tenants, usage[t] # None, ~usage[t].crossed
               PROVE  LET inFlight == {r \in Started(t) : run[r].at = "running"}
                          daily == {r \in Started(t) : run[r].day = usage[t].day}
                          Fresh(rs) == Cardinality({r \in rs : ~run[r].stale}) IN
                      /\ usage[t].concurrent = Cardinality(inFlight)
                      /\ usage[t].runsToday = Cardinality(daily)
                      /\ MaxConcurrentRuns >= 0 => Fresh(inFlight) <= MaxConcurrentRuns
                      /\ MaxRunsPerDay >= 0 => Fresh(daily) <= MaxRunsPerDay
    BY DEF RunQuotaHeld
  <2>1. Balanced(run, usage[t])
    BY DEF QuotasKept, QuotaInv, Books
  <2>2. Started(t) = StartedOn(run, usage[t].record)
    BY DEF Started, StartedOn
  <2> QED
    BY <2>1, <2>2 DEF Balanced, InFlight, Daily, Timely
<1> QED
  BY <1>1, <1>2, TypeInitially, TypeStep, QuotaStep, PTL DEF TenantsSpec

-----------------------------------------------------------------------------
(***************************************************************************)
(* Single sign-on: types.                                                  *)
(***************************************************************************)
SsoCalls == {Resting}
         \union [method : {"login"}, identity : Identities, user : Nat]
         \union [method : {"scan"}, last : Nat, left : Int, size : Nat, gone : Seq(Nat)]
         \union [method : {"remove"}, gone : Seq(Nat)]
         \union [method : {"unindex"}, session : Nat, gone : Seq(Nat)]

SsoTypeOK ==
    /\ expires \in Seq(Nat)
    /\ account \in Seq([user : Nat, identity : Identities])
    /\ cause \in Seq({"none", "logout", "expired"})
    /\ Len(account) = Len(expires) /\ Len(cause) = Len(expires)
    /\ byId \subseteq DOMAIN expires /\ byToken \subseteq DOMAIN expires
    /\ users \in Seq(Identities)
    /\ userOf \in [Identities -> Nat]
    /\ doing \in [Callers -> SsoCalls]
    /\ hour \in Nat

\* The sessions a caller will take away have a cause; the one whose token it took is
\* not found by it any more.
TakenForCause ==
    \A c \in Callers :
        /\ \A s \in Leaving(c) : s \in DOMAIN expires /\ cause[s] # "none"
        /\ Is(c, "unindex") => doing[c].session \notin byToken

TablesAgree ==
    /\ byToken \subseteq byId
    /\ \A s \in DOMAIN expires : cause[s] = "none" => s \in byToken
    /\ \A s \in byId \ byToken : \E c \in Callers : Is(c, "unindex") /\ doing[c].session = s

UsersLinked ==
    /\ \A i \in Identities : userOf[i] # 0 => userOf[i] \in DOMAIN users /\ users[userOf[i]] = i
    /\ \A u \in DOMAIN users : userOf[users[u]] # 0
    /\ \A c \in Callers : Is(c, "login") /\ doing[c].user # 0 =>
           doing[c].user \in DOMAIN users /\ users[doing[c].user] = doing[c].identity
    /\ \A s \in DOMAIN account :
           account[s].user \in DOMAIN users /\ users[account[s].user] = account[s].identity

SsoInv == SsoTypeOK /\ TakenForCause /\ TablesAgree /\ UsersLinked

-----------------------------------------------------------------------------
(* What a call looks like, by its method.                                  *)

LEMMA CallShapes ==
    ASSUME NEW d \in SsoCalls
    PROVE  /\ d.method = "none" => d = Resting
           /\ d.method = "login" => d \in [method : {"login"}, identity : Identities, user : Nat]
           /\ d.method = "scan" => d \in [method : {"scan"}, last : Nat, left : Int, size : Nat, gone : Seq(Nat)]
           /\ d.method = "remove" => d \in [method : {"remove"}, gone : Seq(Nat)]
           /\ d.method = "unindex" => d \in [method : {"unindex"}, session : Nat, gone : Seq(Nat)]
  BY DEF SsoCalls, Resting

LEMMA InitHolds == SsoInit => SsoInv
  <1> SUFFICES ASSUME SsoInit PROVE SsoInv
    OBVIOUS
  <1>1. SsoTypeOK
    BY DEF SsoInit, SsoTypeOK, SsoCalls
  <1>2. TakenForCause
    BY DEF SsoInit, TakenForCause, Leaving, Is, Resting
  <1>3. TablesAgree /\ UsersLinked
    BY DEF SsoInit, TablesAgree, UsersLinked, Is, Resting
  <1> QED
    BY <1>1, <1>2, <1>3 DEF SsoInv

Causes == {"none", "logout", "expired"}

LEMMA CauseGiven ==
    ASSUME SsoTypeOK, NEW s \in DOMAIN expires, NEW v \in Causes
    PROVE  /\ [cause EXCEPT ![s] = v] \in Seq(Causes)
           /\ Len([cause EXCEPT ![s] = v]) = Len(cause)
           /\ \A r \in DOMAIN expires : [cause EXCEPT ![s] = v][r] = IF r = s THEN v ELSE cause[r]
  <1>1. cause \in Seq(Causes) /\ DOMAIN expires = 1 .. Len(cause)
    BY DEF SsoTypeOK, Causes
  <1> QED
    BY <1>1, ExceptSeq

(***************************************************************************)
(* A caller that starts, goes on or comes back, and changes nothing but    *)
(* causes it gives to sessions that had none.                              *)
(***************************************************************************)
Moves(c, next) ==
    /\ doing[c].method # "unindex" /\ next.method # "unindex"
    /\ doing' = [doing EXCEPT ![c] = next]
    /\ cause' \in Seq(Causes) /\ Len(cause') = Len(cause)
    /\ \A s \in DOMAIN expires : cause[s] # "none" => cause'[s] # "none"
    /\ next.method \in {"scan", "remove"} =>
          \A i \in DOMAIN next.gone : next.gone[i] \in DOMAIN expires /\ cause'[next.gone[i]] # "none"
    /\ next.method = "login" /\ next.user # 0 =>
          next.user \in DOMAIN users /\ users[next.user] = next.identity
    /\ UNCHANGED <<byId, byToken, expires, account, users, userOf, hour>>

LEMMA CallerMoves ==
    ASSUME SsoInv, NEW c \in Callers, NEW next \in SsoCalls, Moves(c, next)
    PROVE  SsoInv'
  <1> USE DEF SsoInv, Moves, Causes
  <1>1. SsoTypeOK'
    BY DEF SsoTypeOK
  <1>2. TakenForCause'
    <2> SUFFICES ASSUME NEW d \in Callers
                 PROVE  /\ \A s \in Leaving(d)' : s \in DOMAIN expires /\ cause'[s] # "none"
                        /\ Is(d, "unindex")' => doing'[d].session \notin byToken
      BY DEF TakenForCause
    <2>1. CASE d = c
      BY <2>1 DEF Leaving, Is, SsoTypeOK
    <2>2. CASE d # c
      <3>1. doing'[d] = doing[d]
        BY <2>2 DEF SsoTypeOK
      <3>2. Leaving(d)' = Leaving(d)
        BY <3>1 DEF Leaving, Is
      <3> QED
        BY <3>1, <3>2 DEF TakenForCause, Is, SsoTypeOK
    <2> QED
      BY <2>1, <2>2
  <1>3. TablesAgree'
    BY DEF TablesAgree, SsoTypeOK, Is
  <1>4. UsersLinked'
    BY DEF UsersLinked, SsoTypeOK, Is
  <1> QED
    BY <1>1, <1>2, <1>3, <1>4

LEMMA SizeIsNat == SsoTypeOK => Cardinality(byId) \in Nat
  <1> SUFFICES ASSUME SsoTypeOK PROVE Cardinality(byId) \in Nat
    OBVIOUS
  <1>1. IsFiniteSet(1 .. Len(expires))
    BY FS_Interval DEF SsoTypeOK
  <1>2. byId \subseteq 1 .. Len(expires)
    BY DEF SsoTypeOK
  <1> QED
    BY <1>1, <1>2, FS_Subset, FS_CardinalityType

\* What a caller goes through has a cause.
LEMMA GoneHaveCauses ==
    ASSUME SsoInv, NEW c \in Callers, doing[c].method \in {"scan", "remove", "unindex"}
    PROVE  \A i \in DOMAIN doing[c].gone :
               doing[c].gone[i] \in DOMAIN expires /\ cause[doing[c].gone[i]] # "none"
  BY DEF SsoInv, TakenForCause, Leaving

LEMMA AuthenticateKeeps ==
    ASSUME SsoInv, NEW c \in Callers, NEW i \in Identities, Authenticate(c, i)
    PROVE  SsoInv'
  <1> DEFINE next == [method |-> "login", identity |-> i, user |-> userOf[i]]
  <1>1. next \in SsoCalls
    BY DEF SsoInv, SsoTypeOK, SsoCalls
  <1>2. Moves(c, next)
    BY DEF SsoInv, SsoTypeOK, UsersLinked, Authenticate, Starts, Resting, Moves, Causes
  <1> QED
    BY <1>1, <1>2, CallerMoves

LEMMA FindExpiredKeeps ==
    ASSUME SsoInv, NEW c \in Callers, NEW s \in byId \union byToken, FindExpired(c, s)
    PROVE  SsoInv'
  <1> DEFINE next == [method |-> "remove", gone |-> <<s>>]
  <1>1. SsoTypeOK /\ s \in DOMAIN expires /\ s \in Nat
    BY DEF SsoInv, SsoTypeOK
  <1>2. next \in SsoCalls
    BY <1>1 DEF SsoCalls
  <1>3. /\ cause' \in Seq(Causes) /\ Len(cause') = Len(cause)
        /\ \A r \in DOMAIN expires : cause[r] # "none" => cause'[r] # "none"
        /\ cause'[s] # "none"
    <2>1. CASE cause[s] = "none"
      <3>1. "expired" \in Causes
        BY DEF Causes
      <3>2. cause' = [cause EXCEPT ![s] = "expired"]
        BY <2>1 DEF FindExpired
      <3> QED
        BY <1>1, <3>1, <3>2, CauseGiven
    <2>2. CASE cause[s] # "none"
      BY <1>1, <2>2 DEF FindExpired, SsoTypeOK, Causes
    <2> QED
      BY <2>1, <2>2
  <1>4. Moves(c, next)
    BY <1>1, <1>3 DEF FindExpired, Starts, Resting, Moves
  <1> QED
    BY <1>2, <1>4, CallerMoves

LEMMA CleanupStartKeeps ==
    ASSUME SsoInv, NEW c \in Callers, CleanupStart(c)
    PROVE  SsoInv'
  <1> DEFINE next == Scan(0, Cardinality(byId), Cardinality(byId), <<>>)
  <1>1. next \in SsoCalls
    BY SizeIsNat DEF SsoInv, SsoCalls, Scan
  <1>2. Moves(c, next)
    BY DEF SsoInv, SsoTypeOK, CleanupStart, Starts, Resting, Moves, Causes, Scan
  <1> QED
    BY <1>1, <1>2, CallerMoves

LEMMA CleanupLookKeeps ==
    ASSUME SsoInv, NEW c \in Callers, CleanupLook(c)
    PROVE  SsoInv'
  <1>1. doing[c] \in [method : {"scan"}, last : Nat, left : Int, size : Nat, gone : Seq(Nat)]
    <2>1. doing[c] \in SsoCalls /\ doing[c].method = "scan"
      BY DEF SsoInv, SsoTypeOK, CleanupLook, Is
    <2> QED
      BY <2>1, CallShapes
  <1>2. PICK s \in Ahead(c) :
            /\ LET d == doing[c]
                   found == IF Expired(s) THEN Append(d.gone, s) ELSE d.gone
               IN  doing' = [doing EXCEPT ![c] = Scan(s, d.left - 1, d.size, found)]
            /\ cause' = IF Expired(s) /\ cause[s] = "none" THEN [cause EXCEPT ![s] = "expired"] ELSE cause
    BY DEF CleanupLook
  <1> DEFINE seen == IF Expired(s) THEN Append(doing[c].gone, s) ELSE doing[c].gone
             next == Scan(s, doing[c].left - 1, doing[c].size, seen)
  <1>3. SsoTypeOK /\ s \in DOMAIN expires /\ s \in Nat
    BY SMTT(30) DEF Ahead, SsoInv, SsoTypeOK
  <1>4. doing' = [doing EXCEPT ![c] = next]
    BY <1>2
  <1>5. seen \in Seq(Nat) /\ next \in SsoCalls
    BY <1>1, <1>3 DEF SsoCalls, Scan
  <1>6. /\ cause' \in Seq(Causes) /\ Len(cause') = Len(cause)
        /\ \A r \in DOMAIN expires : cause[r] # "none" => cause'[r] # "none"
        /\ Expired(s) => cause'[s] # "none"
    <2>1. CASE Expired(s) /\ cause[s] = "none"
      <3>1. "expired" \in Causes
        BY DEF Causes
      <3>2. cause' = [cause EXCEPT ![s] = "expired"]
        BY <1>2, <2>1
      <3> QED
        BY <1>3, <3>1, <3>2, CauseGiven
    <2>2. CASE ~(Expired(s) /\ cause[s] = "none")
      BY <1>2, <1>3, <2>2 DEF SsoTypeOK, Causes
    <2> QED
      BY <2>1, <2>2
  <1>7. \A i \in DOMAIN doing[c].gone : doing[c].gone[i] \in DOMAIN expires /\ cause[doing[c].gone[i]] # "none"
    BY <1>1, GoneHaveCauses
  <1>8. \A i \in DOMAIN seen : seen[i] \in DOMAIN expires /\ cause'[seen[i]] # "none"
    <2>1. CASE Expired(s)
      <3>1. \A i \in DOMAIN seen : seen[i] = s \/ (i \in DOMAIN doing[c].gone /\ seen[i] = doing[c].gone[i])
        BY <1>1, <1>3, <2>1
      <3> QED
        BY <1>3, <1>6, <1>7, <2>1, <3>1
    <2>2. CASE ~Expired(s)
      BY <1>6, <1>7, <2>2
    <2> QED
      BY <2>1, <2>2
  <1>9. Moves(c, next)
    <2>1. doing[c].method # "unindex"
      BY <1>1
    <2>2. UNCHANGED <<byId, byToken, expires, account, users, userOf, hour>>
      BY DEF CleanupLook
    <2> HIDE DEF seen
    <2> QED
      BY <1>4, <1>6, <1>8, <2>1, <2>2 DEF Moves, Scan
  <1> HIDE DEF next
  <1> QED
    BY <1>5, <1>9, CallerMoves

LEMMA ReturnKeeps ==
    ASSUME SsoInv, NEW c \in Callers, CleanupRaises(c) \/ RemoveDone(c)
    PROVE  SsoInv'
  <1>1. Resting \in SsoCalls
    BY DEF SsoCalls
  <1>2. Moves(c, Resting)
    BY DEF SsoInv, SsoTypeOK, CleanupRaises, RemoveDone, Returns, Is, Resting, Moves, Causes
  <1> QED
    BY <1>1, <1>2, CallerMoves

LEMMA CleanupRemoveKeeps ==
    ASSUME SsoInv, NEW c \in Callers, CleanupRemove(c)
    PROVE  SsoInv'
  <1> DEFINE next == [method |-> "remove", gone |-> doing[c].gone]
  <1>1. doing[c] \in [method : {"scan"}, last : Nat, left : Int, size : Nat, gone : Seq(Nat)]
    <2>1. doing[c] \in SsoCalls /\ doing[c].method = "scan"
      BY DEF SsoInv, SsoTypeOK, CleanupRemove, Is
    <2> QED
      BY <2>1, CallShapes
  <1>2. next \in SsoCalls
    BY <1>1 DEF SsoCalls
  <1>3. \A i \in DOMAIN next.gone : next.gone[i] \in DOMAIN expires /\ cause[next.gone[i]] # "none"
    BY <1>1, GoneHaveCauses
  <1>4. Moves(c, next)
    BY <1>1, <1>3 DEF SsoInv, SsoTypeOK, CleanupRemove, Moves, Causes
  <1> HIDE DEF next
  <1> QED
    BY <1>2, <1>4, CallerMoves

-----------------------------------------------------------------------------
(* The steps that create sessions, extend them and take them away.         *)

LEMMA LoginKeeps ==
    ASSUME SsoInv, NEW c \in Callers, Login(c)
    PROVE  SsoInv'
  <1> DEFINE s == Len(expires) + 1
             i == doing[c].identity
             u == Provisioned(c)
  <1>1. doing[c] \in [method : {"login"}, identity : Identities, user : Nat]
    <2>1. doing[c] \in SsoCalls /\ doing[c].method = "login"
      BY DEF SsoInv, SsoTypeOK, Login, Is
    <2> QED
      BY <2>1, CallShapes
  <1>2. /\ i \in Identities /\ u \in Nat
        /\ users' \in Seq(Identities)
        /\ u \in DOMAIN users' /\ users'[u] = i /\ u # 0
        /\ \A v \in DOMAIN users : v \in DOMAIN users' /\ users'[v] = users[v]
        /\ \A v \in DOMAIN users' : v \in DOMAIN users \/ v = u
    <2>1. CASE doing[c].user = 0
      BY <1>1, <2>1 DEF SsoInv, SsoTypeOK, Login, Provisioned
    <2>2. CASE doing[c].user # 0
      BY <1>1, <2>2 DEF SsoInv, SsoTypeOK, UsersLinked, Login, Provisioned, Is
    <2> QED
      BY <2>1, <2>2
  <1>3. SsoTypeOK'
    <2>1. expires' \in Seq(Nat) /\ Len(expires') = s
      <3>1. Lifetime \in Nat
        BY SsoAssumption
      <3> QED
        BY <3>1 DEF SsoInv, SsoTypeOK, Login
    <2>2. account' \in Seq([user : Nat, identity : Identities]) /\ Len(account') = s
      BY <1>2 DEF SsoInv, SsoTypeOK, Login
    <2>3. cause' \in Seq(Causes) /\ Len(cause') = s
      <3>1. cause \in Seq(Causes) /\ "none" \in Causes
        BY DEF SsoInv, SsoTypeOK, Causes
      <3>2. cause' = Append(cause, "none") /\ Len(cause) = Len(expires)
        BY DEF SsoInv, SsoTypeOK, Login
      <3> QED
        BY <3>1, <3>2, AppendProperties
    <2>4. byId' \subseteq DOMAIN expires' /\ byToken' \subseteq DOMAIN expires'
      BY <2>1 DEF SsoInv, SsoTypeOK, Login
    <2>5. userOf' \in [Identities -> Nat] /\ doing' \in [Callers -> SsoCalls] /\ hour' \in Nat
      BY <1>2 DEF SsoInv, SsoTypeOK, Login, Returns, SsoCalls
    <2> QED
      BY <1>2, <2>1, <2>2, <2>3, <2>4, <2>5 DEF SsoTypeOK, Causes
  <1>4. \A d \in Callers : d # c => doing'[d] = doing[d]
    BY DEF SsoInv, SsoTypeOK, Login, Returns
  <1>5. doing'[c] = Resting
    BY DEF SsoInv, SsoTypeOK, Login, Returns
  <1>6. \A r \in DOMAIN expires : r \in DOMAIN expires' /\ r # s /\ cause'[r] = cause[r] /\ account'[r] = account[r]
    BY SMTT(30) DEF SsoInv, SsoTypeOK, Login
  <1>7. DOMAIN expires' = DOMAIN expires \union {s} /\ DOMAIN account' = DOMAIN account \union {s}
    BY SMTT(30) DEF SsoInv, SsoTypeOK, Login
  <1>8. cause'[s] = "none" /\ account'[s] = [user |-> u, identity |-> i]
    BY DEF SsoInv, SsoTypeOK, Login
  <1>9. byId' = byId \union {s} /\ byToken' = byToken \union {s}
    BY DEF Login
  <1>10. TakenForCause'
    <2> SUFFICES ASSUME NEW d \in Callers
                 PROVE  /\ \A r \in Leaving(d)' : r \in DOMAIN expires' /\ cause'[r] # "none"
                        /\ Is(d, "unindex")' => doing'[d].session \notin byToken'
      BY DEF TakenForCause
    <2>1. CASE d = c
      BY <1>5, <2>1 DEF Leaving, Is, Resting
    <2>2. CASE d # c
      <3>1. Leaving(d)' = Leaving(d)
        BY <1>4, <2>2 DEF Leaving, Is
      <3>2. Is(d, "unindex") => doing[d].session \in DOMAIN expires /\ doing[d].session \notin byToken
        BY DEF SsoInv, TakenForCause, Leaving, Is
      <3> QED
        BY <1>4, <1>6, <1>9, <2>2, <3>1, <3>2 DEF SsoInv, TakenForCause, Is
    <2> QED
      BY <2>1, <2>2
  <1>11. TablesAgree'
    <2>1. byToken' \subseteq byId'
      BY <1>9 DEF SsoInv, TablesAgree
    <2>2. \A r \in DOMAIN expires' : cause'[r] = "none" => r \in byToken'
      BY <1>6, <1>7, <1>9 DEF SsoInv, TablesAgree
    <2>3. ASSUME NEW r \in byId' \ byToken'
          PROVE  \E d \in Callers : Is(d, "unindex")' /\ doing'[d].session = r
      <3>1. PICK d \in Callers : Is(d, "unindex") /\ doing[d].session = r
        BY <1>9, <2>3 DEF SsoInv, TablesAgree
      <3> QED
        BY <1>1, <1>4, <3>1 DEF Is
    <2> QED
      BY <2>1, <2>2, <2>3 DEF TablesAgree
  <1>12. UsersLinked'
    <2>1. userOf' = [userOf EXCEPT ![i] = u] /\ userOf \in [Identities -> Nat]
      BY DEF SsoInv, SsoTypeOK, Login
    <2>2. \A j \in Identities : userOf'[j] # 0 => userOf'[j] \in DOMAIN users' /\ users'[userOf'[j]] = j
      BY <1>2, <2>1 DEF SsoInv, UsersLinked
    <2>3. \A v \in DOMAIN users' : userOf'[users'[v]] # 0
      <3>1. \A v \in DOMAIN users : users[v] \in Identities
        BY DEF SsoInv, SsoTypeOK
      <3> QED
        BY <1>2, <2>1, <3>1 DEF SsoInv, UsersLinked
    <2>4. ASSUME NEW d \in Callers, Is(d, "login")', doing'[d].user # 0
          PROVE  doing'[d].user \in DOMAIN users' /\ users'[doing'[d].user] = doing'[d].identity
      <3>1. d # c
        BY <1>5, <2>4 DEF Is, Resting
      <3> QED
        BY <1>2, <1>4, <2>4, <3>1 DEF SsoInv, UsersLinked, Is
    <2>5. ASSUME NEW r \in DOMAIN account'
          PROVE  account'[r].user \in DOMAIN users' /\ users'[account'[r].user] = account'[r].identity
      <3>1. CASE r = s
        BY <1>2, <1>8, <3>1
      <3>2. CASE r # s
        <4>1. DOMAIN account = DOMAIN expires
          BY DEF SsoInv, SsoTypeOK
        <4>2. r \in DOMAIN account /\ account'[r] = account[r]
          BY <1>6, <1>7, <3>2, <4>1
        <4> QED
          BY <1>2, <4>2 DEF SsoInv, UsersLinked
      <3> QED
        BY <3>1, <3>2
    <2> QED
      BY <2>2, <2>3, <2>4, <2>5 DEF UsersLinked
  <1> QED
    BY <1>3, <1>10, <1>11, <1>12 DEF SsoInv

LEMMA LogoutKeeps ==
    ASSUME SsoInv, NEW c \in Callers, NEW s \in byId \union byToken, Logout(c, s)
    PROVE  SsoInv'
  <1> DEFINE next == [method |-> "unindex", session |-> s, gone |-> <<>>]
  <1>1. /\ SsoTypeOK /\ s \in DOMAIN expires /\ s \in Nat
        /\ doing' = [doing EXCEPT ![c] = next] /\ doing[c] = Resting
        /\ cause' = [cause EXCEPT ![s] = "logout"] /\ "logout" \in Causes /\ byToken' = byToken \ {s}
    BY DEF SsoInv, SsoTypeOK, Logout, Starts, Causes
  <1>2. /\ cause' \in Seq(Causes) /\ Len(cause') = Len(cause)
        /\ \A r \in DOMAIN expires : cause'[r] = IF r = s THEN "logout" ELSE cause[r]
    BY <1>1, CauseGiven
  <1>3. /\ doing'[c] = next
        /\ \A d \in Callers : d # c => doing'[d] = doing[d]
    BY <1>1 DEF SsoTypeOK
  <1>4. SsoTypeOK'
    <2>1. next \in SsoCalls
      BY <1>1 DEF SsoCalls
    <2> QED
      BY <1>1, <1>2, <2>1 DEF SsoTypeOK, Logout, Causes
  <1>5. TakenForCause'
    <2> SUFFICES ASSUME NEW d \in Callers
                 PROVE  /\ \A r \in Leaving(d)' : r \in DOMAIN expires' /\ cause'[r] # "none"
                        /\ Is(d, "unindex")' => doing'[d].session \notin byToken'
      BY DEF TakenForCause
    <2>1. CASE d = c
      <3>1. Leaving(c)' = {s}
        BY <1>3 DEF Leaving, Is
      <3> QED
        BY <1>1, <1>2, <1>3, <2>1, <3>1 DEF Is, Logout
    <2>2. CASE d # c
      <3>1. Leaving(d)' = Leaving(d)
        BY <1>3, <2>2 DEF Leaving, Is
      <3> QED
        BY <1>1, <1>2, <1>3, <2>2, <3>1 DEF SsoInv, TakenForCause, Is, Logout
    <2> QED
      BY <2>1, <2>2
  <1>6. TablesAgree'
    <2>1. byToken' \subseteq byId'
      BY <1>1 DEF SsoInv, TablesAgree, Logout
    <2>2. \A r \in DOMAIN expires' : cause'[r] = "none" => r \in byToken'
      BY <1>1, <1>2 DEF SsoInv, TablesAgree, Logout
    <2>3. ASSUME NEW r \in byId' \ byToken'
          PROVE  \E d \in Callers : Is(d, "unindex")' /\ doing'[d].session = r
      <3>1. CASE r = s
        BY <1>3, <3>1 DEF Is
      <3>2. CASE r # s
        <4>1. PICK d \in Callers : Is(d, "unindex") /\ doing[d].session = r
          BY <1>1, <2>3, <3>2 DEF SsoInv, TablesAgree, Logout
        <4> QED
          BY <1>1, <1>3, <4>1 DEF Is, Resting
      <3> QED
        BY <3>1, <3>2
    <2> QED
      BY <2>1, <2>2, <2>3 DEF TablesAgree
  <1>7. UsersLinked'
    BY <1>3 DEF SsoInv, UsersLinked, Logout, Is
  <1> QED
    BY <1>4, <1>5, <1>6, <1>7 DEF SsoInv

\* A refresh takes the cause from an expired session only when nobody will remove it.
LEMMA RefreshKeeps ==
    ASSUME SsoInv, NEW s \in byId, RefreshSession(s)
    PROVE  SsoInv'
  <1>1. SsoTypeOK /\ s \in DOMAIN expires
    BY DEF SsoInv, SsoTypeOK
  <1>2. /\ cause' \in Seq(Causes) /\ Len(cause') = Len(cause)
        /\ \A r \in DOMAIN expires :
              cause'[r] = cause[r] \/ (r = s /\ s \notin Doomed)
    <2>1. CASE cause[s] = "expired" /\ s \notin Doomed
      <3>1. cause' = [cause EXCEPT ![s] = "none"] /\ "none" \in Causes
        BY <2>1 DEF RefreshSession, Causes
      <3> QED
        BY <1>1, <2>1, <3>1, CauseGiven
    <2>2. CASE ~(cause[s] = "expired" /\ s \notin Doomed)
      BY <1>1, <2>2 DEF RefreshSession, SsoTypeOK, Causes
    <2> QED
      BY <2>1, <2>2
  <1>3. \A c \in Callers : Leaving(c)' = Leaving(c) /\ Leaving(c) \subseteq Doomed
    BY DEF RefreshSession, Leaving, Is, Doomed
  <1>4. SsoTypeOK'
    <2>1. hour + Lifetime \in Nat
      BY <1>1, SsoAssumption, SMTT(30) DEF SsoTypeOK
    <2>2. expires' \in Seq(Nat) /\ Len(expires') = Len(expires)
      <3>1. expires \in Seq(Nat) /\ s \in 1 .. Len(expires) /\ expires' = [expires EXCEPT ![s] = hour + Lifetime]
        BY <1>1 DEF SsoTypeOK, RefreshSession
      <3> QED
        BY <2>1, <3>1, ExceptSeq
    <2> QED
      BY <1>1, <1>2, <2>2 DEF SsoTypeOK, RefreshSession, Causes
  <1>5. DOMAIN expires' = DOMAIN expires
    BY <1>1 DEF SsoTypeOK, RefreshSession
  <1>6. TakenForCause'
    BY <1>2, <1>3, <1>5 DEF SsoInv, TakenForCause, RefreshSession, Is
  <1>7. TablesAgree'
    <2>1. s \notin Doomed => s \in byToken
      <3> SUFFICES ASSUME s \notin byToken PROVE s \in Doomed
        OBVIOUS
      <3>1. PICK c \in Callers : Is(c, "unindex") /\ doing[c].session = s
        BY DEF SsoInv, TablesAgree
      <3>2. s \in Leaving(c)
        BY <3>1 DEF Leaving, Is
      <3> QED
        BY <3>2 DEF Doomed
    <2> QED
      BY <1>2, <1>5, <2>1 DEF SsoInv, TablesAgree, RefreshSession, Is
  <1>8. UsersLinked'
    BY <1>1 DEF SsoInv, UsersLinked, RefreshSession, Is
  <1> QED
    BY <1>4, <1>6, <1>7, <1>8 DEF SsoInv

LEMMA RemoveTokenKeeps ==
    ASSUME SsoInv, NEW c \in Callers, RemoveToken(c)
    PROVE  SsoInv'
  <1> DEFINE s == Head(doing[c].gone)
             rest == Tail(doing[c].gone)
             next == IF s \in byToken THEN [method |-> "unindex", session |-> s, gone |-> rest]
                     ELSE [method |-> "remove", gone |-> rest]
  <1>1. doing[c] \in [method : {"remove"}, gone : Seq(Nat)] /\ doing[c].gone # <<>>
    <2>1. doing[c] \in SsoCalls /\ doing[c].method = "remove"
      BY DEF SsoInv, SsoTypeOK, RemoveToken, Is
    <2> QED
      BY <2>1, CallShapes DEF RemoveToken
  <1>2. rest \in Seq(Nat) /\ \A k \in DOMAIN rest : k + 1 \in DOMAIN doing[c].gone /\ rest[k] = doing[c].gone[k + 1]
    BY <1>1
  <1>3. \A k \in DOMAIN doing[c].gone :
            doing[c].gone[k] \in DOMAIN expires /\ cause[doing[c].gone[k]] # "none"
    BY <1>1, GoneHaveCauses
  <1>4. 1 \in DOMAIN doing[c].gone /\ s = doing[c].gone[1] /\ s \in Nat
    BY <1>1
  <1>5. s \in DOMAIN expires /\ cause[s] # "none"
    BY <1>3, <1>4
  <1>6. \A k \in DOMAIN rest : rest[k] \in DOMAIN expires /\ cause[rest[k]] # "none"
    BY <1>2, <1>3
  <1>7. doing' = [doing EXCEPT ![c] = next] /\ byToken' = byToken \ {s}
    BY DEF RemoveToken
  <1>8. next \in SsoCalls
    <2>1. CASE s \in byToken
      BY <1>2, <1>4, <2>1 DEF SsoCalls
    <2>2. CASE s \notin byToken
      BY <1>2, <2>2 DEF SsoCalls
    <2> QED
      BY <2>1, <2>2
  <1>9. doing'[c] = next /\ \A d \in Callers : d # c => doing'[d] = doing[d]
    BY <1>7 DEF SsoInv, SsoTypeOK
  <1>10. SsoTypeOK'
    BY <1>7, <1>8 DEF SsoInv, SsoTypeOK, RemoveToken
  <1>11. /\ next.method \in {"remove", "unindex"}
         /\ next.method = "unindex" <=> s \in byToken
         /\ s \in byToken => next.session = s
         /\ next.gone = rest
    OBVIOUS
  <1> HIDE DEF next, rest, s
  <1>12. TakenForCause'
    <2> SUFFICES ASSUME NEW d \in Callers
                 PROVE  /\ \A r \in Leaving(d)' : r \in DOMAIN expires' /\ cause'[r] # "none"
                        /\ Is(d, "unindex")' => doing'[d].session \notin byToken'
      BY DEF TakenForCause
    <2>1. CASE d = c
      <3>1. Leaving(c)' \subseteq {rest[k] : k \in DOMAIN rest} \union {s}
        BY <1>9, <1>11 DEF Leaving, Is
      <3> QED
        BY <1>5, <1>6, <1>7, <1>9, <1>11, <2>1, <3>1 DEF Is, RemoveToken
    <2>2. CASE d # c
      <3>1. Leaving(d)' = Leaving(d)
        BY <1>9, <2>2 DEF Leaving, Is
      <3> QED
        BY <1>7, <1>9, <2>2, <3>1 DEF SsoInv, TakenForCause, Is, RemoveToken
    <2> QED
      BY <2>1, <2>2
  <1>13. TablesAgree'
    <2>1. byToken' \subseteq byId'
      BY <1>7 DEF SsoInv, TablesAgree, RemoveToken
    <2>2. \A r \in DOMAIN expires' : cause'[r] = "none" => r \in byToken'
      BY <1>5, <1>7 DEF SsoInv, TablesAgree, RemoveToken
    <2>3. ASSUME NEW r \in byId' \ byToken'
          PROVE  \E d \in Callers : Is(d, "unindex")' /\ doing'[d].session = r
      <3>1. CASE r \in byToken
        <4>1. r = s
          BY <1>7, <2>3, <3>1
        <4> QED
          BY <1>9, <1>11, <3>1, <4>1 DEF Is
      <3>2. CASE r \notin byToken
        <4>1. PICK d \in Callers : Is(d, "unindex") /\ doing[d].session = r
          BY <2>3, <3>2 DEF SsoInv, TablesAgree, RemoveToken
        <4> QED
          BY <1>1, <1>9, <4>1 DEF Is
      <3> QED
        BY <3>1, <3>2
    <2> QED
      BY <2>1, <2>2, <2>3 DEF TablesAgree
  <1>14. UsersLinked'
    BY <1>9, <1>11 DEF SsoInv, UsersLinked, RemoveToken, Is
  <1> QED
    BY <1>10, <1>12, <1>13, <1>14 DEF SsoInv

LEMMA RemoveIdKeeps ==
    ASSUME SsoInv, NEW c \in Callers, RemoveId(c)
    PROVE  SsoInv'
  <1> DEFINE s == doing[c].session
             next == [method |-> "remove", gone |-> doing[c].gone]
  <1>1. doing[c] \in [method : {"unindex"}, session : Nat, gone : Seq(Nat)]
    <2>1. doing[c] \in SsoCalls /\ doing[c].method = "unindex"
      BY DEF SsoInv, SsoTypeOK, RemoveId, Is
    <2> QED
      BY <2>1, CallShapes
  <1>2. next \in SsoCalls
    BY <1>1 DEF SsoCalls
  <1>3. doing' = [doing EXCEPT ![c] = next] /\ byId' = byId \ {s}
    BY DEF RemoveId
  <1>4. doing'[c] = next /\ \A d \in Callers : d # c => doing'[d] = doing[d]
    BY <1>3 DEF SsoInv, SsoTypeOK
  <1>5. s \notin byToken /\ cause[s] # "none"
    BY <1>1 DEF SsoInv, TakenForCause, Leaving, Is
  <1>6. SsoTypeOK'
    BY <1>2, <1>3 DEF SsoInv, SsoTypeOK, RemoveId
  <1>7. TakenForCause'
    <2>1. \A d \in Callers : Leaving(d)' \subseteq Leaving(d)
      BY <1>1, <1>4 DEF Leaving, Is
    <2> QED
      BY <1>4, <2>1 DEF SsoInv, TakenForCause, RemoveId, Is
  <1>8. TablesAgree'
    <2>1. byToken' \subseteq byId' /\ \A r \in DOMAIN expires' : cause'[r] = "none" => r \in byToken'
      BY <1>3, <1>5 DEF SsoInv, TablesAgree, RemoveId
    <2>2. ASSUME NEW r \in byId' \ byToken'
          PROVE  \E d \in Callers : Is(d, "unindex")' /\ doing'[d].session = r
      <3>1. PICK d \in Callers : Is(d, "unindex") /\ doing[d].session = r
        BY <1>3, <2>2 DEF SsoInv, TablesAgree, RemoveId
      <3>2. d # c
        BY <1>3, <2>2, <3>1
      <3> QED
        BY <1>4, <3>1, <3>2 DEF Is
    <2> QED
      BY <2>1, <2>2 DEF TablesAgree
  <1>9. UsersLinked'
    BY <1>4 DEF SsoInv, UsersLinked, RemoveId, Is
  <1> QED
    BY <1>6, <1>7, <1>8, <1>9 DEF SsoInv

-----------------------------------------------------------------------------
LEMMA StepKeeps == SsoInv /\ [SsoNext]_ssoVars => SsoInv'
  <1> SUFFICES ASSUME SsoInv, [SsoNext]_ssoVars PROVE SsoInv'
    OBVIOUS
  <1>1. CASE UNCHANGED ssoVars
    BY <1>1 DEF ssoVars, SsoInv, SsoTypeOK, TakenForCause, TablesAgree, UsersLinked, Leaving, Is
  <1>2. CASE HourPasses
    BY <1>2 DEF HourPasses, SsoInv, SsoTypeOK, TakenForCause, TablesAgree, UsersLinked, Leaving, Is
  <1>3. CASE \E s \in byId : RefreshSession(s)
    BY <1>3, RefreshKeeps
  <1>4. ASSUME NEW c \in Callers, Login(c) PROVE SsoInv'
    BY <1>4, LoginKeeps
  <1>5. ASSUME NEW c \in Callers,
               CleanupStart(c) \/ CleanupLook(c) \/ CleanupRaises(c) \/ CleanupRemove(c)
        PROVE  SsoInv'
    BY <1>5, CleanupStartKeeps, CleanupLookKeeps, ReturnKeeps, CleanupRemoveKeeps
  <1>6. ASSUME NEW c \in Callers, RemoveToken(c) \/ RemoveId(c) \/ RemoveDone(c)
        PROVE  SsoInv'
    BY <1>6, RemoveTokenKeeps, RemoveIdKeeps, ReturnKeeps
  <1>7. ASSUME NEW c \in Callers, \E i \in Identities : Authenticate(c, i)
        PROVE  SsoInv'
    BY <1>7, AuthenticateKeeps
  <1>8. ASSUME NEW c \in Callers, \E s \in byId \union byToken : Logout(c, s) \/ FindExpired(c, s)
        PROVE  SsoInv'
    BY <1>8, LogoutKeeps, FindExpiredKeeps
  <1> QED
    BY <1>1, <1>2, <1>3, <1>4, <1>5, <1>6, <1>7, <1>8 DEF SsoNext

LEMMA InvariantSuffices == SsoInv => SessionsAccounted
  <1> SUFFICES ASSUME SsoInv, NEW s \in DOMAIN expires
               PROVE  /\ cause[s] = "none" => s \in byId /\ s \in byToken
                      /\ s \in byToken => s \in byId
                      /\ s \in byId \ byToken => \E c \in Callers : Is(c, "unindex") /\ doing[c].session = s
                      /\ account[s].user \in DOMAIN users
                      /\ users[account[s].user] = account[s].identity
                      /\ (\A u \in DOMAIN users : users[u] = account[s].identity => u = account[s].user)
                            => userOf[account[s].identity] = account[s].user
    BY DEF SessionsAccounted
  <1>1. s \in DOMAIN account /\ account[s].identity \in Identities
    <2>1. account \in Seq([user : Nat, identity : Identities])
      BY DEF SsoInv, SsoTypeOK
    <2>2. s \in 1 .. Len(account) /\ DOMAIN account = 1 .. Len(account)
      BY <2>1 DEF SsoInv, SsoTypeOK
    <2>3. account[s] \in [user : Nat, identity : Identities]
      BY <2>1, <2>2, ElementOfSeq
    <2> QED
      BY <2>2, <2>3
  <1>2. account[s].user \in DOMAIN users /\ users[account[s].user] = account[s].identity
    BY <1>1 DEF SsoInv, UsersLinked
  <1>3. /\ userOf[account[s].identity] # 0
        /\ userOf[account[s].identity] \in DOMAIN users
        /\ users[userOf[account[s].identity]] = account[s].identity
    BY <1>1, <1>2 DEF SsoInv, UsersLinked
  <1> QED
    BY <1>2, <1>3 DEF SsoInv, TablesAgree

\* In every reachable state the two tables of sessions agree, and a session belongs to
\* the user of the identity that was asserted, whatever logins, lookups, cleanups,
\* refreshes and logouts overlap.
THEOREM SessionsAreAccounted == SsoSpec => []SessionsAccounted
  <1>1. SsoInv /\ [SsoNext]_ssoVars => SsoInv'
    BY StepKeeps
  <1> QED
    BY InitHolds, InvariantSuffices, <1>1, PTL DEF SsoSpec

-----------------------------------------------------------------------------
(***************************************************************************)
(* The gate of the API: types.                                             *)
(***************************************************************************)
GateTypeOK ==
    /\ request \in [Threads -> ServedRequests \union {Nobody}]
    /\ config \in Configs
    /\ tokens \in [Keys -> Int] /\ now \in Nat /\ served \in Nat
    /\ events \in Seq(Nat) /\ logged \in Seq(Nat)

\* The limits are numbers, and stay the same while the configuration does.
LEMMA LimitsAreNumbers ==
    ASSUME config \in Configs
    PROVE  PerMinute \in Nat /\ PerHour \in Nat /\ BurstSize \in Nat
BY LimitsAssumption DEF PerMinute, PerHour, BurstSize

LEMMA LimitsKept ==
    ASSUME config' = config
    PROVE  PerMinute' = PerMinute /\ PerHour' = PerHour /\ BurstSize' = BurstSize
BY DEF PerMinute, PerHour, BurstSize

Trimming == {h \in Threads : At(h, "trim")}

\* The events kept are the last of those logged, one by one.
Kept ==
    /\ Len(events) <= Len(logged)
    /\ \A i \in 1..Len(events) : events[i] = logged[Len(logged) - Len(events) + i]
    /\ MaxEvents = 0 => Len(events) = Len(logged)
    /\ MaxEvents > 0 /\ Len(events) < Len(logged) => Len(events) >= MaxEvents
    /\ MaxEvents > 0 => Len(events) <= MaxEvents + Cardinality(Trimming)

GateInv == GateTypeOK /\ Kept

LEMMA TrimmingFinite == IsFiniteSet(Trimming) /\ Cardinality(Trimming) \in Nat
<1>1. IsFiniteSet(Threads) /\ Trimming \subseteq Threads
  BY GateAssumption DEF Trimming
<1>2. IsFiniteSet(Trimming)
  BY <1>1, FS_Subset
<1> QED
  BY <1>2, FS_CardinalityType

\* The steps outside the log.
Elsewhere(h) ==
    \/ DenyBurst(h) \/ TakeToken(h) \/ DenyWindow(h) \/ CheckWindows(h) \/ Record(h)
    \/ HandleOther(h)
    \/ \E k \in Keys : Accept(h, k) \/ CreateKey(h, k) \/ RevokeKey(h, k)
    \/ \E ks \in {{k} : k \in Keys} \union {Keys} : ResetRateLimit(h, ks)

LEMMA ElsewhereFacts ==
    ASSUME GateTypeOK, NEW h \in Threads, Elsewhere(h)
    PROVE  GateTypeOK' /\ UNCHANGED <<events, logged>> /\ Trimming' = Trimming
<1>1. UNCHANGED <<events, logged>>
  BY DEF Elsewhere, DenyBurst, TakeToken, DenyWindow, CheckWindows, Record, HandleOther, Accept,
     CreateKey, RevokeKey, ResetRateLimit
<1>2. config' \in Configs /\ tokens' \in [Keys -> Int] /\ now' \in Nat /\ served' \in Nat
  <2>1. CASE DenyBurst(h) \/ DenyWindow(h) \/ CheckWindows(h) \/ HandleOther(h)
    BY <2>1 DEF GateTypeOK, DenyBurst, DenyWindow, CheckWindows, HandleOther, limiterVars
  <2>2. CASE TakeToken(h)
    BY <2>2 DEF GateTypeOK, TakeToken, SpendToken, At, ServedRequests
  <2>3. CASE Record(h)
    BY <2>3 DEF GateTypeOK, Record, RecordRequest
  <2>4. CASE \E k \in Keys : Accept(h, k) \/ CreateKey(h, k) \/ RevokeKey(h, k)
    BY <2>4 DEF GateTypeOK, Accept, CreateKey, RevokeKey, limiterVars
  <2>5. CASE \E ks \in {{k} : k \in Keys} \union {Keys} : ResetRateLimit(h, ks)
    BY <2>5, LimitsAreNumbers DEF GateTypeOK, ResetRateLimit, ResetLimits
  <2> QED
    BY <2>1, <2>2, <2>3, <2>4, <2>5 DEF Elsewhere
<1>3. /\ request' \in [Threads -> ServedRequests \union {Nobody}]
      /\ \A g \in Threads : At(g, "trim")' <=> At(g, "trim")
  <2>1. CASE DenyBurst(h) \/ DenyWindow(h) \/ HandleOther(h)
            \/ \E k \in Keys : CreateKey(h, k) \/ RevokeKey(h, k)
    <3>1. request' = [request EXCEPT ![h] = Nobody] /\ ~At(h, "trim")
      BY <2>1 DEF DenyBurst, DenyWindow, HandleOther, CreateKey, RevokeKey, Admitted, At, Done
    <3> QED
      BY <3>1 DEF GateTypeOK, At
  <2>2. CASE TakeToken(h) \/ CheckWindows(h) \/ Record(h)
    <3>1. PICK s \in {"windows", "record", "audit"} : request' = [request EXCEPT ![h].stage = s]
      BY <2>2 DEF TakeToken, CheckWindows, Record, Go
    <3>2. request[h] \in ServedRequests /\ ~At(h, "trim")
      BY <2>2 DEF TakeToken, CheckWindows, Record, At, GateTypeOK
    <3>3. request'[h] = [request[h] EXCEPT !.stage = s]
      BY <3>1 DEF GateTypeOK
    <3>4. request'[h] \in ServedRequests /\ request'[h].stage = s
      BY <3>2, <3>3 DEF ServedRequests
    <3> QED
      BY <3>1, <3>2, <3>4 DEF GateTypeOK, At
  <2>3. CASE \E k \in Keys : Accept(h, k)
    <3>1. PICK k \in Keys : Accept(h, k)
      BY <2>3
    <3>2. ASSUME NEW g \in Threads
          PROVE  /\ request'[g] \in ServedRequests \union {Nobody}
                 /\ At(g, "trim")' <=> At(g, "trim")
      <4>1. CASE g = h
        <5>1. request'[g] = [stage |-> "bucket", id |-> served + 1, key |-> k, since |-> now,
                             read |-> tokens[k], alone |-> Beside(h, k) = {}]
          BY <3>1, <4>1 DEF Accept
        <5>2. request'[g] \in ServedRequests /\ request'[g].stage = "bucket"
          BY <5>1 DEF GateTypeOK, ServedRequests
        <5>3. request[g] = Nobody
          BY <3>1, <4>1 DEF Accept
        <5> QED
          BY <5>2, <5>3 DEF At
      <4>2. CASE g # h /\ g \in Beside(h, k)
        <5>1. request'[g] = [request[g] EXCEPT !.alone = FALSE] /\ request[g] \in ServedRequests
          BY <3>1, <4>2 DEF Accept, Beside, GateTypeOK
        <5>2. request'[g] \in ServedRequests /\ request'[g].stage = request[g].stage
          BY <5>1 DEF ServedRequests
        <5> QED
          BY <5>1, <5>2, NobodyAssumption DEF At
      <4>3. CASE g # h /\ g \notin Beside(h, k)
        BY <3>1, <4>3 DEF Accept, GateTypeOK, At
      <4> QED
        BY <4>1, <4>2, <4>3
    <3> QED
      BY <3>1, <3>2 DEF Accept
  <2>4. CASE \E ks \in {{k} : k \in Keys} \union {Keys} : ResetRateLimit(h, ks)
    <3>1. PICK ks : ResetRateLimit(h, ks)
      BY <2>4
    <3>2. ASSUME NEW g \in Threads
          PROVE  /\ request'[g] \in ServedRequests \union {Nobody}
                 /\ At(g, "trim")' <=> At(g, "trim")
      <4>1. CASE g = h
        BY <3>1, <4>1 DEF ResetRateLimit, Admitted, At
      <4>2. CASE g # h /\ request[g] # Nobody /\ request[g].key \in ks
        <5>1. request'[g] = [request[g] EXCEPT !.alone = FALSE] /\ request[g] \in ServedRequests
          BY <3>1, <4>2 DEF ResetRateLimit, GateTypeOK
        <5>2. request'[g] \in ServedRequests /\ request'[g].stage = request[g].stage
          BY <5>1 DEF ServedRequests
        <5> QED
          BY <5>1, <5>2, NobodyAssumption DEF At
      <4>3. CASE g # h /\ ~(request[g] # Nobody /\ request[g].key \in ks)
        BY <3>1, <4>3 DEF ResetRateLimit, GateTypeOK, At
      <4> QED
        BY <4>1, <4>2, <4>3
    <3> QED
      BY <3>1, <3>2 DEF ResetRateLimit
  <2> QED
    BY <2>1, <2>2, <2>3, <2>4 DEF Elsewhere
<1> QED
  BY <1>1, <1>2, <1>3 DEF GateTypeOK, Trimming

\* A step of one thread to another stage of its request.
LEMMA GoFacts ==
    ASSUME GateTypeOK, NEW h \in Threads, request[h] # Nobody,
           NEW s \in {"trim", "handle"}, Go(h, s)
    PROVE  /\ request' \in [Threads -> ServedRequests \union {Nobody}]
           /\ Trimming' = IF s = "trim" THEN Trimming \union {h} ELSE Trimming \ {h}
<1>1. request[h] \in ServedRequests /\ request'[h] = [request[h] EXCEPT !.stage = s]
  BY DEF GateTypeOK, Go
<1>2. request'[h] \in ServedRequests /\ request'[h].stage = s
  BY <1>1 DEF ServedRequests
<1>3. /\ request' \in [Threads -> ServedRequests \union {Nobody}]
      /\ \A g \in Threads \ {h} : request'[g] = request[g]
  BY <1>2 DEF GateTypeOK, Go
<1>4. request'[h] # Nobody
  BY <1>2, NobodyAssumption
<1>5. \A g \in Threads : At(g, "trim")' <=> IF g = h THEN s = "trim" ELSE At(g, "trim")
  BY <1>2, <1>3, <1>4 DEF At
<1> QED
  BY <1>3, <1>5 DEF Trimming

LEMMA LogAppendKeeps ==
    ASSUME GateInv, NEW h \in Threads, LogAppend(h)
    PROVE  GateInv'
<1>1. /\ request[h] \in ServedRequests /\ request[h].id \in Nat /\ Go(h, "trim")
      /\ h \notin Trimming /\ UNCHANGED <<tokens, now, served>>
  BY DEF GateInv, GateTypeOK, LogAppend, At, ServedRequests, Trimming, limiterVars
<1>2. /\ events' = Append(events, request[h].id) /\ logged' = Append(logged, request[h].id)
      /\ events \in Seq(Nat) /\ logged \in Seq(Nat)
  BY DEF LogAppend, GateInv, GateTypeOK
<1>3. /\ events' \in Seq(Nat) /\ logged' \in Seq(Nat)
      /\ Len(events') = Len(events) + 1 /\ Len(logged') = Len(logged) + 1
      /\ \A i \in 1..Len(events) : events'[i] = events[i]
      /\ \A i \in 1..Len(logged) : logged'[i] = logged[i]
      /\ events'[Len(events) + 1] = request[h].id /\ logged'[Len(logged) + 1] = request[h].id
  BY <1>1, <1>2
<1>4. Trimming' = Trimming \union {h}
      /\ request' \in [Threads -> ServedRequests \union {Nobody}]
  BY <1>1, GoFacts, NobodyAssumption DEF GateInv
<1>5. Cardinality(Trimming') = Cardinality(Trimming) + 1 /\ Cardinality(Trimming) \in Nat
  BY <1>1, <1>4, TrimmingFinite, FS_AddElement
<1>6. Len(events) \in Nat /\ Len(logged) \in Nat /\ MaxEvents \in Nat
  BY <1>2, GateAssumption
<1>7. Len(events') <= Len(logged') /\ Len(events) <= Len(logged)
  BY <1>3, <1>6 DEF GateInv, Kept
<1>8. ASSUME NEW i \in 1..Len(events')
      PROVE  events'[i] = logged'[Len(logged') - Len(events') + i]
  <2>1. Len(logged') - Len(events') + i = Len(logged) - Len(events) + i /\ i \in Nat
    BY <1>3, <1>6
  <2>2. CASE i = Len(events) + 1
    BY <1>3, <1>6, <2>1, <2>2
  <2>3. CASE i # Len(events) + 1
    <3>1. i \in 1..Len(events) /\ Len(logged) - Len(events) + i \in 1..Len(logged)
      BY <1>3, <1>6, <1>7, <2>1, <2>3, SMTT(30)
    <3> QED
      BY <1>3, <2>1, <3>1 DEF GateInv, Kept
  <2> QED
    BY <2>2, <2>3
<1>9. /\ MaxEvents = 0 => Len(events') = Len(logged')
      /\ MaxEvents > 0 /\ Len(events') < Len(logged') => Len(events') >= MaxEvents
      /\ MaxEvents > 0 => Len(events') <= MaxEvents + Cardinality(Trimming')
  <2>1. /\ MaxEvents = 0 => Len(events) = Len(logged)
        /\ MaxEvents > 0 /\ Len(events) < Len(logged) => Len(events) >= MaxEvents
        /\ MaxEvents > 0 => Len(events) <= MaxEvents + Cardinality(Trimming)
    BY DEF GateInv, Kept
  <2>2. MaxEvents = 0 => Len(events') = Len(logged')
    BY <1>3, <2>1
  <2>3. MaxEvents > 0 /\ Len(events') < Len(logged') => Len(events') >= MaxEvents
    BY <1>3, <1>6, <2>1
  <2>4. MaxEvents > 0 => Len(events') <= MaxEvents + Cardinality(Trimming')
    BY <1>3, <1>5, <1>6, <2>1
  <2> QED
    BY <2>2, <2>3, <2>4
<1>10. GateTypeOK'
  <2>1. config' \in Configs
    BY DEF GateInv, GateTypeOK, LogAppend, limiterVars
  <2> QED
    BY <1>1, <1>3, <1>4, <2>1 DEF GateInv, GateTypeOK
<1> QED
  BY <1>7, <1>8, <1>9, <1>10 DEF GateInv, Kept

LEMMA LogTrimKeeps ==
    ASSUME GateInv, NEW h \in Threads, LogTrim(h)
    PROVE  GateInv'
<1>0. config' \in Configs
  BY DEF GateInv, GateTypeOK, LogTrim, limiterVars
<1>1. /\ request[h] # Nobody /\ Go(h, "handle") /\ h \in Trimming
      /\ UNCHANGED <<tokens, now, served, logged>>
  BY DEF LogTrim, At, Trimming, limiterVars
<1>2. Trimming' = Trimming \ {h}
      /\ request' \in [Threads -> ServedRequests \union {Nobody}]
  BY <1>1, GoFacts DEF GateInv
<1>3. Cardinality(Trimming') \in Nat
  BY <1>2, TrimmingFinite, FS_RemoveElement, FS_CardinalityType
<1>4. /\ events \in Seq(Nat) /\ logged \in Seq(Nat)
      /\ Len(events) \in Nat /\ Len(logged) \in Nat /\ MaxEvents \in Nat
      /\ Len(events) <= Len(logged)
  BY GateAssumption DEF GateInv, GateTypeOK, Kept
<1>5. CASE MaxEvents > 0 /\ Len(events) > MaxEvents
  <2>1. events' = SubSeq(events, Len(events) - MaxEvents + 1, Len(events))
    BY <1>5 DEF LogTrim
  <2>2. /\ events' \in Seq(Nat) /\ Len(events') = MaxEvents
        /\ \A i \in 1..MaxEvents : events'[i] = events[Len(events) - MaxEvents + i]
    <3> DEFINE m == Len(events) - MaxEvents + 1
    <3>1. m \in Int /\ Len(events) \in Int /\ \A i \in m..Len(events) : events[i] \in Nat
      BY <1>4, <1>5, SMTT(30)
    <3>2. m <= Len(events) /\ Len(events) - m + 1 = MaxEvents
      BY <1>4, <1>5
    <3> HIDE DEF m
    <3>3. /\ SubSeq(events, m, Len(events)) \in Seq(Nat)
          /\ Len(SubSeq(events, m, Len(events))) = MaxEvents
          /\ \A i \in 1..MaxEvents : SubSeq(events, m, Len(events))[i] = events[m + i - 1]
      BY <3>1, <3>2, SubSeqProperties
    <3>4. \A i \in 1..MaxEvents : m + i - 1 = Len(events) - MaxEvents + i
      BY <1>4 DEF m
    <3> QED
      BY <2>1, <3>3, <3>4 DEF m
  <2>3. ASSUME NEW i \in 1..MaxEvents
        PROVE  events'[i] = logged[Len(logged) - MaxEvents + i]
    <3>1. Len(events) - MaxEvents + i \in 1..Len(events)
      BY <1>4, <1>5
    <3>2. events[Len(events) - MaxEvents + i] =
             logged[Len(logged) - Len(events) + (Len(events) - MaxEvents + i)]
      BY <3>1 DEF GateInv, Kept
    <3>3. Len(logged) - Len(events) + (Len(events) - MaxEvents + i) = Len(logged) - MaxEvents + i
      BY <1>4
    <3> QED
      BY <2>2, <3>2, <3>3
  <2>4. Kept'
    BY <1>1, <1>3, <1>4, <1>5, <2>2, <2>3, SMTT(30) DEF Kept
  <2> QED
    BY <1>0, <1>1, <1>2, <2>2, <2>4 DEF GateInv, GateTypeOK
<1>6. CASE ~(MaxEvents > 0 /\ Len(events) > MaxEvents)
  <2>1. events' = events
    BY <1>6 DEF LogTrim
  <2>2. Kept'
    BY <1>1, <1>3, <1>4, <1>6, <2>1 DEF GateInv, Kept
  <2> QED
    BY <1>0, <1>1, <1>2, <2>1, <2>2 DEF GateInv, GateTypeOK
<1> QED
  BY <1>5, <1>6

LEMMA GateInvariance == GateSpec => []GateInv
<1>1. GateInit => GateInv
  <2> SUFFICES ASSUME GateInit PROVE GateInv
    OBVIOUS
  <2>1. GateTypeOK
    BY LimitsAreNumbers DEF GateInit, LimiterInit, GateTypeOK
  <2>2. Len(events) = 0 /\ Len(logged) = 0
    BY DEF GateInit
  <2>3. Kept
    BY <2>2, TrimmingFinite, GateAssumption DEF Kept
  <2> QED
    BY <2>1, <2>3 DEF GateInv
<1>2. GateInv /\ [GateNext]_gateVars => GateInv'
  <2>1. ASSUME GateInv, NEW h \in Threads, Elsewhere(h)
        PROVE  GateInv'
    BY <2>1, ElsewhereFacts DEF GateInv, Kept
  <2>2. ASSUME GateInv, Time \/ UNCHANGED gateVars
        PROVE  GateInv'
    <3>1. /\ UNCHANGED <<config, request, tokens, served, events, logged>> /\ now' \in Nat
      BY <2>2 DEF Time, Tick, gateVars, limiterVars, GateInv, GateTypeOK
    <3>2. Trimming' = Trimming
      BY <3>1 DEF Trimming, At
    <3> QED
      BY <2>2, <3>1, <3>2 DEF GateInv, GateTypeOK, Kept
  <2> QED
    BY <2>1, <2>2, LogAppendKeeps, LogTrimKeeps DEF GateNext, Serve, Elsewhere
<1> QED
  BY <1>1, <1>2, PTL DEF GateSpec

\* However the threads of the API append to and trim the audit log (AuditLogger.log),
\* it is an unbroken end of what was logged, as long as max_events asks for.
THEOREM AuditIsUnbroken == GateSpec => []AuditKeepsNewest
<1>1. GateInv => AuditKeepsNewest
  <2> SUFFICES ASSUME GateInv PROVE AuditKeepsNewest
    OBVIOUS
  <2> DEFINE lost == Len(logged) - Len(events)
             end == SubSeq(logged, lost + 1, Len(logged))
  <2>1. /\ events \in Seq(Nat) /\ logged \in Seq(Nat)
        /\ Len(events) \in Nat /\ Len(logged) \in Nat /\ MaxEvents \in Nat
        /\ lost \in Nat
    BY GateAssumption DEF GateInv, GateTypeOK, Kept
  <2>2. /\ end \in Seq(Nat) /\ Len(end) = Len(events)
        /\ \A i \in 1..Len(events) : end[i] = logged[lost + i]
    <3>1. \A i \in (lost + 1)..Len(logged) : logged[i] \in Nat
      BY <2>1
    <3>2. /\ SubSeq(logged, lost + 1, Len(logged)) \in Seq(Nat)
          /\ Len(SubSeq(logged, lost + 1, Len(logged))) =
                IF lost + 1 <= Len(logged) THEN Len(logged) - (lost + 1) + 1 ELSE 0
          /\ \A i \in 1..(Len(logged) - (lost + 1) + 1) :
                SubSeq(logged, lost + 1, Len(logged))[i] = logged[lost + 1 + i - 1]
      BY <2>1, <3>1, SubSeqProperties, SMTT(30)
    <3>3. Len(logged) - (lost + 1) + 1 = Len(events)
          /\ \A i \in 1..Len(events) : lost + 1 + i - 1 = lost + i
      BY <2>1
    <3> QED
      BY <2>1, <3>2, <3>3
  <2>3. events = end
    BY <2>1, <2>2, SeqEqual DEF GateInv, Kept
  <2>4. /\ MaxEvents = 0 => lost = 0
        /\ MaxEvents > 0 /\ lost > 0 => Len(events) >= MaxEvents
        /\ MaxEvents > 0 => Len(events) <= MaxEvents + Cardinality(Trimming)
    BY <2>1 DEF GateInv, Kept
  <2> QED
    BY <2>1, <2>3, <2>4 DEF AuditKeepsNewest, Trimming
<1> QED
  BY <1>1, GateInvariance, PTL

-----------------------------------------------------------------------------
(* The limits.  A request that meets no other of its key finds everything  *)
(* granted before it that its windows still reach among the recorded       *)
(* requests, and has paid for its grant with a token.                      *)

RecordedRequests == [id : Nat, at : Nat]

LimitTypeOK ==
    /\ minuteRequests \in [Keys -> SUBSET RecordedRequests]
    /\ hourRequests \in [Keys -> SUBSET RecordedRequests]
    /\ granted \in [Keys -> SUBSET RecordedRequests]
    /\ \A k \in Keys : /\ IsFiniteSet(minuteRequests[k]) /\ IsFiniteSet(hourRequests[k])
                       /\ IsFiniteSet(granted[k])

Serving(h, k) == request[h] # Nobody /\ request[h].key = k

Alone(h, k) == Serving(h, k) /\ request[h].alone

\* A request that is alone is the only one of its key.
Lone ==
    \A k \in Keys : \A h, g \in Threads : Alone(h, k) /\ Serving(g, k) => h = g

\* Nothing was granted after now, nor after an undisturbed request began.
Past ==
    /\ \A h \in Threads : request[h] # Nobody => request[h].since <= now
    /\ \A k \in Keys : \A q \in granted[k] :
          q.at <= now /\ \A h \in Threads : Alone(h, k) => q.at <= request[h].since

\* Every grant was paid for: what was granted and what may still be spent fit in the bucket.
Paid ==
    \A k \in Keys :
        /\ tokens[k] >= 0 /\ Cardinality(granted[k]) + tokens[k] <= BurstSize
        /\ \A h \in Threads : Serving(h, k) =>
              /\ request[h].stage = "bucket" => Cardinality(granted[k]) + request[h].read <= BurstSize
              /\ request[h].alone /\ request[h].stage \in {"windows", "record"} =>
                    Cardinality(granted[k]) + tokens[k] + 1 <= BurstSize

Inside(requests, t, window) == {q \in requests : q.at > t - window /\ q.at <= t}

\* What the list of a window tells of the requests granted to k.
Tracks(k, recorded, window, limit) ==
    /\ \A q \in granted[k] \ recorded :
          /\ q.at <= now - window
          /\ \A h \in Threads : Alone(h, k) => q.at <= request[h].since - window
    /\ \A q \in granted[k] : Cardinality(Inside(granted[k], q.at, window)) <= limit
    /\ \A h \in Threads : Alone(h, k) /\ request[h].stage = "record" =>
          WindowAllows(recorded, request[h].since, window, limit)

LimitInv ==
    /\ LimitTypeOK /\ Lone /\ Past /\ Paid
    /\ \A k \in Keys : /\ Tracks(k, minuteRequests[k], Minute, PerMinute)
                       /\ Tracks(k, hourRequests[k], Hour, PerHour)

\* Granting n keeps the limit in every window that ends at a granted request.
LEMMA GrantWithinWindow ==
    ASSUME NEW G, G \subseteq RecordedRequests, IsFiniteSet(G),
           NEW R, R \subseteq RecordedRequests, IsFiniteSet(R),
           NEW n \in RecordedRequests, NEW window \in Nat, NEW limit \in Nat,
           \A q \in G : q.at <= n.at,
           \A q \in G \ R : q.at <= n.at - window,
           WindowAllows(R, n.at, window, limit),
           \A q \in G : Cardinality(Inside(G, q.at, window)) <= limit
    PROVE  \A q \in G \union {n} : Cardinality(Inside(G \union {n}, q.at, window)) <= limit
<1>1. /\ IsFiniteSet(Recent(R, n.at, window)) /\ Cardinality(Recent(R, n.at, window)) \in Nat
      /\ Cardinality(Recent(R, n.at, window)) < limit
  <2>1. Recent(R, n.at, window) \in SUBSET R
    BY DEF Recent
  <2>2. IsFiniteSet(Recent(R, n.at, window))
    BY <2>1, FS_Subset
  <2> QED
    BY <2>2, FS_CardinalityType DEF WindowAllows
<1>2. Cardinality(Inside(G \union {n}, n.at, window)) <= limit
  <2>1. Inside(G \union {n}, n.at, window) \in SUBSET (Recent(R, n.at, window) \union {n})
    BY DEF Inside, Recent, RecordedRequests
  <2>2. /\ IsFiniteSet(Recent(R, n.at, window) \union {n})
        /\ Cardinality(Recent(R, n.at, window) \union {n}) \in Nat
        /\ Cardinality(Recent(R, n.at, window) \union {n}) <= Cardinality(Recent(R, n.at, window)) + 1
    <3>1. /\ IsFiniteSet(Recent(R, n.at, window) \union {n})
          /\ Cardinality(Recent(R, n.at, window) \union {n}) =
                IF n \in Recent(R, n.at, window) THEN Cardinality(Recent(R, n.at, window))
                ELSE Cardinality(Recent(R, n.at, window)) + 1
      BY <1>1, FS_AddElement, Zenon
    <3>2. Cardinality(Recent(R, n.at, window) \union {n}) \in Nat
      BY <3>1, FS_CardinalityType, Zenon
    <3> QED
      BY <1>1, <3>1, <3>2
  <2>3. /\ Cardinality(Inside(G \union {n}, n.at, window)) <= Cardinality(Recent(R, n.at, window) \union {n})
        /\ IsFiniteSet(Inside(G \union {n}, n.at, window))
    BY <2>1, <2>2, FS_Subset
  <2>4. Cardinality(Inside(G \union {n}, n.at, window)) \in Nat
    BY <2>3, FS_CardinalityType
  <2> QED
    BY <1>1, <2>2, <2>3, <2>4
<1>3. ASSUME NEW q \in G, q.at # n.at
      PROVE  Inside(G \union {n}, q.at, window) = Inside(G, q.at, window)
  <2>1. q.at \in Nat /\ n.at \in Nat /\ q.at <= n.at
    BY DEF RecordedRequests
  <2>2. ~(n.at <= q.at)
    BY <1>3, <2>1
  <2> QED
    BY <2>2 DEF Inside
<1>4. ASSUME NEW q \in G, q.at = n.at
      PROVE  Inside(G \union {n}, q.at, window) = Inside(G \union {n}, n.at, window)
  BY <1>4
<1> QED
  BY <1>2, <1>3, <1>4

\* A step that neither records nor grants keeps what a list tells.
LEMMA TracksKept ==
    ASSUME NEW k \in Keys, NEW recorded, NEW window \in Nat, NEW limit \in Nat,
           GateTypeOK, LimitTypeOK, Past, Tracks(k, recorded, window, limit),
           now' \in Nat, now' >= now, granted'[k] = granted[k],
           \A h \in Threads : Alone(h, k)' =>
              \/ /\ Alone(h, k) /\ request'[h].since = request[h].since
                 /\ request'[h].stage = "record" =>
                       \/ request[h].stage = "record"
                       \/ WindowAllows(recorded, request[h].since, window, limit)
              \/ request'[h].since = now /\ request'[h].stage = "bucket"
    PROVE  Tracks(k, recorded, window, limit)'
<1>1. ASSUME NEW q \in granted[k], q \notin recorded
      PROVE  /\ q.at <= now' - window
             /\ \A h \in Threads : Alone(h, k)' => q.at <= request'[h].since - window
  <2>1. /\ q.at <= now - window
        /\ \A h \in Threads : Alone(h, k) => q.at <= request[h].since - window
    BY <1>1 DEF Tracks
  <2>2. q.at \in Nat
    BY DEF LimitTypeOK, RecordedRequests
  <2>3. now \in Nat
    BY DEF GateTypeOK
  <2> QED
    BY <2>1, <2>2, <2>3
<1>2. \A h \in Threads : Alone(h, k)' /\ request'[h].stage = "record" =>
          WindowAllows(recorded, request'[h].since, window, limit)
  BY DEF Tracks
<1> QED
  BY <1>1, <1>2 DEF Tracks

\* Recording the request of h in a list, and granting it if it is alone.
LEMMA TracksRecorded ==
    ASSUME NEW k \in Keys, NEW recorded, NEW window \in Nat, NEW limit \in Nat,
           GateTypeOK, LimitTypeOK, Lone, Past, Tracks(k, recorded, window, limit),
           recorded \subseteq RecordedRequests, IsFiniteSet(recorded),
           NEW h \in Threads, Record(h), request[h].key = k, NEW after,
           after = Recent(recorded \union {Recorded(request[h])}, request[h].since, window)
    PROVE  Tracks(k, after, window, limit)'
<1> DEFINE n == Recorded(request[h])
<1>1. /\ request[h] \in ServedRequests /\ Serving(h, k) /\ request[h].stage = "record"
      /\ now \in Nat /\ now' = now
  BY DEF GateTypeOK, Record, RecordRequest, At, Serving
<1>2. /\ request[h].since \in Nat /\ request[h].since <= now
      /\ n \in RecordedRequests /\ n.at = request[h].since
  BY <1>1 DEF Past, Recorded, RecordedRequests, ServedRequests, Serving
<1>3. \A g \in Threads : Alone(g, k)' => Alone(g, k) /\ g = h
  <2>1. ASSUME NEW g \in Threads, Alone(g, k)' PROVE Alone(g, k) /\ g = h
    <3>1. request' = [request EXCEPT ![h].stage = "audit"]
      BY DEF Record, Go
    <3>2. CASE g = h
      <4>1. request'[g] = [request[h] EXCEPT !.stage = "audit"]
        BY <3>1, <3>2 DEF GateTypeOK
      <4>2. request'[g].alone = request[h].alone
        BY <1>1, <4>1 DEF ServedRequests
      <4> QED
        BY <1>1, <2>1, <3>2, <4>2 DEF Alone
    <3>3. CASE g # h
      <4>1. request'[g] = request[g]
        BY <3>1, <3>3 DEF GateTypeOK
      <4>2. Alone(g, k)
        BY <2>1, <4>1 DEF Alone, Serving
      <4> QED
        BY <1>1, <3>3, <4>2 DEF Lone
    <3> QED
      BY <3>2, <3>3
  <2> QED
    BY <2>1
<1>4. request'[h].since = request[h].since /\ request'[h].stage = "audit"
  <2>1. request'[h] = [request[h] EXCEPT !.stage = "audit"]
    BY DEF Record, Go, GateTypeOK
  <2> QED
    BY <1>1, <2>1 DEF ServedRequests
<1>5. granted'[k] = IF request[h].alone THEN granted[k] \union {n} ELSE granted[k]
  BY DEF Record, LimitTypeOK
<1>6. ASSUME NEW q \in granted'[k], q \notin after
      PROVE  q.at <= request[h].since - window \/ q.at <= now - window
  <2>1. q = n \/ q \in granted[k]
    BY <1>5
  <2>2. q.at \in Nat
    BY <1>2, <2>1 DEF LimitTypeOK, RecordedRequests
  <2>3. CASE q \in recorded \union {n}
    <3>1. ~(q.at > request[h].since - window)
      BY <1>6, <2>3 DEF Recent
    <3> QED
      BY <1>2, <2>2, <3>1
  <2>4. CASE q \notin recorded \union {n}
    BY <2>1, <2>4 DEF Tracks
  <2> QED
    BY <2>3, <2>4
<1>7. ASSUME NEW q \in granted'[k], q \notin after
      PROVE  /\ q.at <= now' - window
             /\ \A g \in Threads : Alone(g, k)' => q.at <= request'[g].since - window
  <2>1. q = n \/ q \in granted[k]
    BY <1>5
  <2>2. q.at \in Nat
    BY <1>2, <2>1 DEF LimitTypeOK, RecordedRequests
  <2>3. q.at <= now' - window
    <3>1. q.at <= request[h].since - window \/ q.at <= now - window
      BY <1>6, <1>7
    <3> QED
      BY <1>1, <1>2, <2>2, <3>1
  <2>4. ASSUME NEW g \in Threads, Alone(g, k)' PROVE q.at <= request'[g].since - window
    <3>1. g = h /\ Alone(h, k)
      BY <1>3, <2>4
    <3>2. CASE q \in recorded \union {n}
      <4>1. ~(q.at > request[h].since - window)
        BY <1>7, <3>2 DEF Recent
      <4> QED
        BY <1>2, <1>4, <2>2, <3>1, <4>1
    <3>3. CASE q \notin recorded \union {n}
      BY <1>4, <2>1, <3>1, <3>3 DEF Tracks
    <3> QED
      BY <3>2, <3>3
  <2> QED
    BY <2>3, <2>4
<1>8. \A q \in granted'[k] : Cardinality(Inside(granted'[k], q.at, window)) <= limit
  <2>1. CASE request[h].alone
    <3>1. Alone(h, k)
      BY <1>1, <2>1 DEF Alone
    <3>2. /\ \A q \in granted[k] : q.at <= n.at
          /\ \A q \in granted[k] \ recorded : q.at <= n.at - window
          /\ WindowAllows(recorded, n.at, window, limit)
          /\ \A q \in granted[k] : Cardinality(Inside(granted[k], q.at, window)) <= limit
      BY <1>1, <1>2, <3>1 DEF Past, Tracks
    <3>3. granted[k] \subseteq RecordedRequests /\ IsFiniteSet(granted[k])
      BY DEF LimitTypeOK
    <3> HIDE DEF n
    <3>4. \A q \in granted[k] \union {n} : Cardinality(Inside(granted[k] \union {n}, q.at, window)) <= limit
      BY <1>2, <3>2, <3>3, GrantWithinWindow
    <3> QED
      BY <1>5, <2>1, <3>4
  <2>2. CASE ~request[h].alone
    BY <1>5, <2>2 DEF Tracks
  <2> QED
    BY <2>1, <2>2
<1>9. \A g \in Threads : ~(Alone(g, k)' /\ request'[g].stage = "record")
  BY <1>3, <1>4
<1> QED
  BY <1>7, <1>8, <1>9 DEF Tracks
-----------------------------------------------------------------------------
(* The steps of one thread keep LimitInv.                                  *)

LEMMA Moved ==
    ASSUME GateTypeOK, NEW h \in Threads, request[h] # Nobody, NEW s,
           s \in {"bucket", "windows", "record", "audit", "trim", "handle"},
           request' = [request EXCEPT ![h].stage = s]
    PROVE  /\ \A g \in Threads : g # h => request'[g] = request[g]
           /\ request'[h] \in ServedRequests /\ request'[h].stage = s
           /\ request'[h].key = request[h].key /\ request'[h].alone = request[h].alone
           /\ request'[h].since = request[h].since /\ request'[h].read = request[h].read
           /\ request'[h] # Nobody
<1>1. request[h] \in ServedRequests /\ request'[h] = [request[h] EXCEPT !.stage = s]
  BY DEF GateTypeOK
<1>2. /\ request'[h] \in ServedRequests /\ request'[h].stage = s
      /\ request'[h].key = request[h].key /\ request'[h].alone = request[h].alone
      /\ request'[h].since = request[h].since /\ request'[h].read = request[h].read
  BY <1>1 DEF ServedRequests
<1> QED
  BY <1>2, NobodyAssumption DEF GateTypeOK

LEMMA DropKeeps ==
    ASSUME GateTypeOK, LimitInv, NEW h \in Threads,
           request' = [request EXCEPT ![h] = Nobody], UNCHANGED <<limiterVars, granted>>
    PROVE  LimitInv'
<1>0. /\ PerMinute' = PerMinute /\ PerHour' = PerHour /\ BurstSize' = BurstSize
      /\ PerMinute \in Nat /\ PerHour \in Nat /\ BurstSize \in Nat
  <2>1. config' = config
    BY DEF limiterVars
  <2> QED
    BY <2>1, LimitsKept, LimitsAreNumbers DEF GateTypeOK
<1>1. /\ UNCHANGED <<minuteRequests, hourRequests, tokens, now, granted>>
      /\ now' \in Nat /\ now' >= now
  BY DEF limiterVars, GateTypeOK
<1>2. request'[h] = Nobody /\ \A g \in Threads : g # h => request'[g] = request[g]
  BY DEF GateTypeOK
<1>3. \A g \in Threads : \A k \in Keys :
         /\ Serving(g, k)' => Serving(g, k) /\ request'[g] = request[g]
         /\ Alone(g, k)' => Alone(g, k) /\ request'[g] = request[g]
  BY <1>2 DEF Alone, Serving
<1>4. LimitTypeOK' /\ Lone' /\ Past'
  BY <1>1, <1>2, <1>3 DEF LimitInv, LimitTypeOK, Lone, Past
<1>5. Paid'
  BY <1>0, <1>1, <1>3 DEF LimitInv, Paid
<1>6. ASSUME NEW k \in Keys
      PROVE  /\ Tracks(k, minuteRequests[k], Minute, PerMinute)'
             /\ Tracks(k, hourRequests[k], Hour, PerHour)'
  BY <1>0, <1>1, <1>3, <1>6 DEF LimitInv, Tracks
<1> QED
  BY <1>4, <1>5, <1>6 DEF LimitInv

LEMMA MoveKeeps ==
    ASSUME GateTypeOK, LimitInv, NEW h \in Threads, request[h] # Nobody, NEW s,
           request' = [request EXCEPT ![h].stage = s], UNCHANGED <<limiterVars, granted>>,
           \/ s \in {"trim", "handle"}
           \/ s = "record" /\ request[h].stage = "windows" /\ Allowed(request[h].key, request[h].since)
    PROVE  LimitInv'
<1>0. /\ PerMinute' = PerMinute /\ PerHour' = PerHour /\ BurstSize' = BurstSize
      /\ PerMinute \in Nat /\ PerHour \in Nat /\ BurstSize \in Nat
  <2>1. config' = config
    BY DEF limiterVars
  <2> QED
    BY <2>1, LimitsKept, LimitsAreNumbers DEF GateTypeOK
<1>1. /\ UNCHANGED <<minuteRequests, hourRequests, tokens, now, granted>>
      /\ now' \in Nat /\ now' >= now
  BY DEF limiterVars, GateTypeOK
<1>2. /\ \A g \in Threads : g # h => request'[g] = request[g]
      /\ request'[h] \in ServedRequests /\ request'[h].stage = s
      /\ request'[h].key = request[h].key /\ request'[h].alone = request[h].alone
      /\ request'[h].since = request[h].since /\ request'[h].read = request[h].read
      /\ request'[h] # Nobody
  BY Moved
<1>3. \A g \in Threads : \A k \in Keys :
         /\ Serving(g, k)' => Serving(g, k) /\ request'[g].since = request[g].since
         /\ Alone(g, k)' => Alone(g, k)
  BY <1>2 DEF Alone, Serving
<1>4. LimitTypeOK' /\ Lone' /\ Past'
  <2>1. \A g \in Threads : request'[g] # Nobody => request[g] # Nobody /\ request'[g].since = request[g].since
    BY <1>2
  <2> QED
    BY <1>1, <1>3, <2>1 DEF LimitInv, LimitTypeOK, Lone, Past, Alone
<1>5. Paid'
  <2>1. ASSUME NEW k \in Keys, NEW g \in Threads, Serving(g, k)'
        PROVE  /\ request'[g].stage = "bucket" => Cardinality(granted[k]) + request'[g].read <= BurstSize
               /\ request'[g].alone /\ request'[g].stage \in {"windows", "record"} =>
                     Cardinality(granted[k]) + tokens[k] + 1 <= BurstSize
    <3>1. Serving(g, k)
      BY <1>3, <2>1
    <3>2. CASE g # h
      BY <1>2, <3>1, <3>2 DEF LimitInv, Paid
    <3>3. CASE g = h
      BY <1>2, <3>1, <3>3 DEF LimitInv, Paid
    <3> QED
      BY <3>2, <3>3
  <2> QED
    BY <1>0, <1>1, <2>1 DEF LimitInv, Paid
<1>6. ASSUME NEW k \in Keys, NEW recorded, NEW window \in Nat, NEW limit \in Nat,
             Tracks(k, recorded, window, limit),
             \/ s \in {"trim", "handle"} \/ request[h].key # k
             \/ WindowAllows(recorded, request[h].since, window, limit)
      PROVE  Tracks(k, recorded, window, limit)'
  <2>1. ASSUME NEW g \in Threads, Alone(g, k)'
        PROVE  /\ Alone(g, k) /\ request'[g].since = request[g].since
               /\ request'[g].stage = "record" =>
                    \/ request[g].stage = "record"
                    \/ WindowAllows(recorded, request[g].since, window, limit)
    <3>1. CASE g # h
      BY <1>2, <1>3, <2>1, <3>1
    <3>2. CASE g = h
      BY <1>2, <1>3, <1>6, <2>1, <3>2 DEF Alone, Serving
    <3> QED
      BY <3>1, <3>2
  <2> QED
    BY <1>1, <1>6, <2>1, TracksKept DEF LimitInv
<1>7. ASSUME NEW k \in Keys
      PROVE  /\ Tracks(k, minuteRequests[k], Minute, PerMinute)'
             /\ Tracks(k, hourRequests[k], Hour, PerHour)'
  <2>1. PICK m : m = minuteRequests[k]
    OBVIOUS
  <2>2. PICK o : o = hourRequests[k]
    OBVIOUS
  <2>3. Minute \in Nat /\ Hour \in Nat
    BY WindowAssumption
  <2>0. PICK pm \in Nat, ph \in Nat : pm = PerMinute /\ ph = PerHour
    BY <1>0
  <2>4. Tracks(k, m, Minute, pm)' /\ Tracks(k, o, Hour, ph)'
    BY <2>0, <1>6, <2>1, <2>2, <2>3 DEF LimitInv, Allowed
  <2> QED
    BY <1>0, <2>0, <1>1, <2>1, <2>2, <2>4 DEF Tracks
<1> QED
  BY <1>4, <1>5, <1>7 DEF LimitInv
\* The token a request takes pays for its grant.
LEMMA TakeTokenKeeps ==
    ASSUME GateTypeOK, LimitInv, NEW h \in Threads, TakeToken(h)
    PROVE  LimitInv'
<1> DEFINE k == request[h].key
<1>0. /\ PerMinute' = PerMinute /\ PerHour' = PerHour /\ BurstSize' = BurstSize
      /\ PerMinute \in Nat /\ PerHour \in Nat /\ BurstSize \in Nat
  <2>1. config' = config
    BY DEF TakeToken, SpendToken
  <2> QED
    BY <2>1, LimitsKept, LimitsAreNumbers DEF GateTypeOK
<1>1. /\ request[h] \in ServedRequests /\ request[h] # Nobody /\ request[h].stage = "bucket"
      /\ request[h].read \in Int /\ request[h].read >= 1 /\ k \in Keys
      /\ request' = [request EXCEPT ![h].stage = "windows"]
      /\ tokens' = [tokens EXCEPT ![k] = request[h].read - 1]
      /\ UNCHANGED <<minuteRequests, hourRequests, now, granted>>
  BY DEF TakeToken, SpendToken, At, Go, GateTypeOK, ServedRequests
<1>2. /\ \A g \in Threads : g # h => request'[g] = request[g]
      /\ request'[h].stage = "windows"
      /\ request'[h].key = request[h].key /\ request'[h].alone = request[h].alone
      /\ request'[h].since = request[h].since
      /\ request'[h] # Nobody
  BY <1>1, Moved
<1>3. \A g \in Threads : \A j \in Keys :
         /\ Serving(g, j)' => Serving(g, j) /\ request'[g].since = request[g].since
         /\ Alone(g, j)' => Alone(g, j)
  BY <1>1, <1>2 DEF Alone, Serving
<1>4. LimitTypeOK' /\ Lone' /\ Past'
  <2>1. \A g \in Threads : request'[g] # Nobody => request[g] # Nobody /\ request'[g].since = request[g].since
    BY <1>1, <1>2
  <2> QED
    BY <1>1, <1>3, <2>1 DEF LimitInv, LimitTypeOK, Lone, Past, Alone
<1>5. Paid'
  <2>1. ASSUME NEW j \in Keys
        PROVE  /\ tokens'[j] >= 0 /\ Cardinality(granted[j]) + tokens'[j] <= BurstSize
               /\ \A g \in Threads : Serving(g, j)' =>
                     /\ request'[g].stage = "bucket" => Cardinality(granted[j]) + request'[g].read <= BurstSize
                     /\ request'[g].alone /\ request'[g].stage \in {"windows", "record"} =>
                           Cardinality(granted[j]) + tokens'[j] + 1 <= BurstSize
    <3>1. Cardinality(granted[j]) \in Nat /\ BurstSize \in Nat /\ tokens[j] \in Int
      BY FS_CardinalityType, LimitsAreNumbers DEF LimitInv, LimitTypeOK, GateTypeOK
    <3>2. CASE j # k
      <4>1. tokens'[j] = tokens[j]
        BY <1>1, <3>2 DEF GateTypeOK
      <4>2. \A g \in Threads : Serving(g, j)' => g # h /\ Serving(g, j)
        BY <1>2, <1>3, <3>2 DEF Serving
      <4> QED
        BY <1>2, <4>1, <4>2 DEF LimitInv, Paid
    <3>3. CASE j = k
      <4>1. tokens'[j] = request[h].read - 1 /\ Serving(h, j)
        BY <1>1, <3>3 DEF GateTypeOK, Serving
      <4>2. Cardinality(granted[j]) + request[h].read <= BurstSize
        BY <1>1, <4>1 DEF LimitInv, Paid
      <4>3. ASSUME NEW g \in Threads, Serving(g, j)', g # h
            PROVE  /\ request'[g].stage = "bucket" => Cardinality(granted[j]) + request'[g].read <= BurstSize
                   /\ ~request'[g].alone
        <5>1. Serving(g, j) /\ request'[g] = request[g]
          BY <1>2, <1>3, <4>3
        <5>2. ~request[g].alone
          BY <4>1, <4>3, <5>1 DEF LimitInv, Lone, Alone
        <5> QED
          BY <5>1, <5>2 DEF LimitInv, Paid
      <4> QED
        BY <1>1, <1>2, <3>1, <4>1, <4>2, <4>3
    <3> QED
      BY <3>2, <3>3
  <2> QED
    BY <1>0, <1>1, <2>1 DEF Paid
<1>6. ASSUME NEW j \in Keys, NEW recorded, NEW window \in Nat, NEW limit \in Nat,
             Tracks(j, recorded, window, limit)
      PROVE  Tracks(j, recorded, window, limit)'
  <2>1. ASSUME NEW g \in Threads, Alone(g, j)'
        PROVE  /\ Alone(g, j) /\ request'[g].since = request[g].since
               /\ request'[g].stage = "record" => request[g].stage = "record"
    BY <1>2, <1>3, <2>1 DEF Alone
  <2>2. now' \in Nat /\ now' >= now /\ granted'[j] = granted[j]
    BY <1>1 DEF GateTypeOK
  <2> QED
    BY <1>6, <2>1, <2>2, TracksKept DEF LimitInv
<1>7. ASSUME NEW j \in Keys
      PROVE  /\ Tracks(j, minuteRequests[j], Minute, PerMinute)'
             /\ Tracks(j, hourRequests[j], Hour, PerHour)'
  <2>1. PICK m : m = minuteRequests[j]
    OBVIOUS
  <2>2. PICK o : o = hourRequests[j]
    OBVIOUS
  <2>3. Minute \in Nat /\ Hour \in Nat
    BY WindowAssumption
  <2>0. PICK pm \in Nat, ph \in Nat : pm = PerMinute /\ ph = PerHour
    BY <1>0
  <2>4. Tracks(j, m, Minute, pm)' /\ Tracks(j, o, Hour, ph)'
    BY <2>0, <1>6, <2>1, <2>2, <2>3 DEF LimitInv
  <2> QED
    BY <1>0, <2>0, <1>1, <2>1, <2>2, <2>4 DEF Tracks
<1> QED
  BY <1>4, <1>5, <1>7 DEF LimitInv

\* Recording a request, and granting it if it met no other of its key.
LEMMA RecordKeeps ==
    ASSUME GateTypeOK, LimitInv, NEW h \in Threads, Record(h)
    PROVE  LimitInv'
<1> DEFINE k == request[h].key
           n == Recorded(request[h])
<1>0. /\ PerMinute' = PerMinute /\ PerHour' = PerHour /\ BurstSize' = BurstSize
      /\ PerMinute \in Nat /\ PerHour \in Nat /\ BurstSize \in Nat
  <2>1. config' = config
    BY DEF Record, RecordRequest
  <2> QED
    BY <2>1, LimitsKept, LimitsAreNumbers DEF GateTypeOK
<1>1. /\ request[h] \in ServedRequests /\ request[h] # Nobody /\ request[h].stage = "record"
      /\ k \in Keys /\ n \in RecordedRequests /\ n.at = request[h].since
      /\ request[h].since \in Nat
      /\ request' = [request EXCEPT ![h].stage = "audit"]
      /\ minuteRequests' = [minuteRequests EXCEPT ![k] = Recent(minuteRequests[k] \union {n}, request[h].since, Minute)]
      /\ hourRequests' = [hourRequests EXCEPT ![k] = Recent(hourRequests[k] \union {n}, request[h].since, Hour)]
      /\ granted' = IF request[h].alone THEN [granted EXCEPT ![k] = granted[k] \union {n}] ELSE granted
      /\ UNCHANGED <<tokens, now>>
  BY DEF Record, RecordRequest, At, Go, GateTypeOK, ServedRequests, RecordedRequests, Recorded
<1>2. /\ \A g \in Threads : g # h => request'[g] = request[g]
      /\ request'[h].stage = "audit"
      /\ request'[h].key = request[h].key /\ request'[h].alone = request[h].alone
      /\ request'[h].since = request[h].since
      /\ request'[h] # Nobody
  BY <1>1, Moved
<1>3. \A g \in Threads : \A j \in Keys :
         /\ Serving(g, j)' => Serving(g, j) /\ request'[g].since = request[g].since
         /\ Alone(g, j)' => Alone(g, j)
  BY <1>1, <1>2 DEF Alone, Serving
<1>4. \A j \in Keys : /\ j # k => minuteRequests'[j] = minuteRequests[j] /\ hourRequests'[j] = hourRequests[j]
                                  /\ granted'[j] = granted[j]
  BY <1>1 DEF LimitInv, LimitTypeOK
<1>5. /\ minuteRequests'[k] = Recent(minuteRequests[k] \union {n}, request[h].since, Minute)
      /\ hourRequests'[k] = Recent(hourRequests[k] \union {n}, request[h].since, Hour)
      /\ granted'[k] = IF request[h].alone THEN granted[k] \union {n} ELSE granted[k]
  BY <1>1 DEF LimitInv, LimitTypeOK
<1> HIDE DEF n, k
<1>6. LimitTypeOK'
  <2>1. ASSUME NEW S, S \subseteq RecordedRequests, IsFiniteSet(S), NEW t, NEW window
        PROVE  /\ Recent(S \union {n}, t, window) \subseteq RecordedRequests
               /\ IsFiniteSet(Recent(S \union {n}, t, window))
               /\ S \union {n} \subseteq RecordedRequests /\ IsFiniteSet(S \union {n})
    <3>1. IsFiniteSet(S \union {n})
      BY <2>1, FS_AddElement
    <3>2. Recent(S \union {n}, t, window) \in SUBSET (S \union {n})
      BY DEF Recent
    <3> QED
      BY <1>1, <2>1, <3>1, <3>2, FS_Subset
  <2>2. /\ minuteRequests[k] \subseteq RecordedRequests /\ IsFiniteSet(minuteRequests[k])
        /\ hourRequests[k] \subseteq RecordedRequests /\ IsFiniteSet(hourRequests[k])
        /\ granted[k] \subseteq RecordedRequests /\ IsFiniteSet(granted[k])
    BY <1>1 DEF LimitInv, LimitTypeOK
  <2>3. /\ minuteRequests'[k] \subseteq RecordedRequests /\ IsFiniteSet(minuteRequests'[k])
        /\ hourRequests'[k] \subseteq RecordedRequests /\ IsFiniteSet(hourRequests'[k])
        /\ granted'[k] \subseteq RecordedRequests /\ IsFiniteSet(granted'[k])
    BY <1>5, <2>1, <2>2, ZenonT(60)
  <2>4. minuteRequests' \in [Keys -> SUBSET RecordedRequests]
    BY <1>1, <1>5, <2>3 DEF LimitInv, LimitTypeOK
  <2>5. hourRequests' \in [Keys -> SUBSET RecordedRequests]
    BY <1>1, <1>5, <2>3 DEF LimitInv, LimitTypeOK
  <2>6. granted' \in [Keys -> SUBSET RecordedRequests]
    BY <1>1, <1>5, <2>3 DEF LimitInv, LimitTypeOK
  <2> QED
    BY <1>4, <2>3, <2>4, <2>5, <2>6 DEF LimitInv, LimitTypeOK
<1>7. Lone'
  BY <1>3 DEF LimitInv, Lone
<1>8. Past'
  <2>1. \A g \in Threads : request'[g] # Nobody => request'[g].since <= now'
    BY <1>1, <1>2 DEF LimitInv, Past
  <2>2. ASSUME NEW j \in Keys, NEW q \in granted'[j]
        PROVE  q.at <= now' /\ \A g \in Threads : Alone(g, j)' => q.at <= request'[g].since
    <3>1. CASE q \in granted[j]
      BY <1>1, <1>3, <3>1 DEF LimitInv, Past, Alone
    <3>2. CASE q \notin granted[j]
      <4>1. q = n /\ j = k /\ request[h].alone
        BY <1>4, <1>5, <2>2, <3>2
      <4>2. Alone(h, j)
        BY <1>1, <4>1 DEF Alone, Serving, k
      <4>3. \A g \in Threads : Alone(g, j)' => g = h
        BY <1>3, <4>2 DEF LimitInv, Lone, Alone
      <4>4. q.at <= now'
        BY <1>1, <4>1 DEF LimitInv, Past
      <4> QED
        BY <1>1, <1>2, <4>1, <4>3, <4>4
    <3> QED
      BY <3>1, <3>2
  <2> QED
    BY <2>1, <2>2 DEF Past
<1>9. Paid'
  <2>1. ASSUME NEW j \in Keys
        PROVE  /\ tokens[j] >= 0 /\ Cardinality(granted'[j]) + tokens[j] <= BurstSize
               /\ \A g \in Threads : Serving(g, j)' =>
                     /\ request'[g].stage = "bucket" => Cardinality(granted'[j]) + request'[g].read <= BurstSize
                     /\ request'[g].alone /\ request'[g].stage \in {"windows", "record"} =>
                           Cardinality(granted'[j]) + tokens[j] + 1 <= BurstSize
    <3>1. /\ Cardinality(granted[j]) \in Nat /\ BurstSize \in Nat /\ tokens[j] \in Int
          /\ IsFiniteSet(granted[j])
      BY FS_CardinalityType, LimitsAreNumbers DEF LimitInv, LimitTypeOK, GateTypeOK
    <3>2. \A g \in Threads : Serving(g, j)' => /\ Serving(g, j)
                                               /\ g # h => request'[g] = request[g]
      BY <1>2, <1>3
    <3>3. CASE j # k \/ ~request[h].alone
      <4>1. granted'[j] = granted[j]
        BY <1>4, <1>5, <3>3
      <4> QED
        BY <1>2, <3>2, <4>1 DEF LimitInv, Paid
    <3>4. CASE j = k /\ request[h].alone
      <4>1. Serving(h, j) /\ Alone(h, j)
        BY <1>1, <3>4 DEF Alone, Serving, k
      <4>2. Cardinality(granted[j]) + tokens[j] + 1 <= BurstSize /\ tokens[j] >= 0
        BY <1>1, <3>4, <4>1 DEF LimitInv, Paid
      <4>3. Cardinality(granted'[j]) \in Nat /\ Cardinality(granted'[j]) <= Cardinality(granted[j]) + 1
        <5>1. granted'[j] = granted[j] \union {n}
          BY <1>5, <3>4
        <5>2. /\ IsFiniteSet(granted[j] \union {n})
              /\ Cardinality(granted[j] \union {n}) =
                    IF n \in granted[j] THEN Cardinality(granted[j]) ELSE Cardinality(granted[j]) + 1
          BY <3>1, FS_AddElement, Zenon
        <5> QED
          BY <3>1, <5>1, <5>2
      <4>4. \A g \in Threads : Serving(g, j)' => g = h
        BY <3>2, <4>1 DEF LimitInv, Lone
      <4> QED
        BY <1>2, <3>1, <4>2, <4>3, <4>4
    <3> QED
      BY <3>3, <3>4
  <2> QED
    BY <1>0, <1>1, <2>1 DEF Paid
<1>10. ASSUME NEW j \in Keys, NEW recorded, NEW window \in Nat, NEW limit \in Nat, NEW after,
              Tracks(j, recorded, window, limit),
              recorded \subseteq RecordedRequests, IsFiniteSet(recorded),
              after = IF j = k THEN Recent(recorded \union {n}, request[h].since, window) ELSE recorded
       PROVE  Tracks(j, after, window, limit)'
  <2>1. CASE j = k
    BY <1>10, <2>1, TracksRecorded DEF LimitInv, n, k
  <2>2. CASE j # k
    <3>1. ASSUME NEW g \in Threads, Alone(g, j)'
          PROVE  /\ Alone(g, j) /\ request'[g].since = request[g].since
                 /\ request'[g].stage = "record" => request[g].stage = "record"
      BY <1>2, <1>3, <3>1 DEF Alone
    <3>2. now' \in Nat /\ now' >= now /\ granted'[j] = granted[j] /\ after = recorded
      BY <1>1, <1>4, <1>10, <2>2 DEF GateTypeOK
    <3> QED
      BY <1>10, <3>1, <3>2, TracksKept DEF LimitInv
  <2> QED
    BY <2>1, <2>2
<1>11. ASSUME NEW j \in Keys
       PROVE  /\ Tracks(j, minuteRequests[j], Minute, PerMinute)'
              /\ Tracks(j, hourRequests[j], Hour, PerHour)'
  <2>1. PICK m : m = minuteRequests'[j]
    OBVIOUS
  <2>2. PICK o : o = hourRequests'[j]
    OBVIOUS
  <2>3. Minute \in Nat /\ Hour \in Nat
    BY WindowAssumption
  <2>0. PICK pm \in Nat, ph \in Nat : pm = PerMinute /\ ph = PerHour
    BY <1>0
  <2>4. PICK m0 : m0 = minuteRequests[j]
    OBVIOUS
  <2>5. PICK o0 : o0 = hourRequests[j]
    OBVIOUS
  <2>6. /\ m0 \subseteq RecordedRequests /\ IsFiniteSet(m0)
        /\ o0 \subseteq RecordedRequests /\ IsFiniteSet(o0)
        /\ Tracks(j, m0, Minute, pm) /\ Tracks(j, o0, Hour, ph)
    BY <2>0, <2>4, <2>5 DEF LimitInv, LimitTypeOK
  <2>7. /\ m = IF j = k THEN Recent(m0 \union {n}, request[h].since, Minute) ELSE m0
        /\ o = IF j = k THEN Recent(o0 \union {n}, request[h].since, Hour) ELSE o0
    BY <1>4, <1>5, <2>1, <2>2, <2>4, <2>5
  <2>8. Tracks(j, m, Minute, pm)'
    BY <1>10, <2>3, <2>6, <2>7
  <2>9. Tracks(j, o, Hour, ph)'
    BY <1>10, <2>3, <2>6, <2>7
  <2> QED
    BY <1>0, <2>0, <2>1, <2>2, <2>8, <2>9 DEF Tracks
<1> QED
  BY <1>6, <1>7, <1>8, <1>9, <1>11 DEF LimitInv
\* A new request reads the bucket, and those it meets are not alone any more.
LEMMA AcceptKeeps ==
    ASSUME GateTypeOK, LimitInv, NEW h \in Threads, NEW k \in Keys, Accept(h, k)
    PROVE  LimitInv'
<1>0. /\ PerMinute' = PerMinute /\ PerHour' = PerHour /\ BurstSize' = BurstSize
      /\ PerMinute \in Nat /\ PerHour \in Nat /\ BurstSize \in Nat
  <2>1. config' = config
    BY DEF Accept, limiterVars
  <2> QED
    BY <2>1, LimitsKept, LimitsAreNumbers DEF GateTypeOK
<1>1. /\ request[h] = Nobody
      /\ request'[h] = [stage |-> "bucket", id |-> served + 1, key |-> k, since |-> now,
                        read |-> tokens[k], alone |-> Beside(h, k) = {}]
      /\ UNCHANGED <<minuteRequests, hourRequests, tokens, now, granted>>
      /\ now \in Nat
  BY DEF Accept, limiterVars, GateTypeOK
<1>2. /\ request'[h].stage = "bucket" /\ request'[h].key = k /\ request'[h].since = now
      /\ request'[h].read = tokens[k] /\ request'[h].alone = (Beside(h, k) = {})
  BY <1>1
<1>3. ASSUME NEW g \in Threads, g # h, request'[g] # Nobody
      PROVE  /\ request[g] # Nobody
             /\ request'[g].key = request[g].key /\ request'[g].since = request[g].since
             /\ request'[g].stage = request[g].stage /\ request'[g].read = request[g].read
             /\ request'[g].alone => request[g].alone /\ request[g].key # k
  <2>1. CASE g \in Beside(h, k)
    <3>1. /\ request'[g] = [request[g] EXCEPT !.alone = FALSE]
          /\ request[g] \in ServedRequests /\ request[g] # Nobody
      BY <1>3, <2>1 DEF Accept, Beside, GateTypeOK
    <3> QED
      BY <3>1 DEF ServedRequests
  <2>2. CASE g \notin Beside(h, k)
    <3>1. request'[g] = request[g]
      BY <1>3, <2>2 DEF Accept
    <3> QED
      BY <1>3, <2>2, <3>1 DEF Beside
  <2> QED
    BY <2>1, <2>2
<1>4. \A g \in Threads : \A j \in Keys :
         /\ g # h /\ Serving(g, j)' => Serving(g, j)
         /\ g # h /\ Alone(g, j)' => Alone(g, j) /\ j # k
         /\ Serving(h, j)' => j = k
  BY <1>2, <1>3 DEF Alone, Serving
<1>5. LimitTypeOK'
  BY <1>1 DEF LimitInv, LimitTypeOK
<1>6. Lone'
  <2> SUFFICES ASSUME NEW j \in Keys, NEW a \in Threads, NEW b \in Threads, Alone(a, j)', Serving(b, j)'
               PROVE  a = b
    BY DEF Lone
  <2>1. CASE a # h /\ b # h
    BY <1>4, <2>1 DEF LimitInv, Lone
  <2>2. CASE a # h /\ b = h
    BY <1>4, <2>2
  <2>3. CASE a = h /\ b # h
    <3>1. j = k /\ Serving(b, k) /\ Beside(h, k) = {}
      BY <1>2, <1>4, <2>3 DEF Alone
    <3> QED
      BY <2>3, <3>1 DEF Beside, Serving
  <2> QED
    BY <2>1, <2>2, <2>3
<1>7. Past'
  <2>1. \A g \in Threads : request'[g] # Nobody => request'[g].since <= now
    BY <1>1, <1>2, <1>3 DEF LimitInv, Past
  <2>2. \A j \in Keys : \A q \in granted[j] :
           q.at <= now /\ \A g \in Threads : Alone(g, j)' => q.at <= request'[g].since
    BY <1>2, <1>3, <1>4 DEF LimitInv, Past, Alone, Serving
  <2> QED
    BY <1>1, <2>1, <2>2 DEF Past
<1>8. Paid'
  <2>1. ASSUME NEW j \in Keys, NEW g \in Threads, Serving(g, j)'
        PROVE  /\ request'[g].stage = "bucket" => Cardinality(granted[j]) + request'[g].read <= BurstSize
               /\ request'[g].alone /\ request'[g].stage \in {"windows", "record"} =>
                     Cardinality(granted[j]) + tokens[j] + 1 <= BurstSize
    <3>1. CASE g = h
      BY <1>2, <1>4, <2>1, <3>1 DEF LimitInv, Paid
    <3>2. CASE g # h
      <4>1. Serving(g, j)
        BY <1>4, <2>1, <3>2
      <4> QED
        BY <1>3, <2>1, <3>2, <4>1 DEF LimitInv, Paid, Serving
    <3> QED
      BY <3>1, <3>2
  <2> QED
    BY <1>0, <1>1, <2>1 DEF LimitInv, Paid
<1>9. ASSUME NEW j \in Keys, NEW recorded, NEW window \in Nat, NEW limit \in Nat,
             Tracks(j, recorded, window, limit)
      PROVE  Tracks(j, recorded, window, limit)'
  <2>1. ASSUME NEW g \in Threads, Alone(g, j)'
        PROVE  \/ /\ Alone(g, j) /\ request'[g].since = request[g].since
                  /\ request'[g].stage = "record" => request[g].stage = "record"
               \/ request'[g].since = now /\ request'[g].stage = "bucket"
    BY <1>2, <1>3, <1>4, <2>1 DEF Alone, Serving
  <2>2. now' \in Nat /\ now' >= now /\ granted'[j] = granted[j]
    BY <1>1
  <2> QED
    BY <1>9, <2>1, <2>2, TracksKept DEF LimitInv
<1>10. ASSUME NEW j \in Keys
       PROVE  /\ Tracks(j, minuteRequests[j], Minute, PerMinute)'
              /\ Tracks(j, hourRequests[j], Hour, PerHour)'
  <2>1. PICK m : m = minuteRequests[j]
    OBVIOUS
  <2>2. PICK o : o = hourRequests[j]
    OBVIOUS
  <2>3. Minute \in Nat /\ Hour \in Nat
    BY WindowAssumption
  <2>0. PICK pm \in Nat, ph \in Nat : pm = PerMinute /\ ph = PerHour
    BY <1>0
  <2>4. Tracks(j, m, Minute, pm)' /\ Tracks(j, o, Hour, ph)'
    BY <2>0, <1>9, <2>1, <2>2, <2>3 DEF LimitInv
  <2> QED
    BY <1>0, <2>0, <1>1, <2>1, <2>2, <2>4 DEF Tracks
<1> QED
  BY <1>5, <1>6, <1>7, <1>8, <1>10 DEF LimitInv

\* A reset refills the buckets of ks and forgets what was granted.
LEMMA ResetKeeps ==
    ASSUME GateTypeOK, LimitInv, NEW h \in Threads, NEW ks, ks \subseteq Keys, ResetRateLimit(h, ks)
    PROVE  LimitInv'
<1>0. /\ PerMinute' = PerMinute /\ PerHour' = PerHour /\ BurstSize' = BurstSize
      /\ PerMinute \in Nat /\ PerHour \in Nat /\ BurstSize \in Nat
  <2>1. config' = config
    BY DEF ResetRateLimit, ResetLimits
  <2> QED
    BY <2>1, LimitsKept, LimitsAreNumbers DEF GateTypeOK
<1>1. /\ minuteRequests' = [k \in Keys |-> IF k \in ks THEN {} ELSE minuteRequests[k]]
      /\ hourRequests' = [k \in Keys |-> IF k \in ks THEN {} ELSE hourRequests[k]]
      /\ granted' = [k \in Keys |-> IF k \in ks THEN {} ELSE granted[k]]
      /\ tokens' = [k \in Keys |-> IF k \in ks THEN BurstSize ELSE tokens[k]]
      /\ request'[h] = Nobody /\ now' = now /\ now \in Nat
      /\ BurstSize \in Nat /\ IsFiniteSet({}) /\ Cardinality({}) = 0
  BY FS_EmptySet, LimitsAreNumbers DEF ResetRateLimit, ResetLimits, GateTypeOK
<1>2. ASSUME NEW g \in Threads, request'[g] # Nobody
      PROVE  /\ request[g] # Nobody
             /\ request'[g].key = request[g].key /\ request'[g].since = request[g].since
             /\ request'[g].stage = request[g].stage /\ request'[g].read = request[g].read
             /\ request'[g].alone => request[g].alone /\ request[g].key \notin ks
  <2>1. g # h
    BY <1>1, <1>2
  <2>2. CASE request[g] # Nobody /\ request[g].key \in ks
    <3>1. request'[g] = [request[g] EXCEPT !.alone = FALSE] /\ request[g] \in ServedRequests
      BY <2>1, <2>2 DEF ResetRateLimit, GateTypeOK
    <3> QED
      BY <2>2, <3>1 DEF ServedRequests
  <2>3. CASE ~(request[g] # Nobody /\ request[g].key \in ks)
    <3>1. request'[g] = request[g]
      BY <2>1, <2>3 DEF ResetRateLimit
    <3> QED
      BY <1>2, <2>3, <3>1
  <2> QED
    BY <2>2, <2>3
<1>3. \A g \in Threads : \A j \in Keys :
         /\ Serving(g, j)' => Serving(g, j)
         /\ Alone(g, j)' => Alone(g, j) /\ j \notin ks
  BY <1>2 DEF Alone, Serving
<1>4. LimitTypeOK'
  BY <1>1 DEF LimitInv, LimitTypeOK
<1>5. Lone'
  BY <1>3 DEF LimitInv, Lone
<1>6. Past'
  <2>1. \A g \in Threads : request'[g] # Nobody => request'[g].since <= now'
    BY <1>1, <1>2 DEF LimitInv, Past
  <2>2. ASSUME NEW j \in Keys, NEW q \in granted'[j]
        PROVE  q.at <= now' /\ \A g \in Threads : Alone(g, j)' => q.at <= request'[g].since
    <3>1. q \in granted[j]
      BY <1>1, <2>2
    <3> QED
      BY <1>1, <1>2, <1>3, <3>1 DEF LimitInv, Past, Alone, Serving
  <2> QED
    BY <2>1, <2>2 DEF Past
<1>7. Paid'
  <2>1. ASSUME NEW j \in Keys
        PROVE  /\ tokens'[j] >= 0 /\ Cardinality(granted'[j]) + tokens'[j] <= BurstSize
               /\ \A g \in Threads : Serving(g, j)' =>
                     /\ request'[g].stage = "bucket" => Cardinality(granted'[j]) + request'[g].read <= BurstSize
                     /\ request'[g].alone /\ request'[g].stage \in {"windows", "record"} =>
                           Cardinality(granted'[j]) + tokens'[j] + 1 <= BurstSize
    <3>1. CASE j \in ks
      <4>1. tokens'[j] = BurstSize /\ Cardinality(granted'[j]) = 0
        BY <1>1, <3>1
      <4>2. ASSUME NEW g \in Threads, Serving(g, j)'
            PROVE  /\ request'[g].stage = "bucket" => request'[g].read <= BurstSize
                   /\ ~request'[g].alone
        <5>1. Serving(g, j) /\ request'[g] # Nobody
          BY <1>3, <4>2 DEF Serving
        <5>2. ~request'[g].alone
          BY <1>3, <3>1, <4>2 DEF Alone
        <5>3. request[g].stage = "bucket" => Cardinality(granted[j]) + request[g].read <= BurstSize
          BY <5>1 DEF LimitInv, Paid
        <5>4. Cardinality(granted[j]) \in Nat
          BY FS_CardinalityType DEF LimitInv, LimitTypeOK
        <5>5. request[g].read \in Int
          BY <5>1 DEF Serving, GateTypeOK, ServedRequests
        <5> QED
          BY <1>1, <1>2, <5>1, <5>2, <5>3, <5>4, <5>5
      <4>3. \A g \in Threads : Serving(g, j)' /\ request'[g].stage = "bucket" => request'[g].read \in Int
        <5>1. \A g \in Threads : Serving(g, j)' => request'[g].read = request[g].read /\ request[g] # Nobody
          BY <1>2 DEF Serving
        <5> QED
          BY <5>1 DEF GateTypeOK, ServedRequests
      <4> QED
        BY <1>1, <4>1, <4>2, <4>3
    <3>2. CASE j \notin ks
      <4>1. tokens'[j] = tokens[j] /\ granted'[j] = granted[j]
        BY <1>1, <3>2
      <4>2. \A g \in Threads : Serving(g, j)' => request'[g] # Nobody
        BY DEF Serving
      <4> QED
        BY <1>2, <1>3, <4>1, <4>2 DEF LimitInv, Paid
    <3> QED
      BY <3>1, <3>2
  <2> QED
    BY <1>0, <2>1 DEF Paid
<1>8. ASSUME NEW j \in Keys, NEW recorded, NEW window \in Nat, NEW limit \in Nat, NEW after,
             Tracks(j, recorded, window, limit),
             after = IF j \in ks THEN {} ELSE recorded
      PROVE  Tracks(j, after, window, limit)'
  <2>1. CASE j \in ks
    BY <1>1, <1>3, <2>1 DEF Tracks
  <2>2. CASE j \notin ks
    <3>1. \A g \in Threads : Alone(g, j)' =>
             /\ Alone(g, j) /\ request'[g].since = request[g].since
             /\ request'[g].stage = "record" => request[g].stage = "record"
      BY <1>2, <1>3 DEF Alone, Serving
    <3>2. now' \in Nat /\ now' >= now /\ granted'[j] = granted[j] /\ after = recorded
      BY <1>1, <1>8, <2>2
    <3> QED
      BY <1>8, <3>1, <3>2, TracksKept DEF LimitInv
  <2> QED
    BY <2>1, <2>2
<1>9. ASSUME NEW j \in Keys
      PROVE  /\ Tracks(j, minuteRequests[j], Minute, PerMinute)'
             /\ Tracks(j, hourRequests[j], Hour, PerHour)'
  <2>1. PICK m : m = minuteRequests'[j]
    OBVIOUS
  <2>2. PICK o : o = hourRequests'[j]
    OBVIOUS
  <2>3. Minute \in Nat /\ Hour \in Nat
    BY WindowAssumption
  <2>0. PICK pm \in Nat, ph \in Nat : pm = PerMinute /\ ph = PerHour
    BY <1>0
  <2>4. PICK m0 : m0 = minuteRequests[j]
    OBVIOUS
  <2>5. PICK o0 : o0 = hourRequests[j]
    OBVIOUS
  <2>6. Tracks(j, m0, Minute, pm) /\ Tracks(j, o0, Hour, ph)
    BY <2>0, <2>4, <2>5 DEF LimitInv
  <2>7. m = (IF j \in ks THEN {} ELSE m0) /\ o = (IF j \in ks THEN {} ELSE o0)
    BY <1>1, <2>1, <2>2, <2>4, <2>5
  <2>8. Tracks(j, m, Minute, pm)'
    BY <1>8, <2>3, <2>6, <2>7
  <2>9. Tracks(j, o, Hour, ph)'
    BY <1>8, <2>3, <2>6, <2>7
  <2> QED
    BY <1>0, <2>0, <2>1, <2>2, <2>8, <2>9 DEF Tracks
<1> QED
  BY <1>4, <1>5, <1>6, <1>7, <1>9 DEF LimitInv

\* The clock only moves the windows on.
LEMMA TimeKeeps ==
    ASSUME GateTypeOK, LimitInv, Time \/ UNCHANGED gateVars
    PROVE  LimitInv'
<1>0. /\ PerMinute' = PerMinute /\ PerHour' = PerHour /\ BurstSize' = BurstSize
      /\ PerMinute \in Nat /\ PerHour \in Nat /\ BurstSize \in Nat
  <2>1. config' = config
    BY DEF Time, Tick, gateVars, limiterVars
  <2> QED
    BY <2>1, LimitsKept, LimitsAreNumbers DEF GateTypeOK
<1>1. /\ UNCHANGED <<minuteRequests, hourRequests, tokens, request, granted>>
      /\ now' \in Nat /\ now' >= now /\ now \in Nat
  BY DEF Time, Tick, gateVars, limiterVars, GateTypeOK
<1>2. \A g \in Threads : \A j \in Keys : (Serving(g, j)' <=> Serving(g, j)) /\ (Alone(g, j)' <=> Alone(g, j))
  BY <1>1 DEF Alone, Serving
<1>3. LimitTypeOK' /\ Lone' /\ Paid'
  BY <1>0, <1>1, <1>2 DEF LimitInv, LimitTypeOK, Lone, Paid
<1>4. Past'
  <2>1. \A g \in Threads : request[g] # Nobody => request[g].since \in Nat
    BY DEF GateTypeOK, ServedRequests
  <2>2. \A j \in Keys : \A q \in granted[j] : q.at \in Nat
    BY DEF LimitInv, LimitTypeOK, RecordedRequests
  <2>3. /\ \A g \in Threads : request[g] # Nobody => request[g].since <= now'
        /\ \A j \in Keys : \A q \in granted[j] : q.at <= now'
    BY <1>1, <2>1, <2>2 DEF LimitInv, Past
  <2> QED
    BY <1>1, <1>2, <2>3 DEF LimitInv, Past
<1>5. ASSUME NEW j \in Keys
      PROVE  /\ Tracks(j, minuteRequests[j], Minute, PerMinute)'
             /\ Tracks(j, hourRequests[j], Hour, PerHour)'
  <2>1. PICK m : m = minuteRequests[j]
    OBVIOUS
  <2>2. PICK o : o = hourRequests[j]
    OBVIOUS
  <2>3. Minute \in Nat /\ Hour \in Nat
    BY WindowAssumption
  <2>0. PICK pm \in Nat, ph \in Nat : pm = PerMinute /\ ph = PerHour
    BY <1>0
  <2>4. granted'[j] = granted[j] /\ \A g \in Threads : Alone(g, j)' =>
           Alone(g, j) /\ request'[g].since = request[g].since /\ request'[g].stage = request[g].stage
    BY <1>1, <1>2
  <2>5. Tracks(j, m, Minute, pm)'
    BY <2>0, <1>1, <2>1, <2>3, <2>4, TracksKept DEF LimitInv
  <2>6. Tracks(j, o, Hour, ph)'
    BY <2>0, <1>1, <2>2, <2>3, <2>4, TracksKept DEF LimitInv
  <2> QED
    BY <1>0, <2>0, <1>1, <2>1, <2>2, <2>5, <2>6 DEF Tracks
<1> QED
  BY <1>3, <1>4, <1>5 DEF LimitInv

LEMMA LimitStep == GateInv /\ LimitInv /\ [GateNext]_gateVars => LimitInv'
<1> SUFFICES ASSUME GateInv, LimitInv, [GateNext]_gateVars PROVE LimitInv'
  OBVIOUS
<1>1. GateTypeOK
  BY DEF GateInv
<1>2. ASSUME NEW h \in Threads, Serve(h) PROVE LimitInv'
  <2>1. CASE \/ DenyBurst(h) \/ DenyWindow(h) \/ HandleOther(h)
             \/ \E k \in Keys : CreateKey(h, k) \/ RevokeKey(h, k)
    <3>1. request' = [request EXCEPT ![h] = Nobody] /\ UNCHANGED <<limiterVars, granted>>
      BY <2>1 DEF DenyBurst, DenyWindow, HandleOther, CreateKey, RevokeKey, Done
    <3> QED
      BY <1>1, <3>1, DropKeeps
  <2>2. CASE CheckWindows(h)
    <3>1. /\ request[h] # Nobody /\ request[h].stage = "windows"
          /\ Allowed(request[h].key, request[h].since)
          /\ request' = [request EXCEPT ![h].stage = "record"]
          /\ UNCHANGED <<limiterVars, granted>>
      BY <2>2 DEF CheckWindows, At, Go
    <3> QED
      BY <1>1, <3>1, MoveKeeps
  <2>3. CASE LogAppend(h) \/ LogTrim(h)
    <3>1. PICK s : /\ s \in {"trim", "handle"} /\ request[h] # Nobody
                   /\ request' = [request EXCEPT ![h].stage = s]
                   /\ UNCHANGED <<limiterVars, granted>>
      BY <2>3 DEF LogAppend, LogTrim, At, Go
    <3> QED
      BY <1>1, <3>1, MoveKeeps
  <2>4. ASSUME NEW ks \in {{k} : k \in Keys} \union {Keys}, ResetRateLimit(h, ks)
        PROVE  LimitInv'
    BY <1>1, <2>4, ResetKeeps
  <2> QED
    BY <1>1, <1>2, <2>1, <2>2, <2>3, <2>4, TakeTokenKeeps, RecordKeeps, AcceptKeeps DEF Serve
<1> QED
  BY <1>1, <1>2, TimeKeeps DEF GateNext

LEMMA LimitInitially == GateInit => LimitInv
<1> SUFFICES ASSUME GateInit PROVE LimitInv
  OBVIOUS
<1>1. /\ minuteRequests = [k \in Keys |-> {}] /\ hourRequests = [k \in Keys |-> {}]
      /\ granted = [k \in Keys |-> {}] /\ tokens = [k \in Keys |-> BurstSize]
      /\ \A h \in Threads : request[h] = Nobody
      /\ IsFiniteSet({}) /\ Cardinality({}) = 0 /\ BurstSize \in Nat
  BY FS_EmptySet, LimitsAreNumbers DEF GateInit, LimiterInit
<1>2. LimitTypeOK
  BY <1>1 DEF LimitTypeOK
<1>3. Lone /\ Past /\ Paid
  BY <1>1 DEF Lone, Past, Paid, Alone, Serving
<1>4. \A k \in Keys : /\ Tracks(k, minuteRequests[k], Minute, PerMinute)
                      /\ Tracks(k, hourRequests[k], Hour, PerHour)
  BY <1>1 DEF Tracks, Alone, Serving
<1> QED
  BY <1>2, <1>3, <1>4 DEF LimitInv

\* However requests interleave (api/auth.py serves them on a thread pool), those that met
\* no other of their key stay within the burst, minute and hour limits of RateLimiter.check,
\* and get_usage shows at least them.
THEOREM LimitsAlwaysHold == GateSpec => []LimitsHold
<1>1. GateInit => LimitInv
  BY LimitInitially
<1>2. GateTypeOK /\ LimitInv => LimitsHold
  <2> SUFFICES ASSUME GateTypeOK, LimitInv, NEW k \in Keys
               PROVE  /\ \A q \in granted[k] : /\ Cardinality(Inside(granted[k], q.at, Minute)) <= PerMinute
                                               /\ Cardinality(Inside(granted[k], q.at, Hour)) <= PerHour
                                               /\ Cardinality({p \in granted[k] : p.at = q.at}) <= BurstSize
                      /\ LimitUsage(k).minute >= Cardinality(Inside(granted[k], now, Minute))
                      /\ LimitUsage(k).hour >= Cardinality(Inside(granted[k], now, Hour))
    BY DEF LimitsHold, Inside
  <2>1. ASSUME NEW q \in granted[k] PROVE Cardinality({p \in granted[k] : p.at = q.at}) <= BurstSize
    <3> DEFINE together == {p \in granted[k] : p.at = q.at}
    <3>1. Cardinality(granted[k]) \in Nat /\ IsFiniteSet(granted[k])
      BY FS_CardinalityType DEF LimitInv, LimitTypeOK
    <3>2. BurstSize \in Nat /\ tokens[k] \in Int
      BY LimitsAreNumbers DEF GateTypeOK
    <3>3. together \in SUBSET granted[k]
      OBVIOUS
    <3>4. IsFiniteSet(together) /\ Cardinality(together) <= Cardinality(granted[k])
      BY <3>1, <3>3, FS_Subset
    <3>5. Cardinality(together) \in Nat
      BY <3>4, FS_CardinalityType
    <3>6. tokens[k] >= 0 /\ Cardinality(granted[k]) + tokens[k] <= BurstSize
      BY DEF LimitInv, Paid
    <3> QED
      BY <3>1, <3>2, <3>4, <3>5, <3>6
  <2>2. ASSUME NEW recorded, NEW window \in Nat, NEW limit, recorded \subseteq RecordedRequests,
               IsFiniteSet(recorded), Tracks(k, recorded, window, limit)
        PROVE  Cardinality(Recent(recorded, now, window)) >= Cardinality(Inside(granted[k], now, window))
    <3>1. Inside(granted[k], now, window) \in SUBSET Recent(recorded, now, window)
      <4>1. ASSUME NEW q \in Inside(granted[k], now, window) PROVE q \in Recent(recorded, now, window)
        <5>1. q \in granted[k] /\ q.at > now - window /\ q.at \in Nat /\ now \in Nat
          BY DEF Inside, LimitInv, LimitTypeOK, RecordedRequests, GateTypeOK
        <5>2. q \in recorded
          BY <2>2, <5>1 DEF Tracks
        <5> QED
          BY <5>1, <5>2 DEF Recent
      <4> QED
        BY <4>1
    <3>2. IsFiniteSet(Recent(recorded, now, window))
      <4>1. Recent(recorded, now, window) \in SUBSET recorded
        BY DEF Recent
      <4> QED
        BY <2>2, <4>1, FS_Subset
    <3>3. /\ Cardinality(Inside(granted[k], now, window)) <= Cardinality(Recent(recorded, now, window))
          /\ IsFiniteSet(Inside(granted[k], now, window))
      BY <3>1, <3>2, FS_Subset
    <3>4. Cardinality(Inside(granted[k], now, window)) \in Nat /\ Cardinality(Recent(recorded, now, window)) \in Nat
      BY <3>2, <3>3, FS_CardinalityType
    <3> QED
      BY <3>3, <3>4
  <2>3. /\ Tracks(k, minuteRequests[k], Minute, PerMinute) /\ Tracks(k, hourRequests[k], Hour, PerHour)
        /\ minuteRequests[k] \subseteq RecordedRequests /\ IsFiniteSet(minuteRequests[k])
        /\ hourRequests[k] \subseteq RecordedRequests /\ IsFiniteSet(hourRequests[k])
    BY DEF LimitInv, LimitTypeOK
  <2>4. /\ Cardinality(Recent(minuteRequests[k], now, Minute)) >= Cardinality(Inside(granted[k], now, Minute))
        /\ Cardinality(Recent(hourRequests[k], now, Hour)) >= Cardinality(Inside(granted[k], now, Hour))
    BY <2>2, <2>3, WindowAssumption
  <2> QED
    BY <2>1, <2>3, <2>4 DEF Tracks, LimitUsage
<1> QED
  BY <1>1, <1>2, LimitStep, GateInvariance, PTL DEF GateSpec, GateInv

-----------------------------------------------------------------------------
(* Counting a set of requests counts what the code's list counts: each     *)
(* request is recorded as one that is not there yet.                       *)

RecordedOnce ==
    \A h \in Threads : At(h, "record") =>
        LET r == request[h] IN Recorded(r) \notin minuteRequests[r.key] \union hourRequests[r.key]

Unrecorded == {"bucket", "windows", "record"}

\* Requests in flight have numbers of their own, and none that is recorded before it records.
Numbers ==
    /\ \A h \in Threads : request[h] # Nobody =>
          /\ request[h].id <= served
          /\ \A g \in Threads : g # h /\ request[g] # Nobody => request[g].id # request[h].id
    /\ \A k \in Keys : \A q \in minuteRequests[k] \union hourRequests[k] :
          /\ q.id <= served
          /\ \A h \in Threads : request[h] # Nobody /\ request[h].stage \in Unrecorded => q.id # request[h].id

LEMMA NumbersMove ==
    ASSUME GateTypeOK, LimitTypeOK, Numbers,
           served' = served, UNCHANGED <<minuteRequests, hourRequests>>,
           \A g \in Threads : request'[g] # Nobody =>
              /\ request[g] # Nobody /\ request'[g].id = request[g].id
              /\ request'[g].stage \in Unrecorded => request[g].stage \in Unrecorded
    PROVE  Numbers'
BY DEF Numbers

LEMMA NumbersStep == GateInv /\ LimitInv /\ Numbers /\ [GateNext]_gateVars => Numbers'
<1> SUFFICES ASSUME GateInv, LimitInv, Numbers, [GateNext]_gateVars PROVE Numbers'
  OBVIOUS
<1>1. GateTypeOK /\ LimitTypeOK
  BY DEF GateInv, LimitInv
<1>2. ASSUME NEW h \in Threads, request[h] # Nobody, NEW s,
             s \in {"bucket", "windows", "record", "audit", "trim", "handle"},
             request' = [request EXCEPT ![h].stage = s]
      PROVE  /\ request'[h] # Nobody /\ request'[h].id = request[h].id /\ request'[h].stage = s
             /\ \A g \in Threads : g # h => request'[g] = request[g]
  <2>1. request[h] \in ServedRequests /\ request'[h] = [request[h] EXCEPT !.stage = s]
    BY <1>1, <1>2 DEF GateTypeOK
  <2>2. request'[h].id = request[h].id
    BY <2>1 DEF ServedRequests
  <2> QED
    BY <1>1, <1>2, <2>2, Moved
<1>3. ASSUME NEW h \in Threads, Serve(h) PROVE Numbers'
  <2>1. CASE \/ DenyBurst(h) \/ DenyWindow(h) \/ HandleOther(h)
             \/ \E k \in Keys : CreateKey(h, k) \/ RevokeKey(h, k)
    <3>1. /\ request' = [request EXCEPT ![h] = Nobody]
          /\ served' = served /\ UNCHANGED <<minuteRequests, hourRequests>>
      BY <2>1 DEF DenyBurst, DenyWindow, HandleOther, CreateKey, RevokeKey, Done, limiterVars
    <3>2. \A g \in Threads : request'[g] # Nobody => request'[g] = request[g]
      BY <1>1, <3>1 DEF GateTypeOK
    <3> QED
      BY <1>1, <3>1, <3>2, NumbersMove
  <2>2. CASE TakeToken(h) \/ CheckWindows(h) \/ LogAppend(h) \/ LogTrim(h)
    <3>1. PICK s \in {"windows", "record", "trim", "handle"} :
             /\ request[h] # Nobody /\ request' = [request EXCEPT ![h].stage = s]
             /\ s \in Unrecorded => request[h].stage \in Unrecorded
             /\ served' = served /\ UNCHANGED <<minuteRequests, hourRequests>>
      BY <2>2 DEF TakeToken, SpendToken, CheckWindows, LogAppend, LogTrim, At, Go, limiterVars, Unrecorded
    <3>2. \A g \in Threads : request'[g] # Nobody =>
              /\ request[g] # Nobody /\ request'[g].id = request[g].id
              /\ request'[g].stage \in Unrecorded => request[g].stage \in Unrecorded
      BY <1>2, <3>1
    <3> QED
      BY <1>1, <3>1, <3>2, NumbersMove
  <2>3. CASE Record(h)
    <3>1. /\ request[h] # Nobody /\ request[h].stage = "record" /\ request' = [request EXCEPT ![h].stage = "audit"]
          /\ served' = served
      BY <2>3 DEF Record, At, Go
    <3>2. \A g \in Threads : request'[g] # Nobody =>
              /\ request[g] # Nobody /\ request'[g].id = request[g].id
              /\ request'[g].stage \in Unrecorded => g # h /\ request[g].stage \in Unrecorded
      BY <1>2, <3>1 DEF Unrecorded
    <3>3. ASSUME NEW k \in Keys, NEW q \in minuteRequests'[k] \union hourRequests'[k]
          PROVE  q = Recorded(request[h]) \/ q \in minuteRequests[k] \union hourRequests[k]
      BY <1>1, <2>3, <3>3 DEF Record, RecordRequest, Recent, LimitTypeOK
    <3>4. Recorded(request[h]).id = request[h].id
      BY DEF Recorded
    <3>5. \A g \in Threads : request'[g] # Nobody =>
          /\ request'[g].id <= served
          /\ \A f \in Threads : f # g /\ request'[f] # Nobody => request'[f].id # request'[g].id
      BY <3>2 DEF Numbers
    <3>6. ASSUME NEW k \in Keys, NEW q \in minuteRequests'[k] \union hourRequests'[k]
          PROVE  /\ q.id <= served
                 /\ \A g \in Threads : request'[g] # Nobody /\ request'[g].stage \in Unrecorded =>
                       q.id # request'[g].id
      <4>1. CASE q = Recorded(request[h])
        BY <3>1, <3>2, <3>4, <4>1 DEF Numbers
      <4>2. CASE q \in minuteRequests[k] \union hourRequests[k]
        BY <3>2, <4>2 DEF Numbers
      <4> QED
        BY <3>3, <4>1, <4>2
    <3> QED
      BY <3>1, <3>5, <3>6 DEF Numbers
  <2>4. ASSUME NEW k \in Keys, Accept(h, k)
        PROVE  Numbers'
    <3>1. /\ request[h] = Nobody /\ request'[h].id = served + 1
          /\ served' = served + 1 /\ served \in Nat
          /\ UNCHANGED <<minuteRequests, hourRequests>>
      BY <1>1, <2>4 DEF Accept, GateTypeOK, limiterVars
    <3>2. ASSUME NEW g \in Threads, g # h, request'[g] # Nobody
          PROVE  /\ request[g] # Nobody /\ request'[g].id = request[g].id
                 /\ request'[g].stage = request[g].stage /\ request[g].id \in Nat
      <4>1. CASE g \in Beside(h, k)
        <5>1. request'[g] = [request[g] EXCEPT !.alone = FALSE] /\ request[g] \in ServedRequests
              /\ request[g] # Nobody
          BY <1>1, <2>4, <3>2, <4>1 DEF Accept, Beside, GateTypeOK
        <5> QED
          BY <5>1 DEF ServedRequests
      <4>2. CASE g \notin Beside(h, k)
        BY <1>1, <2>4, <3>2, <4>2 DEF Accept, GateTypeOK, ServedRequests
      <4> QED
        BY <4>1, <4>2
    <3>3. \A j \in Keys : \A q \in minuteRequests[j] \union hourRequests[j] : q.id \in Nat
      BY <1>1 DEF LimitTypeOK, RecordedRequests
    <3>4. ASSUME NEW g \in Threads, request'[g] # Nobody
          PROVE  /\ request'[g].id <= served'
                 /\ \A f \in Threads : f # g /\ request'[f] # Nobody => request'[f].id # request'[g].id
      BY <3>1, <3>2, <3>4 DEF Numbers
    <3>5. ASSUME NEW j \in Keys, NEW q \in minuteRequests[j] \union hourRequests[j]
          PROVE  /\ q.id <= served'
                 /\ \A g \in Threads : request'[g] # Nobody /\ request'[g].stage \in Unrecorded =>
                       q.id # request'[g].id
      <4>1. q.id <= served /\ q.id \in Nat
        BY <3>3 DEF Numbers
      <4>2. ASSUME NEW g \in Threads, request'[g] # Nobody, request'[g].stage \in Unrecorded
            PROVE  q.id # request'[g].id
        <5>1. CASE g = h
          BY <3>1, <4>1, <5>1
        <5>2. CASE g # h
          BY <3>2, <4>2, <5>2 DEF Numbers
        <5> QED
          BY <5>1, <5>2
      <4> QED
        BY <3>1, <4>1, <4>2
    <3> QED
      BY <3>1, <3>4, <3>5 DEF Numbers
  <2>5. ASSUME NEW ks \in {{k} : k \in Keys} \union {Keys}, ResetRateLimit(h, ks)
        PROVE  Numbers'
    <3>1. ASSUME NEW g \in Threads, request'[g] # Nobody
          PROVE  /\ request[g] # Nobody /\ request'[g].id = request[g].id
                 /\ request'[g].stage = request[g].stage
      <4>1. g # h
        BY <2>5, <3>1 DEF ResetRateLimit
      <4>2. CASE request[g] # Nobody /\ request[g].key \in ks
        <5>1. request'[g] = [request[g] EXCEPT !.alone = FALSE] /\ request[g] \in ServedRequests
          BY <1>1, <2>5, <4>1, <4>2 DEF ResetRateLimit, GateTypeOK
        <5> QED
          BY <4>2, <5>1 DEF ServedRequests
      <4>3. CASE ~(request[g] # Nobody /\ request[g].key \in ks)
        <5>1. request'[g] = request[g]
          BY <2>5, <4>1, <4>3 DEF ResetRateLimit
        <5> QED
          BY <3>1, <4>3, <5>1
      <4> QED
        BY <4>2, <4>3
    <3>2. /\ served' = served
          /\ \A k \in Keys : minuteRequests'[k] \subseteq minuteRequests[k] /\ hourRequests'[k] \subseteq hourRequests[k]
      BY <1>1, <2>5 DEF ResetRateLimit, ResetLimits
    <3> QED
      BY <3>1, <3>2 DEF Numbers
  <2> QED
    BY <1>3, <2>1, <2>2, <2>3, <2>4, <2>5 DEF Serve
<1>4. CASE Time \/ UNCHANGED gateVars
  BY <1>1, <1>4, NumbersMove DEF Time, Tick, gateVars, limiterVars
<1> QED
  BY <1>3, <1>4 DEF GateNext

\* A request is recorded once: counting a set of numbered requests counts what
\* _record_request appends to its lists.
THEOREM EachRequestRecordedOnce == GateSpec => []RecordedOnce
<1>1. GateInit => LimitInv /\ Numbers
  <2>1. GateInit => Numbers
    BY DEF GateInit, LimiterInit, Numbers
  <2> QED
    BY <2>1, LimitInitially
<1>2. GateTypeOK /\ Numbers => RecordedOnce
  <2> SUFFICES ASSUME GateTypeOK, Numbers, NEW h \in Threads, At(h, "record")
               PROVE  Recorded(request[h]) \notin minuteRequests[request[h].key] \union hourRequests[request[h].key]
    BY DEF RecordedOnce
  <2>1. request[h] # Nobody /\ request[h].stage \in Unrecorded /\ request[h].key \in Keys
    BY DEF At, Unrecorded, GateTypeOK, ServedRequests
  <2>2. Recorded(request[h]).id = request[h].id
    BY DEF Recorded
  <2> QED
    BY <2>1, <2>2 DEF Numbers
<1> QED
  BY <1>1, <1>2, LimitStep, NumbersStep, GateInvariance, PTL DEF GateSpec, GateInv

-----------------------------------------------------------------------------
(***************************************************************************)
(* WebSocket connections: types.                                           *)
(***************************************************************************)
Broadcasts == [todo : SUBSET Sockets, closed : SUBSET Sockets]

SocketTypeOK ==
    /\ lists \in Seq(Seq(Nat)) /\ current \in 0..Len(lists)
    /\ subscribers \subseteq Sockets
    /\ link \in [Sockets -> {"new", "replay", "open", "ended"}]
    /\ replay \in [Sockets -> [list : 0..Len(lists), next : Nat \ {0}]]
    /\ published \in Nat
    /\ sending \in Seq(Broadcasts)
    /\ inbox \in [Sockets -> Seq(Nat)]
    /\ before \in [Sockets -> Nat]

\* The event of s's replay that comes at i.
Replayed(s, e) == \E i \in 1..(replay[s].next - 1) : Listed(replay[s].list)[i] = e

Due(s, e) == s \in sending[e].todo

\* Events are numbered as they are published, and a list holds them in order.
EventsNumbered ==
    /\ Len(sending) = published
    /\ \A s \in Sockets : \A i \in 1..Len(inbox[s]) : inbox[s][i] <= published
    /\ \A l \in 1..Len(lists) :
          /\ \A i \in 1..Len(lists[l]) : lists[l][i] \in 1..published
          /\ \A i, j \in 1..Len(lists[l]) : i < j => lists[l][i] < lists[l][j]
    /\ \A s \in Sockets : replay[s].next <= Len(Listed(replay[s].list)) + 1
    /\ \A s \in Sockets : before[s] <= published

\* Before it connects nothing reaches a client, and whoever is found closed is gone.
Quiet ==
    /\ \A s \in Sockets : link[s] = "new" =>
          /\ inbox[s] = <<>> /\ s \notin subscribers /\ replay[s].next = 1
          /\ \A e \in 1..published : ~Due(s, e)
    /\ \A e \in 1..published : sending[e].closed \subseteq gone
    /\ \A s \in Sockets \ gone : link[s] \in {"replay", "open"} => s \in subscribers
    /\ \A s \in Sockets \ gone : link[s] # "ended"

\* An event comes, or is about to come, once by broadcast if it was published
\* after the subscription and once by the replay if it was replayed.
AtMost ==
    \A s \in Sockets : \A e \in 1..published :
        /\ Times(s, e) + (IF Due(s, e) THEN 1 ELSE 0)
              <= (IF e > before[s] THEN 1 ELSE 0) + (IF Replayed(s, e) THEN 1 ELSE 0)

\* What a client has replayed it has received; what is in the history it was, or
\* will be, sent by a broadcast, or it is in the list the replay goes through.
Covered(s) ==
    /\ \A e \in 1..published : Replayed(s, e) => Times(s, e) >= 1
    /\ \A i \in 1..Len(Listed(current)) : \A e \in 1..published :
          e = Listed(current)[i] =>
             IF e > before[s] THEN Times(s, e) >= 1 \/ Due(s, e)
             ELSE /\ replay[s].list = current
                  /\ link[s] = "open" => i < replay[s].next

AtLeast == \A s \in Sockets \ gone : link[s] \in {"replay", "open"} => Covered(s)

SocketInv == SocketTypeOK /\ EventsNumbered /\ Quiet /\ AtMost /\ AtLeast

-----------------------------------------------------------------------------
(* Counting what a client received.                                        *)

Occurrences(q, e) == Cardinality({i \in DOMAIN q : q[i] = e})

LEMMA OccurrencesType ==
    ASSUME NEW q \in Seq(Nat), NEW e
    PROVE  /\ IsFiniteSet({i \in DOMAIN q : q[i] = e}) /\ Occurrences(q, e) \in Nat
           /\ (\A i \in 1..Len(q) : q[i] # e) => Occurrences(q, e) = 0
<1>1. DOMAIN q = 1..Len(q) /\ Len(q) \in Nat
  OBVIOUS
<1>2. IsFiniteSet(1..Len(q))
  BY <1>1, FS_Interval
<1>3. IsFiniteSet({i \in DOMAIN q : q[i] = e})
  BY <1>1, <1>2, FS_Subset
<1>4. (\A i \in 1..Len(q) : q[i] # e) => {i \in DOMAIN q : q[i] = e} = {}
  BY <1>1
<1> QED
  BY <1>3, <1>4, FS_CardinalityType, FS_EmptySet DEF Occurrences

LEMMA OccurrencesAppend ==
    ASSUME NEW q \in Seq(Nat), NEW d \in Nat, NEW e
    PROVE  Occurrences(Append(q, d), e) = Occurrences(q, e) + (IF e = d THEN 1 ELSE 0)
<1> DEFINE S == {i \in DOMAIN q : q[i] = e}
           T == {i \in DOMAIN Append(q, d) : Append(q, d)[i] = e}
<1>1. /\ DOMAIN q = 1..Len(q) /\ DOMAIN Append(q, d) = 1..(Len(q) + 1) /\ Len(q) \in Nat
      /\ \A i \in 1..Len(q) : Append(q, d)[i] = q[i]
      /\ Append(q, d)[Len(q) + 1] = d
  OBVIOUS
<1>2. IsFiniteSet(S) /\ Cardinality(S) \in Nat
  BY OccurrencesType DEF Occurrences
<1>3. Occurrences(q, e) = Cardinality(S) /\ Occurrences(Append(q, d), e) = Cardinality(T)
  BY DEF Occurrences
<1> HIDE DEF S, T
<1>4. CASE e = d
  <2>1. T = S \union {Len(q) + 1} /\ Len(q) + 1 \notin S
    BY <1>1, <1>4 DEF S, T
  <2>2. Cardinality(T) = Cardinality(S) + 1
    BY <1>2, <2>1, FS_AddElement
  <2> QED
    BY <1>2, <1>3, <1>4, <2>2
<1>5. CASE e # d
  <2>1. T = S
    BY <1>1, <1>5 DEF S, T
  <2> QED
    BY <1>2, <1>3, <1>5, <2>1
<1> QED
  BY <1>4, <1>5

LEMMA TimesType ==
    ASSUME SocketTypeOK, NEW s \in Sockets, NEW e
    PROVE  Times(s, e) \in Nat /\ Times(s, e) = Occurrences(inbox[s], e)
<1>1. inbox[s] \in Seq(Nat)
  BY DEF SocketTypeOK
<1>2. Times(s, e) = Occurrences(inbox[s], e)
  BY DEF Times, Occurrences
<1> QED
  BY <1>1, <1>2, OccurrencesType

\* A client received d.
LEMMA ReceiveFacts ==
    ASSUME SocketTypeOK, NEW s \in Sockets, NEW d \in Nat, Receive(s, d)
    PROVE  /\ inbox' \in [Sockets -> Seq(Nat)]
           /\ \A q \in Sockets \ {s} : inbox'[q] = inbox[q]
           /\ inbox'[s] = Append(inbox[s], d)
           /\ \A e : Times(s, e)' = Times(s, e) + (IF e = d THEN 1 ELSE 0)
           /\ \A q \in Sockets \ {s} : \A e : Times(q, e)' = Times(q, e)
<1>1. /\ inbox' \in [Sockets -> Seq(Nat)]
      /\ \A q \in Sockets \ {s} : inbox'[q] = inbox[q]
      /\ inbox'[s] = Append(inbox[s], d) /\ inbox[s] \in Seq(Nat)
  BY DEF SocketTypeOK, Receive
<1>2. ASSUME NEW e
      PROVE  Times(s, e)' = Times(s, e) + (IF e = d THEN 1 ELSE 0)
  <2>1. Times(s, e)' = Occurrences(Append(inbox[s], d), e)
    BY <1>1 DEF Times, Occurrences
  <2> QED
    BY <1>1, <2>1, OccurrencesAppend, TimesType
<1>3. \A q \in Sockets \ {s} : \A e : Times(q, e)' = Times(q, e)
  BY <1>1 DEF Times
<1> QED
  BY <1>1, <1>2, <1>3

-----------------------------------------------------------------------------
(* The invariant is inductive.                                             *)

\* Steps that send nothing and publish nothing: the end of a replay, clients that
\* leave, and clear_history.
GoingAway ==
    \/ ClearHistory
    \/ \E e \in DOMAIN sending : DropClosed(e)
    \/ \E s \in Sockets : ReplayRaises(s) \/ ReplayDone(s) \/ GoAway(s) \/ Disconnect(s)

LEMMA LeavingKeeps ==
    ASSUME SocketInv, GoingAway
    PROVE  SocketInv'
<1>1. /\ UNCHANGED <<lists, replay, published, inbox, before>>
      /\ current' \in {0, current} /\ gone \subseteq gone'
  BY DEF GoingAway, ClearHistory, DropClosed, ReplayRaises, ReplayDone, GoAway, Disconnect
<1>2. /\ Len(sending') = Len(sending)
      /\ sending' \in Seq(Broadcasts)
      /\ \A e \in 1..published : sending'[e].todo = sending[e].todo
                                 /\ sending'[e].closed \subseteq sending[e].closed
  <2>1. CASE \E e \in DOMAIN sending : DropClosed(e)
    <3>1. PICK e \in DOMAIN sending : DropClosed(e)
      BY <2>1
    <3>2. /\ sending \in Seq(Broadcasts)
          /\ sending' = [sending EXCEPT ![e].closed = {}]
          /\ DOMAIN sending = 1..published /\ e \in 1..Len(sending)
      BY <3>1 DEF DropClosed, SocketInv, SocketTypeOK, EventsNumbered
    <3>3. sending[e] \in Broadcasts
      BY <3>2, ElementOfSeq
    <3>4. /\ sending' = [sending EXCEPT ![e] = [sending[e] EXCEPT !.closed = {}]]
          /\ sending'[e] = [sending[e] EXCEPT !.closed = {}]
          /\ \A d \in 1..published \ {e} : sending'[d] = sending[d]
      BY <3>2
    <3>5. /\ [sending[e] EXCEPT !.closed = {}] \in Broadcasts
          /\ sending'[e].todo = sending[e].todo /\ sending'[e].closed = {}
      BY <3>3, <3>4 DEF Broadcasts
    <3>6. /\ sending' \in Seq(Broadcasts)
          /\ Len(sending') = Len(sending)
      <4> DEFINE x == [sending[e] EXCEPT !.closed = {}]
      <4>1. x \in Broadcasts /\ sending' = [sending EXCEPT ![e] = x]
        BY <3>4, <3>5
      <4> HIDE DEF x
      <4>2. sending \in Seq(Broadcasts) /\ e \in 1..Len(sending)
        BY <3>2
      <4>3. /\ [sending EXCEPT ![e] = x] \in Seq(Broadcasts)
            /\ Len([sending EXCEPT ![e] = x]) = Len(sending)
        BY <4>1, <4>2, ExceptSeq
      <4> QED
        BY <4>1, <4>3
    <3> QED
      BY <3>4, <3>5, <3>6
  <2>2. CASE ~\E e \in DOMAIN sending : DropClosed(e)
    <3>1. sending' = sending
      BY <2>2 DEF GoingAway, ClearHistory, ReplayRaises, ReplayDone, GoAway, Disconnect
    <3> QED
      BY <3>1 DEF SocketInv, SocketTypeOK
  <2> QED
    BY <2>1, <2>2
<1>3. /\ link' \in [Sockets -> {"new", "replay", "open", "ended"}]
      /\ \A s \in Sockets : \/ link'[s] = link[s]
                            \/ link'[s] = "ended" /\ s \in gone
                            \/ /\ link[s] = "replay" /\ link'[s] = "open"
                               /\ replay[s].next > Len(Listed(replay[s].list))
      /\ \A s \in Sockets : link'[s] = "new" <=> link[s] = "new"
  BY DEF GoingAway, ClearHistory, DropClosed, ReplayRaises, ReplayDone, GoAway, Disconnect, SocketInv,
     SocketTypeOK
<1>4. /\ subscribers' \subseteq subscribers
      /\ \A s \in subscribers : s \in subscribers' \/ s \in gone
  <2>1. \A e \in DOMAIN sending : sending[e].closed \subseteq gone
    BY DEF SocketInv, SocketTypeOK, EventsNumbered, Quiet
  <2> QED
    BY <2>1 DEF GoingAway, ClearHistory, DropClosed, ReplayRaises, ReplayDone, GoAway, Disconnect
<1>5. /\ \A s \in Sockets : \A e : Times(s, e)' = Times(s, e)
      /\ \A s \in Sockets : \A e : Replayed(s, e)' <=> Replayed(s, e)
      /\ \A s \in Sockets : \A e \in 1..published : Due(s, e)' <=> Due(s, e)
      /\ \A s \in Sockets : Listed(replay[s].list)' = Listed(replay[s].list)
  BY <1>1, <1>2 DEF Times, Replayed, Due, Listed
<1>6. SocketTypeOK'
  BY <1>1, <1>2, <1>3, <1>4 DEF SocketInv, SocketTypeOK
<1>7. EventsNumbered'
  BY <1>1, <1>2, <1>5 DEF SocketInv, EventsNumbered
<1>8. Quiet'
  BY <1>1, <1>2, <1>3, <1>4, <1>5 DEF SocketInv, Quiet
<1>9. AtMost'
  BY <1>1, <1>5 DEF SocketInv, AtMost
<1>10. AtLeast'
  <2> SUFFICES ASSUME NEW s \in Sockets \ gone', link'[s] \in {"replay", "open"}
               PROVE  Covered(s)'
    BY DEF AtLeast
  <2>1. s \in Sockets \ gone /\ link[s] \in {"replay", "open"}
    BY <1>1, <1>3
  <2>2. Covered(s)
    BY <2>1 DEF SocketInv, AtLeast
  <2>3. \A e \in 1..published : Replayed(s, e)' => Times(s, e)' >= 1
    BY <1>5, <2>1, <2>2 DEF Covered
  <2>4. CASE current' = 0
    BY <1>1, <2>3, <2>4 DEF Covered, Listed
  <2>5. CASE current' = current
    <3>1. Listed(current)' = Listed(current)
      BY <1>1, <2>5 DEF Listed
    <3>2. ASSUME NEW i \in 1..Len(Listed(current)), NEW e \in 1..published,
                 e = Listed(current)[i], ~(e > before[s]), link'[s] = "open"
          PROVE  i < replay[s].next
      <4>1. replay[s].list = current /\ (link[s] = "open" => i < replay[s].next)
        BY <2>2, <3>2 DEF Covered
      <4>2. CASE link[s] = "replay"
        BY <1>3, <2>1, <3>2, <4>1, <4>2, SMTT(30) DEF SocketInv, SocketTypeOK
      <4> QED
        BY <2>1, <4>1, <4>2
    <3>3. \A e \in 1..published : (Times(s, e)' = Times(s, e)) /\ (Due(s, e)' <=> Due(s, e))
      BY <1>5, <2>1
    <3>4. ASSUME NEW i \in 1..Len(Listed(current)), NEW e \in 1..published,
                 e = Listed(current)[i]
          PROVE  IF e > before[s] THEN Times(s, e)' >= 1 \/ Due(s, e)'
                 ELSE /\ replay[s].list = current
                      /\ link'[s] = "open" => i < replay[s].next
      BY <2>2, <3>2, <3>3, <3>4 DEF Covered
    <3> QED
      BY <1>1, <2>3, <2>5, <3>1, <3>4 DEF Covered
  <2> QED
    BY <1>1, <2>4, <2>5
<1> QED
  BY <1>6, <1>7, <1>8, <1>9, <1>10 DEF SocketInv

LEMMA ConnectKeeps ==
    ASSUME SocketInv, NEW s \in Sockets, Connect(s)
    PROVE  SocketInv'
<1>1. /\ UNCHANGED <<lists, current, gone, published, sending, inbox>>
      /\ subscribers' = subscribers \union {s}
      /\ link[s] = "new" /\ s \notin gone
      /\ link' \in [Sockets -> {"new", "replay", "open", "ended"}] /\ link'[s] = "replay"
      /\ \A q \in Sockets \ {s} : link'[q] = link[q]
      /\ before' \in [Sockets -> Nat] /\ before'[s] = published
      /\ \A q \in Sockets \ {s} : before'[q] = before[q]
  BY DEF Connect, SocketInv, SocketTypeOK
<1>2. /\ replay' \in [Sockets -> [list : 0..Len(lists), next : Nat \ {0}]]
      /\ replay'[s].list = current /\ replay'[s].next = 1
      /\ \A q \in Sockets \ {s} : replay'[q] = replay[q]
  <2>1. /\ replay' = [replay EXCEPT ![s].list = current] /\ replay[s].next = 1
        /\ replay \in [Sockets -> [list : 0..Len(lists), next : Nat \ {0}]]
        /\ current \in 0..Len(lists)
    BY DEF Connect, SocketInv, SocketTypeOK, Quiet
  <2>2. /\ replay'[s] = [replay[s] EXCEPT !.list = current]
        /\ replay[s] \in [list : 0..Len(lists), next : Nat \ {0}]
    BY <2>1
  <2>3. /\ replay'[s] \in [list : 0..Len(lists), next : Nat \ {0}]
        /\ replay'[s].list = current /\ replay'[s].next = 1
    BY <2>1, <2>2
  <2> QED
    BY <2>1, <2>3
<1>3. /\ \A q \in Sockets : \A e : Times(q, e)' = Times(q, e)
      /\ \A q \in Sockets : \A e : Due(q, e)' <=> Due(q, e)
      /\ \A l : Listed(l)' = Listed(l)
  BY <1>1 DEF Times, Due, Listed
<1>4. /\ \A q \in Sockets \ {s} : \A e : Replayed(q, e)' <=> Replayed(q, e)
      /\ \A e : ~Replayed(s, e)'
  BY <1>1, <1>2 DEF Replayed, Listed
<1>5. \A e \in 1..published : Times(s, e) = 0 /\ ~Due(s, e)
  <2>1. inbox[s] = <<>> /\ \A e \in 1..published : ~Due(s, e)
    BY <1>1 DEF SocketInv, Quiet
  <2>2. inbox[s] \in Seq(Nat) /\ \A i \in 1..Len(inbox[s]) : FALSE
    BY <2>1 DEF SocketInv, SocketTypeOK
  <2>3. \A e : Occurrences(inbox[s], e) = 0
    BY <2>2, OccurrencesType
  <2> QED
    BY <2>1, <2>3, TimesType DEF SocketInv
<1>6. SocketTypeOK'
  BY <1>1, <1>2 DEF SocketInv, SocketTypeOK
<1>7. EventsNumbered'
  <2>1. \A l \in 0..Len(lists) : Len(Listed(l)) \in Nat
    BY DEF SocketInv, SocketTypeOK, Listed
  <2>2. \A q \in Sockets : replay'[q].next <= Len(Listed(replay'[q].list)) + 1
    <3>1. \A q \in Sockets \ {s} : replay'[q].next <= Len(Listed(replay'[q].list)) + 1
      BY <1>2 DEF SocketInv, EventsNumbered
    <3>2. Len(Listed(current)) \in Nat
      BY <2>1 DEF SocketInv, SocketTypeOK
    <3>3. replay'[s].next <= Len(Listed(replay'[s].list)) + 1
      BY <1>2, <3>2
    <3> QED
      BY <3>1, <3>3
  <2>3. \A q \in Sockets : before'[q] <= published
    <3>1. published \in Nat /\ \A q \in Sockets : before[q] <= published
      BY DEF SocketInv, SocketTypeOK, EventsNumbered
    <3>2. published <= published
      BY <3>1
    <3> QED
      BY <1>1, <3>1, <3>2
  <2> QED
    BY <1>1, <2>2, <2>3 DEF SocketInv, EventsNumbered, Listed
<1>8. Quiet'
  BY <1>1, <1>2, <1>3, ZenonT(60) DEF SocketInv, Quiet
<1>9. AtMost'
  <2> SUFFICES ASSUME NEW q \in Sockets, NEW e \in 1..published
               PROVE  Times(q, e) + (IF Due(q, e) THEN 1 ELSE 0)
                         <= (IF e > before'[q] THEN 1 ELSE 0)
                            + (IF Replayed(q, e)' THEN 1 ELSE 0)
    BY <1>1, <1>3 DEF AtMost
  <2>1. CASE q = s
    BY <1>1, <1>5, <2>1 DEF SocketInv, SocketTypeOK
  <2>2. CASE q # s
    BY <1>1, <1>4, <2>2 DEF SocketInv, AtMost
  <2> QED
    BY <2>1, <2>2
<1>10. AtLeast'
  <2> SUFFICES ASSUME NEW q \in Sockets \ gone, link'[q] \in {"replay", "open"}
               PROVE  Covered(q)'
    BY <1>1 DEF AtLeast
  <2>1. CASE q = s
    <3>1. \A e \in 1..published : ~(e > before'[s])
      BY <1>1 DEF SocketInv, SocketTypeOK
    <3> QED
      BY <1>1, <1>2, <1>3, <1>4, <2>1, <3>1 DEF Covered
  <2>2. CASE q # s
    <3>1. Covered(q)
      BY <1>1, <2>2 DEF SocketInv, AtLeast
    <3>2. /\ link'[q] = link[q] /\ replay'[q] = replay[q] /\ before'[q] = before[q]
          /\ published' = published /\ current' = current /\ Listed(current)' = Listed(current)
          /\ \A e : Times(q, e)' = Times(q, e)
          /\ \A e : (Due(q, e)' <=> Due(q, e)) /\ (Replayed(q, e)' <=> Replayed(q, e))
      BY <1>1, <1>2, <1>3, <1>4, <2>2 DEF Listed
    <3> QED
      BY <3>1, <3>2 DEF Covered
  <2> QED
    BY <2>1, <2>2
<1> QED
  BY <1>6, <1>7, <1>8, <1>9, <1>10 DEF SocketInv

LEMMA ReplaySendKeeps ==
    ASSUME SocketInv, NEW s \in Sockets, ReplaySend(s)
    PROVE  SocketInv'
<1> DEFINE n == replay[s].next
           d == Listed(replay[s].list)[n]
<1>1. /\ UNCHANGED <<lists, current, subscribers, link, gone, published, sending, before>>
      /\ link[s] = "replay" /\ s \notin gone /\ n <= Len(Listed(replay[s].list))
      /\ Receive(s, d)
  BY DEF ReplaySend
<1>2. /\ replay' \in [Sockets -> [list : 0..Len(lists), next : Nat \ {0}]]
      /\ replay'[s].list = replay[s].list /\ replay'[s].next = n + 1 /\ n \in Nat \ {0}
      /\ \A q \in Sockets \ {s} : replay'[q] = replay[q]
  <2>1. /\ replay' = [replay EXCEPT ![s].next = @ + 1]
        /\ replay \in [Sockets -> [list : 0..Len(lists), next : Nat \ {0}]]
    BY DEF ReplaySend, SocketInv, SocketTypeOK
  <2>2. /\ replay'[s] = [replay[s] EXCEPT !.next = replay[s].next + 1]
        /\ replay[s] \in [list : 0..Len(lists), next : Nat \ {0}]
    BY <2>1
  <2>3. n + 1 \in Nat \ {0} /\ n \in Nat \ {0}
    BY <2>2
  <2>4. /\ replay'[s] \in [list : 0..Len(lists), next : Nat \ {0}]
        /\ replay'[s].list = replay[s].list /\ replay'[s].next = n + 1
    BY <2>2, <2>3
  <2> QED
    BY <2>1, <2>3, <2>4
<1>3. /\ replay[s].list \in 1..Len(lists) /\ d \in 1..published
      /\ Len(Listed(replay[s].list)) \in Nat
      /\ \A i \in 1..(n - 1) : Listed(replay[s].list)[i] < d
  <2>1. replay[s].list \in 0..Len(lists)
    BY DEF SocketInv, SocketTypeOK
  <2>2. replay[s].list # 0
    BY <1>1, <1>2 DEF Listed
  <2>3. /\ replay[s].list \in 1..Len(lists) /\ Listed(replay[s].list) = lists[replay[s].list]
        /\ Len(lists[replay[s].list]) \in Nat
    BY <2>1, <2>2 DEF Listed, SocketInv, SocketTypeOK
  <2> DEFINE l == replay[s].list
  <2>4. n \in 1..Len(lists[l]) /\ d = lists[l][n] /\ n \in Nat
    BY <1>1, <1>2, <2>3
  <2>5. /\ l \in 1..Len(lists) /\ Len(lists[l]) \in Nat
        /\ \A i \in 1..Len(lists[l]) : lists[l][i] \in 1..published
        /\ \A i, j \in 1..Len(lists[l]) : i < j => lists[l][i] < lists[l][j]
    BY <2>3 DEF SocketInv, EventsNumbered
  <2> HIDE DEF n, d
  <2>6. \A i \in 1..(n - 1) : i \in 1..Len(lists[l]) /\ i < n
    BY <2>4, <2>5
  <2>7. d \in 1..published /\ \A i \in 1..(n - 1) : lists[l][i] < d
    BY <2>4, <2>5, <2>6
  <2> QED
    BY <2>3, <2>7
<1> HIDE DEF n, d
<1>4. /\ \A q \in Sockets : \A e : Due(q, e)' <=> Due(q, e)
      /\ \A l : Listed(l)' = Listed(l)
  BY <1>1 DEF Due, Listed
<1>5. /\ inbox' \in [Sockets -> Seq(Nat)]
      /\ \A q \in Sockets \ {s} : inbox'[q] = inbox[q]
      /\ inbox'[s] = Append(inbox[s], d)
      /\ \A e : Times(s, e)' = Times(s, e) + (IF e = d THEN 1 ELSE 0)
      /\ \A q \in Sockets \ {s} : \A e : Times(q, e)' = Times(q, e)
  <2>1. SocketTypeOK /\ d \in Nat /\ Receive(s, d)
    BY <1>1, <1>3, SMTT(30) DEF SocketInv, SocketTypeOK
  <2> QED
    BY <2>1, ReceiveFacts, Zenon
<1>6. /\ \A q \in Sockets \ {s} : \A e : Replayed(q, e)' <=> Replayed(q, e)
      /\ \A e : Replayed(s, e)' <=> Replayed(s, e) \/ e = d
      /\ ~Replayed(s, d)
  <2>1. \A q \in Sockets \ {s} : \A e : Replayed(q, e)' <=> Replayed(q, e)
    BY <1>1, <1>2 DEF Replayed, Listed
  <2>2. ~Replayed(s, d)
    BY <1>3 DEF Replayed, n
  <2>3. \A e : Replayed(s, e)' <=> \E i \in 1..n : Listed(replay[s].list)[i] = e
    <3>1. replay'[s].list = replay[s].list /\ replay'[s].next - 1 = n /\ lists' = lists
      BY <1>1, <1>2
    <3> QED
      BY <3>1 DEF Replayed, Listed
  <2>4. \A i : i \in 1..n <=> i \in 1..(n - 1) \/ i = n
    BY <1>2
  <2>5. \A e : Replayed(s, e)' <=> Replayed(s, e) \/ e = d
    BY <2>3, <2>4 DEF Replayed, n, d
  <2> QED
    BY <2>1, <2>2, <2>5
<1>7. \A q \in Sockets : \A e : Times(q, e) \in Nat
  BY TimesType DEF SocketInv
<1>8. SocketTypeOK'
  BY <1>1, <1>2, <1>5 DEF SocketInv, SocketTypeOK
<1>9. EventsNumbered'
  <2>1. \A q \in Sockets : \A i \in 1..Len(inbox'[q]) : inbox'[q][i] <= published
    <3> SUFFICES ASSUME NEW q \in Sockets, NEW i \in 1..Len(inbox'[q])
                 PROVE  inbox'[q][i] <= published
      OBVIOUS
    <3>1. CASE q # s
      BY <1>5, <3>1 DEF SocketInv, EventsNumbered
    <3>2. CASE q = s
      <4>1. inbox[s] \in Seq(Nat) /\ d \in Nat /\ d <= published
        BY <1>3 DEF SocketInv, SocketTypeOK
      <4>2. \/ i \in 1..Len(inbox[s]) /\ inbox'[s][i] = inbox[s][i]
            \/ inbox'[s][i] = d
        BY <1>5, <3>2, <4>1
      <4> QED
        BY <3>2, <4>1, <4>2 DEF SocketInv, EventsNumbered
    <3> QED
      BY <3>1, <3>2
  <2>2. \A q \in Sockets : replay'[q].next <= Len(Listed(replay'[q].list)) + 1
    BY <1>1, <1>2, <1>3, SMTT(30) DEF SocketInv, EventsNumbered
  <2> QED
    BY <1>1, <2>1, <2>2 DEF SocketInv, EventsNumbered, Listed
<1>10. Quiet'
  BY <1>1, <1>2, <1>4, <1>5 DEF SocketInv, Quiet
<1>11. AtMost'
  <2> SUFFICES ASSUME NEW q \in Sockets, NEW e \in 1..published
               PROVE  Times(q, e)' + (IF Due(q, e) THEN 1 ELSE 0)
                         <= (IF e > before[q] THEN 1 ELSE 0)
                            + (IF Replayed(q, e)' THEN 1 ELSE 0)
    BY <1>1, <1>4 DEF AtMost
  <2>1. Times(q, e) + (IF Due(q, e) THEN 1 ELSE 0)
           <= (IF e > before[q] THEN 1 ELSE 0) + (IF Replayed(q, e) THEN 1 ELSE 0)
    BY DEF SocketInv, AtMost
  <2>2. CASE q = s /\ e = d
    BY <1>5, <1>6, <1>7, <2>1, <2>2
  <2>3. CASE ~(q = s /\ e = d)
    BY <1>5, <1>6, <1>7, <2>1, <2>3
  <2> QED
    BY <2>2, <2>3
<1>12. AtLeast'
  <2> SUFFICES ASSUME NEW q \in Sockets \ gone, link[q] \in {"replay", "open"}
               PROVE  Covered(q)'
    BY <1>1 DEF AtLeast
  <2>1. Covered(q)
    BY DEF SocketInv, AtLeast
  <2>2. \A e : Times(q, e)' >= Times(q, e) /\ (q = s /\ e = d => Times(q, e)' >= 1)
    BY <1>5, <1>7
  <2>3. \A e \in 1..published : Replayed(q, e)' => Times(q, e)' >= 1
    BY <1>5, <1>6, <1>7, <2>1, <2>2 DEF Covered
  <2>4. replay'[q].list = replay[q].list /\ (link[q] = "open" => replay'[q] = replay[q])
    BY <1>1, <1>2
  <2>5. ASSUME NEW i \in 1..Len(Listed(current)), NEW e \in 1..published,
               e = Listed(current)[i]
        PROVE  IF e > before[q] THEN Times(q, e)' >= 1 \/ Due(q, e)
               ELSE /\ replay'[q].list = current
                    /\ link[q] = "open" => i < replay'[q].next
    <3>1. IF e > before[q] THEN Times(q, e) >= 1 \/ Due(q, e)
          ELSE /\ replay[q].list = current
               /\ link[q] = "open" => i < replay[q].next
      BY <2>1, <2>5 DEF Covered
    <3>2. Times(q, e) >= 1 => Times(q, e)' >= 1
      <4>1. Times(q, e) \in Nat
        BY <1>7
      <4>2. CASE q = s /\ e = d
        BY <2>2, <4>2
      <4>3. CASE ~(q = s /\ e = d)
        <5>1. Times(q, e)' = Times(q, e)
          BY <1>5, <1>7, <4>1, <4>3
        <5> QED
          BY <5>1
      <4> QED
        BY <4>2, <4>3
    <3> QED
      BY <2>4, <3>1, <3>2
  <2> QED
    BY <1>1, <1>4, <2>3, <2>5 DEF Covered
<1> QED
  BY <1>8, <1>9, <1>10, <1>11, <1>12 DEF SocketInv

LEMMA SendKeeps ==
    ASSUME SocketInv, NEW d \in DOMAIN sending, NEW s \in Sockets, Send(d, s)
    PROVE  SocketInv'
<1>1. /\ UNCHANGED <<lists, current, subscribers, link, replay, gone, published, before>>
      /\ s \in sending[d].todo
  BY DEF Send
<1>2. /\ sending \in Seq(Broadcasts) /\ d \in 1..Len(sending)
      /\ d \in 1..published /\ Len(sending) = published /\ d \in Nat
  BY DEF SocketInv, SocketTypeOK, EventsNumbered
<1>3. /\ sending' \in Seq(Broadcasts) /\ Len(sending') = published
      /\ sending'[d].todo = sending[d].todo \ {s}
      /\ sending'[d].closed \in {sending[d].closed, sending[d].closed \union {s}}
      /\ s \notin gone => sending'[d].closed = sending[d].closed
      /\ \A e \in 1..published \ {d} : sending'[e] = sending[e]
  <2> DEFINE x == [sending[d] EXCEPT !.todo = @ \ {s}, !.closed = @ \union {s}]
             y == [sending[d] EXCEPT !.todo = @ \ {s}]
  <2>1. sending[d] \in Broadcasts
    BY <1>2, ElementOfSeq
  <2>2. /\ x \in Broadcasts /\ x.todo = sending[d].todo \ {s}
        /\ x.closed = sending[d].closed \union {s}
        /\ y \in Broadcasts /\ y.todo = sending[d].todo \ {s} /\ y.closed = sending[d].closed
    BY <2>1 DEF Broadcasts
  <2>3. \/ s \in gone /\ sending' = [sending EXCEPT ![d] = x]
        \/ s \notin gone /\ sending' = [sending EXCEPT ![d] = y]
    BY <1>2 DEF Send
  <2> HIDE DEF x, y
  <2>4. \A z \in Broadcasts : /\ [sending EXCEPT ![d] = z] \in Seq(Broadcasts)
                              /\ Len([sending EXCEPT ![d] = z]) = published
                              /\ [sending EXCEPT ![d] = z][d] = z
                              /\ \A e \in 1..published \ {d} :
                                    [sending EXCEPT ![d] = z][e] = sending[e]
    BY <1>2, ExceptSeq
  <2> QED
    BY <2>2, <2>3, <2>4
<1>4. /\ \A q \in Sockets : \A e \in 1..published :
            Due(q, e)' <=> Due(q, e) /\ ~(q = s /\ e = d)
      /\ Due(s, d)
      /\ \A l : Listed(l)' = Listed(l)
      /\ \A q \in Sockets : \A e : Replayed(q, e)' <=> Replayed(q, e)
  BY <1>1, <1>3 DEF Due, Listed, Replayed
<1>5. \A q \in Sockets : \A e : Times(q, e) \in Nat
  BY TimesType DEF SocketInv
<1>6. /\ inbox' \in [Sockets -> Seq(Nat)]
      /\ \A q \in Sockets \ {s} : inbox'[q] = inbox[q]
      /\ inbox'[s] \in {inbox[s], Append(inbox[s], d)}
      /\ \A q \in Sockets : \A e : ~(q = s /\ e = d) => Times(q, e)' = Times(q, e)
      /\ Times(s, d)' \in {Times(s, d), Times(s, d) + 1}
      /\ s \notin gone => Times(s, d)' = Times(s, d) + 1
  <2>1. CASE s \in gone
    <3>1. inbox' = inbox
      BY <2>1 DEF Send
    <3> QED
      BY <2>1, <3>1 DEF Times, SocketInv, SocketTypeOK
  <2>2. CASE s \notin gone
    <3>1. SocketTypeOK /\ Receive(s, d)
      BY <2>2 DEF Send, SocketInv
    <3>2. /\ inbox' \in [Sockets -> Seq(Nat)]
          /\ \A q \in Sockets \ {s} : inbox'[q] = inbox[q]
          /\ inbox'[s] = Append(inbox[s], d)
          /\ \A e : Times(s, e)' = Times(s, e) + (IF e = d THEN 1 ELSE 0)
          /\ \A q \in Sockets \ {s} : \A e : Times(q, e)' = Times(q, e)
      BY <1>2, <3>1, ReceiveFacts, Zenon
    <3> QED
      BY <1>5, <2>2, <3>2
  <2> QED
    BY <2>1, <2>2
<1>7. SocketTypeOK'
  BY <1>1, <1>3, <1>6 DEF SocketInv, SocketTypeOK
<1>8. EventsNumbered'
  <2>1. \A q \in Sockets : \A i \in 1..Len(inbox'[q]) : inbox'[q][i] <= published
    <3> SUFFICES ASSUME NEW q \in Sockets, NEW i \in 1..Len(inbox'[q])
                 PROVE  inbox'[q][i] <= published
      OBVIOUS
    <3>1. CASE inbox'[q] = inbox[q]
      BY <3>1 DEF SocketInv, EventsNumbered
    <3>2. CASE q = s /\ inbox'[s] = Append(inbox[s], d)
      <4>1. inbox[s] \in Seq(Nat) /\ d <= published
        BY <1>2 DEF SocketInv, SocketTypeOK
      <4>2. \/ i \in 1..Len(inbox[s]) /\ inbox'[s][i] = inbox[s][i]
            \/ inbox'[s][i] = d
        BY <1>2, <3>2, <4>1
      <4> QED
        BY <3>2, <4>1, <4>2 DEF SocketInv, EventsNumbered
    <3> QED
      BY <1>6, <3>1, <3>2
  <2> QED
    BY <1>1, <1>3, <2>1 DEF SocketInv, EventsNumbered, Listed
<1>9. Quiet'
  <2>1. link[s] # "new"
    BY <1>2, <1>4 DEF SocketInv, Quiet
  <2>2. \A e \in 1..published : sending'[e].closed \subseteq gone
    BY <1>2, <1>3 DEF SocketInv, Quiet
  <2> QED
    BY <1>1, <1>4, <1>6, <2>1, <2>2 DEF SocketInv, Quiet
<1>10. AtMost'
  <2> SUFFICES ASSUME NEW q \in Sockets, NEW e \in 1..published
               PROVE  Times(q, e)' + (IF Due(q, e)' THEN 1 ELSE 0)
                         <= (IF e > before[q] THEN 1 ELSE 0)
                            + (IF Replayed(q, e) THEN 1 ELSE 0)
    BY <1>1, <1>4 DEF AtMost
  <2>1. Times(q, e) + (IF Due(q, e) THEN 1 ELSE 0)
           <= (IF e > before[q] THEN 1 ELSE 0) + (IF Replayed(q, e) THEN 1 ELSE 0)
    BY DEF SocketInv, AtMost
  <2>2. CASE q = s /\ e = d
    BY <1>4, <1>5, <1>6, <2>1, <2>2
  <2>3. CASE ~(q = s /\ e = d)
    BY <1>4, <1>5, <1>6, <2>1, <2>3
  <2> QED
    BY <2>2, <2>3
<1>11. AtLeast'
  <2> SUFFICES ASSUME NEW q \in Sockets \ gone, link[q] \in {"replay", "open"}
               PROVE  Covered(q)'
    BY <1>1 DEF AtLeast
  <2>1. Covered(q)
    BY DEF SocketInv, AtLeast
  <2>2. ASSUME NEW e \in 1..published
        PROVE  /\ Times(q, e) >= 1 => Times(q, e)' >= 1
               /\ Times(q, e) >= 1 \/ Due(q, e) => Times(q, e)' >= 1 \/ Due(q, e)'
    <3>1. CASE q = s /\ e = d
      BY <1>5, <1>6, <3>1
    <3>2. CASE ~(q = s /\ e = d)
      BY <1>4, <1>6, <3>2
    <3> QED
      BY <3>1, <3>2
  <2>3. Listed(current)' = Listed(current)
    BY <1>1 DEF Listed
  <2> QED
    BY <1>1, <1>4, <2>1, <2>2, <2>3 DEF Covered
<1> QED
  BY <1>7, <1>8, <1>9, <1>10, <1>11 DEF SocketInv

LEMMA PublishKeeps ==
    ASSUME SocketInv, Publish
    PROVE  SocketInv'
<1>0. PICK new \in Nat : new = published + 1
  BY DEF SocketInv, SocketTypeOK
<1>1. /\ UNCHANGED <<subscribers, link, replay, gone, inbox, before>>
      /\ published' = new /\ published \in Nat /\ new \in Nat
      /\ Len(sending) = published /\ sending \in Seq(Broadcasts)
      /\ sending' = Append(sending, [todo |-> subscribers, closed |-> {}])
      /\ new = published + 1
  BY <1>0 DEF Publish, SocketInv, SocketTypeOK, EventsNumbered
<1>2. subscribers \subseteq Sockets
  BY DEF SocketInv, SocketTypeOK
<1>3. /\ sending' \in Seq(Broadcasts) /\ Len(sending') = new
      /\ \A e \in 1..published : sending'[e] = sending[e]
      /\ sending'[new].todo = subscribers /\ sending'[new].closed = {}
  <2> DEFINE x == [todo |-> subscribers, closed |-> {}]
  <2>1. x \in Broadcasts /\ x.todo = subscribers /\ x.closed = {}
    BY <1>2 DEF Broadcasts
  <2>2. sending' = Append(sending, x)
    BY <1>1
  <2> HIDE DEF x
  <2>3. /\ sending' \in Seq(Broadcasts) /\ Len(sending') = Len(sending) + 1
        /\ \A e \in 1..Len(sending) : sending'[e] = sending[e]
        /\ sending'[Len(sending) + 1] = x
    BY <1>1, <2>1, <2>2, AppendProperties
  <2> QED
    BY <1>1, <2>1, <2>3
<1>4. \A e : e \in 1..new <=> e \in 1..published \/ e = new
  BY <1>1
<1>5. new \notin 1..published /\ new > published
  BY <1>1
\* The lists: one grows, or one is added, by the new event.
<1>6. /\ lists' \in Seq(Seq(Nat)) /\ Len(lists) \in Nat /\ Len(lists') \in {Len(lists), Len(lists) + 1}
      /\ current' \in 1..Len(lists')
      /\ \A l \in 1..Len(lists) : lists'[l] \in {lists[l], Append(lists[l], new)}
      /\ Len(lists') = Len(lists) + 1 => /\ lists'[Len(lists')] = <<new>>
                                         /\ current' = Len(lists') /\ current = 0
      /\ Len(lists') = Len(lists) => /\ current' = current
                                     /\ lists'[current] = Append(lists[current], new)
  <2>1. lists \in Seq(Seq(Nat)) /\ current \in 0..Len(lists) /\ Len(lists) \in Nat
    BY DEF SocketInv, SocketTypeOK
  <2>2. CASE current = 0
    <3>1. lists' = Append(lists, <<new>>) /\ current' = Len(lists) + 1
      BY <1>0, <2>2 DEF Publish
    <3>2. <<new>> \in Seq(Nat)
      BY <1>1
    <3> QED
      BY <2>1, <2>2, <3>1, <3>2, AppendProperties
  <2>3. CASE current # 0
    <3>1. /\ lists' = [lists EXCEPT ![current] = Append(lists[current], new)]
          /\ current' = current /\ current \in 1..Len(lists)
      BY <1>0, <2>1, <2>3 DEF Publish
    <3>2. lists[current] \in Seq(Nat)
      BY <2>1, <3>1, ElementOfSeq
    <3>3. Append(lists[current], new) \in Seq(Nat)
      BY <1>1, <3>2, AppendProperties
    <3> QED
      BY <2>1, <3>1, <3>3, ExceptSeq
  <2> QED
    BY <2>2, <2>3
<1>7. ASSUME NEW l \in 0..Len(lists)
      PROVE  /\ Listed(l) \in Seq(Nat) /\ Len(Listed(l)) \in Nat
             /\ Len(Listed(l)') \in {Len(Listed(l)), Len(Listed(l)) + 1}
             /\ \A i \in 1..Len(Listed(l)) : /\ Listed(l)'[i] = Listed(l)[i]
                                             /\ Listed(l)[i] \in 1..published
             /\ Len(Listed(l)') = Len(Listed(l)) + 1 => Listed(l)'[Len(Listed(l)) + 1] = new
  <2>1. CASE l = 0
    BY <2>1 DEF Listed
  <2>2. CASE l # 0
    <3>1. l \in 1..Len(lists) /\ lists \in Seq(Seq(Nat))
      BY <1>6, <2>2 DEF SocketInv, SocketTypeOK
    <3>2. /\ Listed(l) = lists[l] /\ Listed(l)' = lists'[l]
          /\ lists[l] \in Seq(Nat) /\ lists'[l] \in {lists[l], Append(lists[l], new)}
      BY <1>6, <2>2, <3>1, ElementOfSeq DEF Listed
    <3>3. \A i \in 1..Len(lists[l]) : lists[l][i] \in 1..published
      BY <3>1 DEF SocketInv, EventsNumbered
    <3>4. CASE lists'[l] = lists[l]
      BY <3>2, <3>3, <3>4
    <3>5. CASE lists'[l] = Append(lists[l], new)
      <4>1. /\ Len(lists[l]) \in Nat /\ Len(lists'[l]) = Len(lists[l]) + 1
            /\ \A i \in 1..Len(lists[l]) : lists'[l][i] = lists[l][i]
            /\ lists'[l][Len(lists[l]) + 1] = new
        BY <3>2, <3>5, AppendProperties
      <4> QED
        BY <3>2, <3>3, <4>1
    <3> QED
      BY <3>2, <3>4, <3>5
  <2> QED
    BY <2>1, <2>2
<1>8. \A s \in Sockets : /\ replay[s].list \in 0..Len(lists) /\ replay[s].next \in Nat \ {0}
                         /\ replay[s].next <= Len(Listed(replay[s].list)) + 1
  BY DEF SocketInv, SocketTypeOK, EventsNumbered
<1>9. \A s \in Sockets : \A i \in 1..(replay[s].next - 1) :
         i \in 1..Len(Listed(replay[s].list))
  BY <1>7, <1>8
<1>10. \A s \in Sockets : /\ \A e : Replayed(s, e)' <=> Replayed(s, e)
                          /\ ~Replayed(s, new)
  <2> SUFFICES ASSUME NEW s \in Sockets
               PROVE  (\A e : Replayed(s, e)' <=> Replayed(s, e)) /\ ~Replayed(s, new)
    OBVIOUS
  <2>1. \A i \in 1..(replay[s].next - 1) :
           /\ Listed(replay[s].list)'[i] = Listed(replay[s].list)[i]
           /\ Listed(replay[s].list)[i] \in 1..published
    BY <1>1, <1>7, <1>8, <1>9 DEF Listed
  <2> QED
    BY <1>1, <1>5, <2>1 DEF Replayed
<1>11. /\ \A s \in Sockets : \A e : Times(s, e)' = Times(s, e)
       /\ \A s \in Sockets : \A e : Times(s, e) \in Nat
       /\ \A s \in Sockets : Times(s, new) = 0
  <2>1. \A s \in Sockets : \A e : Times(s, e)' = Times(s, e)
    BY <1>1 DEF Times
  <2>2. ASSUME NEW s \in Sockets
        PROVE  Times(s, new) = 0
    <3>1. inbox[s] \in Seq(Nat) /\ Len(inbox[s]) \in Nat
      BY DEF SocketInv, SocketTypeOK
    <3>2. \A i \in 1..Len(inbox[s]) : inbox[s][i] <= published
      BY DEF SocketInv, EventsNumbered
    <3>3. \A i \in 1..Len(inbox[s]) : inbox[s][i] # new
      BY <1>1, <3>1, <3>2
    <3>4. Times(s, new) = Occurrences(inbox[s], new)
      BY TimesType DEF SocketInv
    <3>5. Occurrences(inbox[s], new) = 0
      BY <3>1, <3>3, OccurrencesType
    <3> QED
      BY <3>4, <3>5
  <2> QED
    BY <2>1, <2>2, TimesType DEF SocketInv
<1>12. /\ \A s \in Sockets : \A e \in 1..published : Due(s, e)' <=> Due(s, e)
       /\ \A s \in Sockets : Due(s, new)' <=> s \in subscribers
  BY <1>1, <1>3 DEF Due
<1>13. SocketTypeOK'
  <2>1. \A l : l \in 0..Len(lists) => l \in 0..Len(lists')
    BY <1>6
  <2>2. replay \in [Sockets -> [list : 0..Len(lists'), next : Nat \ {0}]]
    BY <2>1 DEF SocketInv, SocketTypeOK
  <2>3. current' \in 0..Len(lists')
    BY <1>6
  <2>4. /\ replay' \in [Sockets -> [list : 0..Len(lists'), next : Nat \ {0}]]
        /\ subscribers' \subseteq Sockets /\ published' \in Nat
    BY <1>1, <1>2, <2>2
  <2>5. /\ link' \in [Sockets -> {"new", "replay", "open", "ended"}]
        /\ inbox' \in [Sockets -> Seq(Nat)] /\ before' \in [Sockets -> Nat]
    BY <1>1 DEF SocketInv, SocketTypeOK
  <2> QED
    BY <1>3, <1>6, <2>3, <2>4, <2>5, Zenon DEF SocketTypeOK
<1>14. EventsNumbered'
  <2>1. \A s \in Sockets : \A i \in 1..Len(inbox[s]) : inbox[s][i] <= new
    BY <1>1 DEF SocketInv, SocketTypeOK, EventsNumbered
  <2>2. ASSUME NEW l \in 1..Len(lists')
        PROVE  /\ \A i \in 1..Len(lists'[l]) : lists'[l][i] \in 1..new
               /\ \A i, j \in 1..Len(lists'[l]) : i < j => lists'[l][i] < lists'[l][j]
    <3>1. CASE l \in 1..Len(lists) /\ lists'[l] = lists[l]
      BY <1>4, <3>1 DEF SocketInv, EventsNumbered
    <3>2. CASE l \in 1..Len(lists) /\ lists'[l] = Append(lists[l], new)
      <4>1. lists[l] \in Seq(Nat)
        BY <3>2, ElementOfSeq DEF SocketInv, SocketTypeOK
      <4>2. /\ Len(lists[l]) \in Nat /\ Len(lists'[l]) = Len(lists[l]) + 1
            /\ \A i \in 1..Len(lists[l]) : lists'[l][i] = lists[l][i]
            /\ lists'[l][Len(lists[l]) + 1] = new
        BY <1>1, <3>2, <4>1, AppendProperties
      <4>3. /\ \A i \in 1..Len(lists[l]) : lists[l][i] \in 1..published
            /\ \A i, j \in 1..Len(lists[l]) : i < j => lists[l][i] < lists[l][j]
        BY <3>2 DEF SocketInv, EventsNumbered
      <4>4. \A i \in 1..Len(lists'[l]) : i \in 1..Len(lists[l]) \/ i = Len(lists[l]) + 1
        BY <4>2
      <4>5. \A i \in 1..Len(lists'[l]) : lists'[l][i] \in 1..new
        BY <1>4, <1>1, <4>2, <4>3, <4>4
      <4>6. ASSUME NEW i \in 1..Len(lists'[l]), NEW j \in 1..Len(lists'[l]), i < j
            PROVE  lists'[l][i] < lists'[l][j]
        <5>1. i \in 1..Len(lists[l])
          BY <4>2, <4>6
        <5>2. lists'[l][i] = lists[l][i] /\ lists[l][i] \in 1..published
          BY <4>2, <4>3, <5>1
        <5>3. CASE j \in 1..Len(lists[l])
          BY <4>2, <4>3, <4>6, <5>1, <5>2, <5>3
        <5>4. CASE j = Len(lists[l]) + 1
          BY <1>1, <4>2, <5>2, <5>4
        <5> QED
          BY <4>4, <5>3, <5>4
      <4> QED
        BY <4>5, <4>6
    <3>3. CASE lists'[l] = <<new>>
      BY <1>1, <3>3
    <3>4. l \in 1..Len(lists) \/ (Len(lists') = Len(lists) + 1 /\ l = Len(lists'))
      BY <1>6
    <3> QED
      BY <1>6, <3>1, <3>2, <3>3, <3>4
  <2>3. \A s \in Sockets : replay[s].next <= Len(Listed(replay[s].list)') + 1
    <3> SUFFICES ASSUME NEW s \in Sockets
                 PROVE  replay[s].next <= Len(Listed(replay[s].list)') + 1
      OBVIOUS
    <3>1. /\ Len(Listed(replay[s].list)) \in Nat
          /\ Len(Listed(replay[s].list)') \in {Len(Listed(replay[s].list)),
                                              Len(Listed(replay[s].list)) + 1}
      <4>1. \A l \in 0..Len(lists) : l = replay[s].list => Listed(l)' = Listed(replay[s].list)'
        BY <1>1 DEF Listed
      <4> QED
        BY <1>7, <1>8, <4>1
    <3> QED
      BY <1>8, <3>1
  <2>4. \A s \in Sockets : before[s] <= new
    BY <1>1 DEF SocketInv, SocketTypeOK, EventsNumbered
  <2> QED
    BY <1>1, <1>3, <2>1, <2>2, <2>3, <2>4 DEF EventsNumbered, Listed
<1>15. Quiet'
  <2>1. \A s \in Sockets : link[s] = "new" =>
           /\ inbox[s] = <<>> /\ s \notin subscribers /\ replay[s].next = 1
           /\ \A e \in 1..new : ~Due(s, e)'
    BY <1>4, <1>12 DEF SocketInv, Quiet
  <2>2. \A e \in 1..new : sending'[e].closed \subseteq gone
    BY <1>3, <1>4 DEF SocketInv, Quiet
  <2> QED
    BY <1>1, <2>1, <2>2 DEF SocketInv, Quiet
<1>16. \A s \in Sockets : before[s] <= published /\ before[s] \in Nat /\ new > before[s]
  BY <1>1 DEF SocketInv, SocketTypeOK, EventsNumbered
<1>17. AtMost'
  <2> SUFFICES ASSUME NEW s \in Sockets, NEW e \in 1..new
               PROVE  Times(s, e) + (IF Due(s, e)' THEN 1 ELSE 0)
                         <= (IF e > before[s] THEN 1 ELSE 0)
                            + (IF Replayed(s, e) THEN 1 ELSE 0)
    BY <1>1, <1>10, <1>11 DEF AtMost
  <2>1. CASE e \in 1..published
    BY <1>12, <2>1 DEF SocketInv, AtMost
  <2>2. CASE e = new
    <3>1. Times(s, e) = 0 /\ ~Replayed(s, e) /\ e > before[s]
      BY <1>10, <1>11, <1>16, <2>2
    <3> QED
      BY <3>1
  <2> QED
    BY <1>4, <2>1, <2>2
<1>18. AtLeast'
  <2> SUFFICES ASSUME NEW s \in Sockets \ gone, link[s] \in {"replay", "open"}
               PROVE  Covered(s)'
    BY <1>1 DEF AtLeast
  <2>1. Covered(s) /\ s \in subscribers
    BY DEF SocketInv, AtLeast, Quiet
  <2>2. \A e \in 1..new : Replayed(s, e)' => Times(s, e)' >= 1
    BY <1>4, <1>10, <1>11, <2>1 DEF Covered
  <2>3. ASSUME NEW i \in 1..Len(Listed(current)'), NEW e \in 1..new, e = Listed(current)'[i]
        PROVE  IF e > before[s] THEN Times(s, e) >= 1 \/ Due(s, e)'
               ELSE /\ replay[s].list = current'
                    /\ link[s] = "open" => i < replay[s].next
    <3>1. CASE e = new
      BY <1>12, <1>16, <2>1, <3>1
    <3>2. CASE e # new
      <4>1. e \in 1..published
        BY <1>4, <3>2
      <4>2. Listed(current)' = lists'[current'] /\ current' # 0
        BY <1>6 DEF Listed
      <4>3. Len(lists') = Len(lists) /\ current' = current
        <5>1. CASE Len(lists') = Len(lists) + 1
          <6>1. Listed(current)' = <<new>>
            BY <1>6, <4>2, <5>1
          <6> QED
            BY <2>3, <3>2, <6>1
        <5> QED
          BY <1>6, <5>1
      <4>4. current \in 0..Len(lists) /\ lists'[current] = Append(lists[current], new)
        BY <1>6, <4>3 DEF SocketInv, SocketTypeOK
      <4>5. /\ Len(Listed(current)') \in {Len(Listed(current)), Len(Listed(current)) + 1}
            /\ Len(Listed(current)') = Len(Listed(current)) + 1
                  => Listed(current)'[Len(Listed(current)) + 1] = new
            /\ \A k \in 1..Len(Listed(current)) : Listed(current)'[k] = Listed(current)[k]
            /\ Len(Listed(current)) \in Nat
        <5>1. \A l \in 0..Len(lists) : l = current => Listed(l)' = Listed(current)'
          BY <4>3 DEF Listed
        <5> QED
          BY <1>7, <4>4, <5>1
      <4>6. i \in 1..Len(Listed(current))
        BY <2>3, <3>2, <4>5
      <4>7. IF e > before[s] THEN Times(s, e) >= 1 \/ Due(s, e)
            ELSE /\ replay[s].list = current
                 /\ link[s] = "open" => i < replay[s].next
        BY <2>1, <2>3, <4>1, <4>5, <4>6 DEF Covered
      <4> QED
        BY <1>12, <4>1, <4>3, <4>7
    <3> QED
      BY <3>1, <3>2
  <2>4. \A e : Times(s, e)' = Times(s, e)
    BY <1>11
  <2> QED
    BY <1>1, <2>2, <2>3, <2>4 DEF Covered
<1> QED
  BY <1>13, <1>14, <1>15, <1>17, <1>18 DEF SocketInv

-----------------------------------------------------------------------------
LEMMA SocketsStart == SocketInit => SocketInv
<1> SUFFICES ASSUME SocketInit PROVE SocketInv
  OBVIOUS
<1>1. \A s \in Sockets : \A e : Occurrences(inbox[s], e) = 0 /\ ~Replayed(s, e)
  <2>1. \A s \in Sockets : inbox[s] = <<>> /\ replay[s].next = 1
    BY DEF SocketInit
  <2>2. <<>> \in Seq(Nat) /\ \A i \in 1..Len(<<>>) : FALSE
    OBVIOUS
  <2>3. \A e : Occurrences(<<>>, e) = 0
    BY <2>2, OccurrencesType
  <2> QED
    BY <2>1, <2>3 DEF Replayed
<1>2. SocketTypeOK
  BY DEF SocketInit, SocketTypeOK
<1>3. EventsNumbered /\ Quiet
  BY DEF SocketInit, EventsNumbered, Quiet, Listed
<1>4. AtMost /\ AtLeast
  BY DEF SocketInit, AtMost, AtLeast
<1> QED
  BY <1>2, <1>3, <1>4 DEF SocketInv

LEMMA SocketsKeep == SocketInv /\ [SocketNext]_socketVars => SocketInv'
<1> SUFFICES ASSUME SocketInv, [SocketNext]_socketVars PROVE SocketInv'
  OBVIOUS
<1>1. CASE Publish
  BY <1>1, PublishKeeps
<1>2. CASE GoingAway
  BY <1>2, LeavingKeeps
<1>3. CASE \E e \in DOMAIN sending : \E s \in Sockets : Send(e, s)
  BY <1>3, SendKeeps
<1>4. CASE \E s \in Sockets : Connect(s) \/ ReplaySend(s)
  BY <1>4, ConnectKeeps, ReplaySendKeeps
<1>5. CASE UNCHANGED socketVars
  <2>1. /\ UNCHANGED <<lists, current, subscribers, link, replay, gone, published, sending, inbox>>
        /\ before' = before
    BY <1>5 DEF socketVars
  <2>2. SocketTypeOK' /\ EventsNumbered' /\ Quiet'
    BY <2>1 DEF SocketInv, SocketTypeOK, EventsNumbered, Quiet, Due, Listed
  <2>3. /\ \A s \in Sockets : \A e : Times(s, e)' = Times(s, e)
        /\ \A s \in Sockets : \A e : Replayed(s, e)' <=> Replayed(s, e)
        /\ \A s \in Sockets : \A e : Due(s, e)' <=> Due(s, e)
        /\ Listed(current)' = Listed(current)
    BY <2>1 DEF Times, Replayed, Due, Listed
  <2>4. AtMost'
    BY <2>1, <2>3 DEF SocketInv, AtMost
  <2>5. AtLeast'
    BY <2>1, <2>3 DEF SocketInv, AtLeast, Covered
  <2> QED
    BY <2>2, <2>4, <2>5 DEF SocketInv
<1> QED
  BY <1>1, <1>2, <1>3, <1>4, <1>5 DEF SocketNext, GoingAway

\* Between the replay and the broadcasts of ConnectionManager no client that is
\* still there misses an event, and none comes more often than the overlap of the
\* two allows.
THEOREM NoEventIsMissed == SocketSpec => []NoEventMissed
<1>1. SocketInv => NoEventMissed
  <2> SUFFICES ASSUME SocketInv, NEW s \in Sockets \ gone
               PROVE  /\ link[s] = "open" =>
                           \A i \in DOMAIN Listed(current) :
                              Times(s, Listed(current)[i]) >= 1 \/ Due(s, Listed(current)[i])
                      /\ \A e \in 1..published :
                            /\ Times(s, e) <= IF e <= before[s] THEN 1 ELSE 2
                            /\ Times(s, e) = 2 => Replayed(s, e)
    BY DEF NoEventMissed, Due, Replayed
  <2>1. ASSUME link[s] = "open", NEW i \in DOMAIN Listed(current)
        PROVE  Times(s, Listed(current)[i]) >= 1 \/ Due(s, Listed(current)[i])
    <3> DEFINE e == Listed(current)[i]
    <3>1. i \in 1..Len(Listed(current)) /\ e \in 1..published
      <4>1. lists \in Seq(Seq(Nat)) /\ current \in 0..Len(lists)
        BY DEF SocketInv, SocketTypeOK
      <4>2. CASE current = 0
        BY <2>1, <4>2 DEF Listed
      <4>3. CASE current # 0
        <5>1. current \in 1..Len(lists) /\ Listed(current) = lists[current]
          BY <4>1, <4>3 DEF Listed
        <5>2. lists[current] \in Seq(Nat)
          BY <4>1, <5>1, ElementOfSeq
        <5>3. i \in 1..Len(Listed(current))
          BY <2>1, <5>1, <5>2
        <5> QED
          BY <5>1, <5>3 DEF SocketInv, EventsNumbered
      <4> QED
        BY <4>2, <4>3
    <3>2. Covered(s)
      BY <2>1 DEF SocketInv, AtLeast
    <3>3. CASE e > before[s]
      BY <3>1, <3>2, <3>3 DEF Covered
    <3>4. CASE ~(e > before[s])
      <4>1. replay[s].list = current /\ i < replay[s].next /\ replay[s].next \in Nat
        BY <2>1, <3>1, <3>2, <3>4 DEF Covered, SocketInv, SocketTypeOK
      <4>2. i \in 1..(replay[s].next - 1)
        BY <3>1, <4>1
      <4>3. Replayed(s, e)
        BY <4>1, <4>2 DEF Replayed
      <4> QED
        BY <3>1, <3>2, <4>3 DEF Covered
    <3> QED
      BY <3>3, <3>4
  <2>2. ASSUME NEW e \in 1..published
        PROVE  /\ Times(s, e) <= IF e <= before[s] THEN 1 ELSE 2
               /\ Times(s, e) = 2 => Replayed(s, e)
    <3>1. /\ Times(s, e) \in Nat /\ published \in Nat /\ before[s] \in Nat
          /\ Times(s, e) + (IF Due(s, e) THEN 1 ELSE 0)
                <= (IF e > before[s] THEN 1 ELSE 0) + (IF Replayed(s, e) THEN 1 ELSE 0)
      BY TimesType DEF SocketInv, SocketTypeOK, AtMost
    <3> QED
      BY <3>1
  <2> QED
    BY <2>1, <2>2
<1> QED
  BY <1>1, SocketsStart, SocketsKeep, PTL DEF SocketSpec
=============================================================================
