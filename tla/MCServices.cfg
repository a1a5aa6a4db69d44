CONSTANTS
 t1=t1
 t2=t2
 p1=p1
 r1=r1
 r2=r2
 r3=r3
 h1=h1
 h2=h2
 k1=k1
 k2=k2
 a1=a1
 a2=a2
 i1=i1
 i2=i2
 c1=c1
 c2=c2
 None=None
 NoRow=NoRow
 Nothing=Nothing
 Nobody=Nobody
 Tenants={t1,t2}
 Projects={p1}
 Runs={r1,r2,r3}
 Handlers={h1,h2}
 MaxProjects=1
 MaxRunsPerDay=2
 MaxConcurrentRuns=1
 Days=2
 Creations=3
 Keys={k1,k2}
 AdminKeys={k1}
 KeysAtStart={k1}
 Threads={a1,a2}
 Configs <- TheConfigs
 Minute=1
 Hour=3
 Horizon=4
 MaxEvents=1
 Requests=3
 Identities={i1,i2}
 Sessions=2
 Callers={c1,c2}
 Lifetime=1
 LastHour=4
 s1=s1
 s2=s2
 w1=w1
 u1=u1
 f1=f1
 j1=j1
 m1=m1
 m2=m2
 n1=n1
 d1=d1
 d2=d2
 b1=b1
 b2=b2
 b3=b3
 Sockets={s1,s2}
 Events=2
 Clears=1
 TaskRuns={w1}
 Deleters={u1}
 Findings={f1}
 Trainers={b1,b2,b3}
 Jobs={j1}
 Managers={m1,m2}
 Datasets <- TheDatasets
 Names={n1}
 Nodes <- TheNodes
 Edges <- TheEdges
 Depths = {0, 1, 2, 3}
 TraceDepth = 2
 MaxRows = 3
 NoResult=NoResult
 Changes <- TheChanges
 Polyglots <- ThePolyglots
 Benchmarks <- TheBenchmarks
 Trajectories <- TheTrajectories
SPECIFICATION Spec
INVARIANTS RunQuotaHeld ProjectsIsolated LimitsHold AuditKeepsNewest SessionsAccounted
 NoEventMissed StoredRunsComplete TrainingRecordsTrue QueriesExact
 VerdictFollowsTools EvaluationAddsUp
CHECK_DEADLOCK FALSE
