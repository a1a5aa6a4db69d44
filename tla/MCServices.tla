----------------------------- MODULE MCServices -----------------------------
(***************************************************************************)
(* Instance for TLC of the services around the pipeline.  They share no    *)
(* state, so each is explored while the others rest: `focus`, chosen       *)
(* initially, says which clients there are.  Tenants appears twice, with   *)
(* clients of projects and with clients of runs; FineTuning twice, with    *)
(* calls on jobs and with calls on dataset versions; the provenance graph  *)
(* is one with two ways to a node, a cycle and a loop.  The computations   *)
(* of Decisions, which share none either, are made here too.               *)
(***************************************************************************)
EXTENDS Tenants, ApiGate, SingleSignOn, WebSockets, RunStore, FineTuning, Provenance,
        MCDecisions

CONSTANTS t1, t2, p1, r1, r2, r3, h1, h2, k1, k2, a1, a2, i1, i2, c1, c2,
          s1, s2, w1, u1, f1, j1, m1, m2, n1, d1, d2, b1, b2, b3

VARIABLE focus

\* Two dataset files with the same entries, in another order and with a duplicate.
TheDatasets == {<<d1, d2, d1>>, <<d2, d1>>}

\* A limiter whose windows fill first, and one whose bucket empties first.
WindowsFirst == [perMinute |-> 1, perHour |-> 2, burst |-> 3]
BucketFirst == [perMinute |-> 2, perHour |-> 2, burst |-> 1]

TheConfigs == {WindowsFirst, BucketFirst}

theRun == <<"run", "r">>
theTask == <<"task", "t">>
thePatch == <<"patch", "p">>

TheNodes == {theRun, theTask, thePatch}
TheEdges == {Edge(theRun, "executes", theTask), Edge(theRun, "produced", thePatch),
             Edge(theTask, "led_to", thePatch), Edge(thePatch, "fixes", theRun),
             Edge(theTask, "repeats", theTask)}

vars == <<focus, tenantVars, gateVars, ssoVars, socketVars, storeVars, tuningVars, provenanceVars,
          decisionVars>>

Init == /\ focus \in {"projects", "runs", "gate", "sso", "sockets", "store", "jobs", "versions",
                     "queries", "decisions"}
        /\ TenantsInit /\ GateInit /\ SsoInit /\ SocketInit /\ StoreInit /\ TuningInit
        /\ focus # "gate" => config = WindowsFirst
        /\ ProvenanceInit /\ query.start = theRun
        /\ IF focus = "decisions" THEN DecisionInit
           ELSE topic = "none" /\ input = NoResult /\ result = NoResult

OthersThanTenants == UNCHANGED <<gateVars, ssoVars, socketVars, storeVars, tuningVars,
                                 provenanceVars, decisionVars>>
OthersThanGate == UNCHANGED <<tenantVars, ssoVars, socketVars, storeVars, tuningVars,
                              provenanceVars, decisionVars>>
OthersThanSso == UNCHANGED <<tenantVars, gateVars, socketVars, storeVars, tuningVars,
                             provenanceVars, decisionVars>>
OthersThanSockets == UNCHANGED <<tenantVars, gateVars, ssoVars, storeVars, tuningVars,
                                 provenanceVars, decisionVars>>
OthersThanStore == UNCHANGED <<tenantVars, gateVars, ssoVars, socketVars, tuningVars,
                               provenanceVars, decisionVars>>
OthersThanTuning == UNCHANGED <<tenantVars, gateVars, ssoVars, socketVars, storeVars,
                                provenanceVars, decisionVars>>
OthersThanProvenance == UNCHANGED <<tenantVars, gateVars, ssoVars, socketVars, storeVars,
                                    tuningVars, decisionVars>>
OthersThanDecisions == UNCHANGED <<tenantVars, gateVars, ssoVars, socketVars, storeVars,
                                   tuningVars, provenanceVars>>

\* One tenant and one thread of requests are enough beside the runs.
Next ==
    /\ UNCHANGED focus
    /\ \/ /\ focus = "projects"
          /\ \E h \in Handlers : TenantMethods(h) \/ ProjectMethods(h)
          /\ OthersThanTenants
       \/ /\ focus = "runs"
          /\ \/ NextDay
             \/ TenantMethods(h1)
             \/ \E r \in Runs : RunMethods(r)
          /\ call'[h1] # None => call'[h1].tenant = t1
          /\ OthersThanTenants
       \/ focus = "gate" /\ GateNext /\ OthersThanGate
       \/ focus = "sso" /\ SsoNext /\ OthersThanSso
       \/ focus = "sockets" /\ SocketNext /\ OthersThanSockets
       \/ focus = "store" /\ StoreNext /\ OthersThanStore
       \/ focus = "jobs" /\ JobSteps /\ OthersThanTuning
       \/ focus = "versions" /\ VersionSteps /\ OthersThanTuning
       \/ focus = "queries" /\ ProvenanceNext /\ OthersThanProvenance
       \/ focus = "decisions" /\ DecisionNext /\ OthersThanDecisions

Spec == Init /\ [][Next]_vars
=============================================================================
