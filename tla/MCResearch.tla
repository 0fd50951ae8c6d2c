----------------------------- MODULE MCResearch -----------------------------
(* A research worker's lease, and what a worker is deployed with: the       *)
(* transport to the object store, the deployment commands, and the scripts  *)
(* that try a deployment and its backups out, each on its own.  The lease:  *)
(* two items of evidence it may use and one that came later, and a model    *)
(* that plans three different calls.                                        *)
EXTENDS Research, Outbound, Deployment, RestoreDrill, Smoke, TLC
CONSTANTS bar, filing, later, m1, m2, s1, s2
VARIABLE part

MCEvidence == {bar, filing, later}
MCAvailable == {bar, filing}
MCKind == (bar :> "market_data") @@ (filing :> "filing") @@ (later :> "fundamental")
MCPlan == {[tool |-> "list_evidence", ids |-> {bar, filing}],
           [tool |-> "price_window", ids |-> {bar, filing}],
           [tool |-> "filing_history", ids |-> {filing}]}

MCAnswers == {{1, 2}, {2}, {1, 3}, {1, 2, 4}}

\* Images of two releases.
MCHead == [p \in {m1, m2, s1, s2} |-> IF p \in {m1, s1} THEN 1 ELSE 2]
MCExpectations == <<"actual_runtime", "blocked", "unsupported">>

DrillOff == docker = [n \in Names |-> None] /\ sameServer = FALSE
MatrixOff == (\A k \in DOMAIN boundary : boundary[k]) /\ output = None

Init ==
    /\ ResearchInit /\ DeploymentInit
    /\ part \in {"lease", "outbound", "deployment", "drill", "smoke", "matrix"}
    /\ OutboundInit /\ (part # "outbound" => resolver = None)
    /\ DrillInit /\ (part # "drill" => DrillOff)
    /\ SmokeInit /\ (part # "smoke" => defect = "none")
    /\ MatrixInit /\ (part # "matrix" => MatrixOff)

Next ==
    \/ /\ part = "lease" /\ ResearchNext
       /\ UNCHANGED <<outboundVars, deploymentVars, drillVars, smokeVars, matrixVars, part>>
    \/ /\ part = "outbound" /\ OutboundNext
       /\ UNCHANGED <<researchVars, deploymentVars, drillVars, smokeVars, matrixVars, part>>
    \/ /\ part = "deployment" /\ DeploymentNext
       /\ UNCHANGED <<researchVars, outboundVars, drillVars, smokeVars, matrixVars, part>>
    \/ /\ part = "drill" /\ DrillNext
       /\ UNCHANGED <<researchVars, outboundVars, deploymentVars, smokeVars, matrixVars, part>>
    \/ /\ part = "smoke" /\ SmokeNext
       /\ UNCHANGED <<researchVars, outboundVars, deploymentVars, drillVars, matrixVars, part>>
    \/ /\ part = "matrix" /\ MatrixNext
       /\ UNCHANGED <<researchVars, outboundVars, deploymentVars, drillVars, smokeVars, part>>

vars == <<researchVars, outboundVars, deploymentVars, drillVars, smokeVars, matrixVars, part>>

\* The fairness of FairSpec.  It speaks of the lease only: the other parts, in
\* which no lease moves, are checked for safety.
Spec == Init /\ [][Next]_vars /\ WF_researchVars(Tick) /\ WF_researchVars(Worker)

\* ScriptsAreHonest: what the deployment commands and the scripts that try a
\* deployment out report is so: the schema is what migrate and /readyz said,
\* neither a drill nor a smoke passes over what it is there to find, a drill
\* that passed left nothing of its own behind, and no drill removes what was
\* another's when it read the label.
ScriptsAreHonest ==
    /\ [](SchemaIsWhatWasTold /\ VerifiedIsSound /\ ReportIsTrue)
    /\ DrillIsHonest /\ ReportStays
=============================================================================
