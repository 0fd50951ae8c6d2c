----------------------------- MODULE MCJobQueue -----------------------------
(* Small instances of JobQueue: which job is of which kind and in which run. *)
EXTENDS JobQueue, TLC

\* A snapshot in run 1; two agent research jobs in run 2, which can expire together.
MixedRunOf == <<1, 2, 2>>
MixedKind == <<"create_snapshot", "tradingagents_research", "tradingagents_research">>
MixedTtl == <<3, 2, 2>>

\* One run with both kinds of research and the feedback that asks for it again.
FamilyRunOf == <<1, 1, 1>>
FamilyKind == <<"research_pipeline", "tradingagents_research", "other">>
FamilyTtl == <<2, 3, 2>>

\* One research pipeline alone.
PipelineRunOf == <<1>>
PipelineKind == <<"research_pipeline">>
PipelineTtl == <<3>>

\* One snapshot job alone.
SnapshotRunOf == <<1>>
SnapshotKind == <<"create_snapshot">>
SnapshotTtl == <<2>>

\* What the two handlers that are composed stamp on the results they finalize.
ComposedSchema ==
    [k \in ResearchKind |->
       IF k = "tradingagents_research" THEN "tradingagents-worker-result/1.0.0"
                                       ELSE "research-worker-result/1.1.0"]
=============================================================================
