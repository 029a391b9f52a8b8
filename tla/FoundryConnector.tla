--------------------------- MODULE FoundryConnector ---------------------------
(***************************************************************************)
(* The Foundry connector, set up step by step by a caller that keeps what  *)
(* every builder returns and passes it to the next: workspace              *)
(* configuration, knowledge base, index, OneLake source, indexing job and  *)
(* query.  A builder that lacks what it needs throws, and nothing changes; *)
(* the caller may repeat any step with other arguments.                    *)
(*                                                                         *)
(* Names are represented by the references made from them, and hashes by   *)
(* what they hash.                                                         *)
(***************************************************************************)
EXTENDS Integers

CONSTANTS
  KnowledgeBase, \* references of knowledge bases
  Index,         \* references of indexes
  Batch,         \* ids of handoff batches
  None           \* not built yet

ASSUME ConnectorAssumption ==
  /\ None \notin KnowledgeBase /\ None \notin [ref : Index, kb : KnowledgeBase]
  /\ None \notin {"systemAssigned", "userAssigned"}

VARIABLES
  workspace, \* the configuration last validated: [valid, identity]
  kb, index, source, job, query,
  moved      \* history: the knowledge base was redefined after the index

connectorVars == <<workspace, kb, index, source, job, query, moved>>

\* validateFoundryWorkspaceConfig: a user-assigned identity needs its resource.
IsValidWorkspace(config) ==
  /\ config.complete
  /\ config.identity = "userAssigned" => config.resource

Configurations == [complete : BOOLEAN, identity : {"systemAssigned", "userAssigned"},
                   resource : BOOLEAN]

ConnectorInit ==
  /\ workspace \in {c \in Configurations : ~c.complete /\ ~c.resource}
  /\ kb = None /\ index = None /\ source = None /\ job = None /\ query = None
  /\ moved = FALSE

Configure(config) ==
  /\ workspace' = config
  /\ UNCHANGED <<kb, index, source, job, query, moved>>

DefineKnowledgeBase(ref) ==
  /\ IsValidWorkspace(workspace)
  /\ kb' = ref
  /\ moved' = (moved \/ (index # None /\ index.kb # ref))
  /\ UNCHANGED <<workspace, index, source, job, query>>

\* Mutant of DefineIndex: the knowledge base is not asked for.
DefineIndexAnyway(ref) ==
  /\ index' = [ref |-> ref, kb |-> kb]
  /\ moved' = FALSE
  /\ UNCHANGED <<workspace, kb, source, job, query>>

DefineIndex(ref) ==
  /\ kb # None
  /\ index' = [ref |-> ref, kb |-> kb]
  /\ moved' = FALSE
  /\ UNCHANGED <<workspace, kb, source, job, query>>

\* The identity the source is registered with is the one of the configuration.
RegisterSource ==
  /\ IsValidWorkspace(workspace)
  /\ source' = workspace.identity
  /\ UNCHANGED <<workspace, kb, index, job, query, moved>>

\* The job refers to the knowledge base the caller passes, whatever the index
\* was defined for; its id does not cover the security envelopes.
RequestIndexing(batch) ==
  /\ kb # None /\ index # None /\ source # None
  /\ job' = [id |-> <<kb, index.ref, batch>>, kb |-> kb, ofIndex |-> index.kb, astray |-> moved]
  /\ UNCHANGED <<workspace, kb, index, source, query, moved>>

BuildQuery ==
  /\ kb # None /\ index # None
  /\ query' = <<kb, index.ref>>
  /\ UNCHANGED <<workspace, kb, index, source, job, moved>>

ConnectorStep ==
  \/ \E c \in Configurations : Configure(c)
  \/ \E r \in KnowledgeBase : DefineKnowledgeBase(r)
  \/ \E r \in Index : DefineIndex(r)
  \/ RegisterSource
  \/ \E b \in Batch : RequestIndexing(b)
  \/ BuildQuery

ConnectorSpec == ConnectorInit /\ [][ConnectorStep]_connectorVars

\* summarizeConnectorReadiness, without the two validations of documents.
Readiness == [workspace     |-> IsValidWorkspace(workspace),
              knowledgeBase |-> kb # None,
              index         |-> index # None,
              source        |-> source # None,
              indexing      |-> job # None,
              query         |-> query # None]

(***************************************************************************)
(* Whatever the order of the calls, a step reported ready has all it       *)
(* rests on, and a job indexes into the knowledge base its index was       *)
(* defined for unless the knowledge base was redefined in between.         *)
(* buildIndexingJobRequest, summarizeConnectorReadiness.                   *)
(***************************************************************************)
ReadyInOrder ==
  /\ Readiness.index => Readiness.knowledgeBase
  /\ Readiness.indexing => Readiness.index /\ Readiness.source
  /\ Readiness.query => Readiness.index
  /\ job # None /\ ~job.astray => job.kb = job.ofIndex
=============================================================================
