---------------------------- MODULE TenantRepository ----------------------------
(***************************************************************************)
(* The in-memory tenant repository and its snapshot file.  A repository is *)
(* an immutable value, a list of tenant records: upsertTenantRecord and    *)
(* transitionTenant return the next value and the flow that called them    *)
(* keeps it.  Several flows of a local server can each have read the same  *)
(* value, so a flow reads, works on what it read, and stores what it has;  *)
(* nothing in the code compares the value it replaces with the one it read.*)
(*                                                                         *)
(* The list a repository is initialised with is not validated: it may hold *)
(* two records of one tenant, records that lack a field (valid is FALSE)   *)
(* and holes (null).  Of a record the model keeps the tenant, the state    *)
(* and whether validateTenantRecord accepts it.                            *)
(***************************************************************************)
EXTENDS Naturals, Sequences

CONSTANTS
  Tenant,      \* tenant ids
  NoTenant,    \* the id of a hole
  Flow,        \* flows that read and store the repository
  Seed,        \* lists a repository may be initialised with
  NoSnapshot,  \* no snapshot file
  MaxEdits     \* bound: operations applied

TenantState == {"draft", "onboarding", "active", "suspended", "offboarded"}

Record == [id : Tenant, state : TenantState, valid : BOOLEAN]
Hole   == [id |-> NoTenant, state |-> "draft", valid |-> FALSE]
Slots  == Record \union {Hole}

ASSUME TenantAssumption == NoTenant \notin Tenant
ASSUME SeedAssumption == Seed \subseteq Seq(Slots)
ASSUME SnapshotAssumption == NoSnapshot \notin Seq(Slots)
ASSUME EditsAssumption == MaxEdits \in Nat

VARIABLES
  seed,        \* the list this deployment initialises its repository with
  repository,  \* the value the flows share
  flow,        \* per flow: what it read, what it has now, and what it did
  snapshot,    \* the records of the snapshot file
  acked,       \* history: per tenant, the state last acknowledged by a store
  stale,       \* history: a store replaced a value its flow had not read
  edits        \* how many of MaxEdits are spent

vars == <<seed, repository, flow, snapshot, acked, stale, edits>>

-----------------------------------------------------------------------------

TRANSITIONS ==
  [draft      |-> {"onboarding"},
   onboarding |-> {"active", "suspended"},
   active     |-> {"suspended", "offboarded"},
   suspended  |-> {"active", "offboarded"},
   offboarded |-> {}]

Ids(records) == {records[i].id : i \in DOMAIN records}

\* find and findIndex: the first record of a tenant.
IndexOf(records, t) ==
  CHOOSE i \in DOMAIN records :
    records[i].id = t /\ \A j \in 1..(i - 1) : records[j].id # t

GetTenantById(records, t) == records[IndexOf(records, t)]

\* Mutant of UpsertTenantRecord: the record is always pushed.
UpsertPushes(records, candidate) == Append(records, candidate)

\* Mutant of UpsertTenantRecord: the last record of the tenant is replaced.
UpsertReplacesLast(records, candidate) ==
  IF candidate.id \in Ids(records)
  THEN [records EXCEPT ![CHOOSE i \in DOMAIN records :
          records[i].id = candidate.id /\ \A j \in (i + 1)..Len(records) :
            records[j].id # candidate.id] = candidate]
  ELSE Append(records, candidate)

UpsertTenantRecord(records, candidate) ==
  IF candidate.id \in Ids(records)
  THEN [records EXCEPT ![IndexOf(records, candidate.id)] = candidate]
  ELSE Append(records, candidate)

\* findIndex reads the id of every record up to the one it looks for: a hole
\* among them throws.
UpsertThrows(records, t) ==
  \E i \in DOMAIN records :
    records[i] = Hole /\ \A j \in 1..(i - 1) : records[j].id # t

\* Every record of the tenant becomes the first one, moved to the next state.
TransitionTenant(records, t, next) ==
  [i \in 1..Len(records) |->
     IF records[i].id = t
     THEN [id |-> t, state |-> next, valid |-> GetTenantById(records, t).valid]
     ELSE records[i]]

\* Mutant of CanTransition: any listed state is accepted.
CanTransitionAnywhere(record, next) == record.valid

CanTransition(record, next) == record.valid /\ next \in TRANSITIONS[record.state]

\* Mutant of Serializable: only the holes are looked for.
SerializableUnvalidated(records) == \A i \in DOMAIN records : records[i] # Hole

\* serializeRepositorySnapshot and deserializeRepositorySnapshot refuse a list
\* with one invalid record in it.
Serializable(records)   == \A i \in DOMAIN records : records[i].valid
Deserializable(records) == \A i \in DOMAIN records : records[i].valid

-----------------------------------------------------------------------------

Idle == [base |-> <<>>, records |-> <<>>, wrote |-> [t \in Tenant |-> "nothing"],
         upserted |-> {}, open |-> FALSE]

Absent == "absent"

StateIn(records, t) == IF t \in Ids(records) THEN GetTenantById(records, t).state ELSE Absent

Init ==
  /\ seed \in Seed
  /\ repository = seed
  /\ flow = [f \in Flow |-> Idle]
  /\ snapshot = NoSnapshot
  /\ acked = [t \in Tenant |-> StateIn(seed, t)]
  /\ stale = FALSE
  /\ edits = 0

ReadRepository(f) ==
  /\ ~flow[f].open
  /\ flow' = [flow EXCEPT ![f] =
                [base |-> repository, records |-> repository, wrote |-> Idle.wrote,
                 upserted |-> {}, open |-> TRUE]]
  /\ UNCHANGED <<seed, repository, snapshot, acked, stale, edits>>

\* A flow replaces the value it works on.
Work(f, records, t, state, upserts) ==
  /\ flow[f].open
  /\ edits < MaxEdits /\ edits' = edits + 1
  /\ flow' = [flow EXCEPT ![f] =
                [base |-> flow[f].base, records |-> records,
                 wrote |-> [flow[f].wrote EXCEPT ![t] = state],
                 upserted |-> flow[f].upserted \union upserts, open |-> TRUE]]
  /\ UNCHANGED <<seed, repository, snapshot, acked, stale>>

\* buildTenantRecord completes the payload (a missing state is draft); only a
\* valid candidate is written, over whatever record the tenant had.
Upsert(f, t, state) ==
  /\ ~UpsertThrows(flow[f].records, t)
  /\ LET candidate == [id |-> t, state |-> state, valid |-> TRUE]
     IN  Work(f, UpsertTenantRecord(flow[f].records, candidate), t, state, {t})

\* transitionTenantState refuses an invalid record and a move that TRANSITIONS
\* does not list; the map over all records throws at a hole.
Transition(f, t, next) ==
  /\ t \in Ids(flow[f].records)
  /\ CanTransition(GetTenantById(flow[f].records, t), next)
  /\ Hole.id \notin Ids(flow[f].records)
  /\ Work(f, TransitionTenant(flow[f].records, t, next), t, next, {})

\* The flow's value becomes the shared one.
Store(f) ==
  /\ flow[f].open
  /\ repository' = flow[f].records
  /\ acked' = [t \in Tenant |-> IF flow[f].wrote[t] = "nothing" THEN acked[t]
                                ELSE flow[f].wrote[t]]
  /\ stale' = (stale \/ flow[f].base # repository)
  /\ flow' = [flow EXCEPT ![f] = Idle]
  /\ UNCHANGED <<seed, snapshot, edits>>

\* buildRepositorySnapshotArtifact; the caller writes the file.
SaveSnapshot ==
  /\ Serializable(repository)
  /\ snapshot' = repository
  /\ UNCHANGED <<seed, repository, flow, acked, stale, edits>>

\* The server restarts: from the snapshot if there is one it accepts, else
\* from its seed.  Everything not saved is forgotten, as are the flows.
Recovered == IF snapshot # NoSnapshot /\ Deserializable(snapshot) THEN snapshot ELSE seed

Restart ==
  /\ repository' = Recovered
  /\ acked' = [t \in Tenant |-> StateIn(repository', t)]
  /\ flow' = [f \in Flow |-> Idle]
  /\ stale' = FALSE
  /\ UNCHANGED <<seed, snapshot, edits>>

Next ==
  \/ \E f \in Flow :
       \/ ReadRepository(f)
       \/ \E t \in Tenant, state \in TenantState : Upsert(f, t, state)
       \/ \E t \in Tenant, next \in TenantState : Transition(f, t, next)
       \/ Store(f)
  \/ SaveSnapshot
  \/ Restart

Spec == Init /\ [][Next]_vars

-----------------------------------------------------------------------------

Wrote == TenantState \union {"nothing"}

Working ==
  [base : Seq(Slots), records : Seq(Slots), wrote : [Tenant -> Wrote],
   upserted : SUBSET Tenant, open : BOOLEAN]

TypeOK ==
  /\ seed \in Seq(Slots)
  /\ repository \in Seq(Slots)
  /\ flow \in [Flow -> Working]
  /\ snapshot \in Seq(Slots) \union {NoSnapshot}
  /\ acked \in [Tenant -> TenantState \union {Absent}]
  /\ stale \in BOOLEAN
  /\ edits \in 0..MaxEdits

\* The records of a list that share an id do so in the seed already.
DuplicatesOnlyFrom(origin, records) ==
  \A i, j \in DOMAIN records :
    i < j /\ records[i].id = records[j].id =>
      i \in DOMAIN origin /\ j \in DOMAIN origin /\ origin[i].id = origin[j].id

(***************************************************************************)
(* No order of upserts, transitions, stale stores, snapshots and restarts  *)
(* makes a second record of a tenant: two records share an id only if the  *)
(* list the repository was initialised with had them both.                 *)
(***************************************************************************)
NoNewDuplicates ==
  /\ DuplicatesOnlyFrom(seed, repository)
  /\ \A f \in Flow : flow[f].open => DuplicatesOnlyFrom(seed, flow[f].records)
  /\ snapshot # NoSnapshot => DuplicatesOnlyFrom(seed, snapshot)

(***************************************************************************)
(* getTenantById returns the state last acknowledged for a tenant, even    *)
(* where the list holds the tenant twice, unless a flow has stored over a  *)
(* value it had not read.                                                  *)
(***************************************************************************)
ReadYourWrites ==
  ~stale => \A t \in Tenant : StateIn(repository, t) = acked[t]

\* The states a tenant can get to from s, s among them.
LifecycleFrom(s) ==
  CASE s = "draft"      -> TenantState
    [] s = "onboarding" -> TenantState \ {"draft"}
    [] s = "offboarded" -> {"offboarded"}
    [] s = Absent       -> {Absent}
    [] OTHER            -> {"active", "suspended", "offboarded"}

(***************************************************************************)
(* However many operations a flow applies, a tenant it did not upsert has  *)
(* only moved along the lifecycle since the flow read it: an offboarded    *)
(* tenant comes back, and an onboarded one returns to draft, by an upsert  *)
(* or not at all.                                                          *)
(***************************************************************************)
OnlyUpsertLeavesLifecycle ==
  \A f \in Flow : \A t \in Tenant \ flow[f].upserted :
    StateIn(flow[f].records, t) \in LifecycleFrom(StateIn(flow[f].base, t))

(***************************************************************************)
(* A snapshot that was saved loads: what serializeRepositorySnapshot       *)
(* accepts, deserializeRepositorySnapshot accepts after a restart.         *)
(***************************************************************************)
SnapshotLoads == snapshot # NoSnapshot => Deserializable(snapshot)
=============================================================================
