------------------------- MODULE TenantRepository_proofs -------------------------
(***************************************************************************)
(* Proofs about TenantRepository, for every set of tenants and flows and   *)
(* every list the repository may be initialised with.                      *)
(***************************************************************************)
EXTENDS TenantApi, NumberFacts, TLAPS

-----------------------------------------------------------------------------
\* findIndex finds the first record of a tenant the list holds.
LEMMA IndexOfFound ==
  ASSUME NEW records \in Seq(Slots), NEW t \in Ids(records)
  PROVE  /\ IndexOf(records, t) \in DOMAIN records
         /\ records[IndexOf(records, t)].id = t
         /\ \A j \in 1..(IndexOf(records, t) - 1) : records[j].id # t
<1> DEFINE Hits == {i \in DOMAIN records : records[i].id = t}
<1>1. Hits \in SUBSET Nat /\ Hits # {}
  BY DEF Ids
<1>2. PICK i \in Hits : \A j \in Hits : i <= j
  BY <1>1, LeastNat
<1>3. i \in DOMAIN records /\ records[i].id = t /\ \A j \in 1..(i - 1) : records[j].id # t
  BY <1>2
<1> QED
  BY <1>3 DEF IndexOf

\* It is the only index with that property.
LEMMA IndexOfUnique ==
  ASSUME NEW records \in Seq(Slots), NEW t, NEW i \in DOMAIN records,
         records[i].id = t, \A j \in 1..(i - 1) : records[j].id # t
  PROVE  IndexOf(records, t) = i
<1>1. t \in Ids(records)
  BY DEF Ids
<1>2. /\ IndexOf(records, t) \in DOMAIN records
      /\ records[IndexOf(records, t)].id = t
      /\ \A j \in 1..(IndexOf(records, t) - 1) : records[j].id # t
  BY <1>1, IndexOfFound
<1> QED
  BY <1>2

-----------------------------------------------------------------------------
(***************************************************************************)
(* What an upsert and a transition do to a list.                           *)
(***************************************************************************)

\* A list holds, at the places of the seed, the tenants of the seed.
Rooted(records) ==
  /\ \A i \in DOMAIN seed : i \in DOMAIN records /\ records[i].id = seed[i].id
  /\ DuplicatesOnlyFrom(seed, records)

\* An upsert changes or appends one record and duplicates nothing.
LEMMA UpsertKeepsPlaces ==
  ASSUME NEW records \in Seq(Slots), NEW candidate \in Record, seed \in Seq(Slots)
  PROVE  /\ UpsertTenantRecord(records, candidate) \in Seq(Slots)
         /\ Rooted(records) => Rooted(UpsertTenantRecord(records, candidate))
<1> DEFINE new == UpsertTenantRecord(records, candidate)
           at  == IndexOf(records, candidate.id)
<1>1. CASE candidate.id \in Ids(records)
  <2>1. at \in DOMAIN records /\ records[at].id = candidate.id
    BY <1>1, IndexOfFound
  <2>2. new = [records EXCEPT ![at] = candidate]
    BY <1>1 DEF UpsertTenantRecord
  <2>3. new \in Seq(Slots) /\ DOMAIN new = DOMAIN records
    BY <2>1, <2>2 DEF Slots
  <2>4. \A i \in DOMAIN records : new[i].id = records[i].id
    BY <2>1, <2>2
  <2> QED
    BY <2>3, <2>4 DEF Rooted, DuplicatesOnlyFrom
<1>2. CASE candidate.id \notin Ids(records)
  <2>1. new = Append(records, candidate)
    BY <1>2 DEF UpsertTenantRecord
  <2>2. /\ new \in Seq(Slots)
        /\ DOMAIN new = DOMAIN records \union {Len(records) + 1}
        /\ \A i \in DOMAIN records : new[i] = records[i]
        /\ new[Len(records) + 1] = candidate
    BY <2>1 DEF Slots
  <2>3. \A i \in DOMAIN records : records[i].id # candidate.id
    BY <1>2 DEF Ids
  <2>4. ASSUME Rooted(records) PROVE Rooted(new)
    <3>1. \A i \in DOMAIN seed : i \in DOMAIN new /\ new[i].id = seed[i].id
      BY <2>2, <2>4 DEF Rooted
    <3>2. ASSUME NEW i \in DOMAIN new, NEW j \in DOMAIN new, i < j, new[i].id = new[j].id
          PROVE  i \in DOMAIN seed /\ j \in DOMAIN seed /\ seed[i].id = seed[j].id
      <4>1. i \in DOMAIN records /\ i # Len(records) + 1
        BY <2>2, <3>2
      <4>2. j \in DOMAIN records
        BY <2>2, <2>3, <3>2, <4>1
      <4> QED
        BY <2>2, <2>4, <3>2, <4>1, <4>2 DEF Rooted, DuplicatesOnlyFrom
    <3> QED
      BY <3>1, <3>2 DEF Rooted, DuplicatesOnlyFrom
  <2> QED
    BY <2>2, <2>4
<1> QED
  BY <1>1, <1>2

\* A transition keeps every record at its place, of the tenant it was of.
LEMMA TransitionKeepsPlaces ==
  ASSUME NEW records \in Seq(Slots), NEW t \in Tenant, NEW next \in TenantState,
         t \in Ids(records), seed \in Seq(Slots)
  PROVE  /\ TransitionTenant(records, t, next) \in Seq(Slots)
         /\ Rooted(records) => Rooted(TransitionTenant(records, t, next))
<1> DEFINE new == TransitionTenant(records, t, next)
<1>1. records[IndexOf(records, t)] \in Slots
  BY IndexOfFound
<1>2. GetTenantById(records, t).valid \in BOOLEAN
  <2>1. ASSUME NEW r \in Slots PROVE r.valid \in BOOLEAN
    <3>1. CASE r \in Record
      BY <3>1, Zenon DEF Record
    <3>2. CASE r = Hole
      <4>1. Hole.valid = FALSE
        BY Zenon DEF Hole
      <4> QED
        BY <3>2, <4>1, Zenon
    <3> QED
      BY <3>1, <3>2 DEF Slots
  <2> QED
    BY <1>1, <2>1, Zenon DEF GetTenantById
<1>3. [id |-> t, state |-> next, valid |-> GetTenantById(records, t).valid] \in Slots
  BY <1>2 DEF Slots, Record
<1>4. new \in Seq(Slots) /\ DOMAIN new = DOMAIN records
  BY <1>3 DEF TransitionTenant
<1>5. \A i \in DOMAIN records : new[i].id = records[i].id
  BY DEF TransitionTenant
<1> QED
  BY <1>4, <1>5 DEF Rooted, DuplicatesOnlyFrom

-----------------------------------------------------------------------------
(***************************************************************************)
(* What getTenantById reads after an upsert or a transition.               *)
(***************************************************************************)

\* Two lists with the same tenants at the same places have the same indexes.
LEMMA SamePlacesSameIndex ==
  ASSUME NEW a \in Seq(Slots), NEW b \in Seq(Slots), DOMAIN a = DOMAIN b,
         \A i \in DOMAIN a : b[i].id = a[i].id, NEW u \in Ids(a)
  PROVE  u \in Ids(b) /\ IndexOf(b, u) = IndexOf(a, u)
<1> DEFINE i == IndexOf(a, u)
<1>1. i \in DOMAIN a /\ a[i].id = u /\ \A j \in 1..(i - 1) : a[j].id # u
  BY IndexOfFound
<1>2. i \in DOMAIN b /\ b[i].id = u /\ \A j \in 1..(i - 1) : b[j].id # u
  <2>1. \A j \in 1..(i - 1) : j \in DOMAIN a
    BY <1>1
  <2> QED
    BY <1>1, <2>1
<1>3. IndexOf(b, u) = i
  BY <1>2, IndexOfUnique
<1> QED
  BY <1>2, <1>3 DEF Ids

\* An upsert is read back, and leaves what is read of other tenants alone.
LEMMA UpsertReads ==
  ASSUME NEW records \in Seq(Slots), NEW candidate \in Record, NEW u \in Tenant
  PROVE  StateIn(UpsertTenantRecord(records, candidate), u) =
           IF u = candidate.id THEN candidate.state ELSE StateIn(records, u)
<1> DEFINE new == UpsertTenantRecord(records, candidate)
           at  == IndexOf(records, candidate.id)
<1>1. CASE candidate.id \in Ids(records)
  <2>1. at \in DOMAIN records /\ records[at].id = candidate.id
    BY <1>1, IndexOfFound
  <2>2. new = [records EXCEPT ![at] = candidate]
    BY <1>1 DEF UpsertTenantRecord
  <2>3. new \in Seq(Slots) /\ DOMAIN new = DOMAIN records
    BY <2>1, <2>2 DEF Slots
  <2>4. \A i \in DOMAIN records : new[i].id = records[i].id
    BY <2>1, <2>2
  <2>5. Ids(new) = Ids(records)
    BY <2>3, <2>4 DEF Ids
  <2>6. \A v \in Ids(records) : IndexOf(new, v) = IndexOf(records, v)
    BY <2>3, <2>4, SamePlacesSameIndex
  <2>7. CASE u = candidate.id
    BY <1>1, <2>1, <2>2, <2>5, <2>6, <2>7 DEF StateIn, GetTenantById
  <2>8. CASE u # candidate.id
    <3>1. CASE u \in Ids(records)
      <4>1. records[IndexOf(records, u)].id = u /\ IndexOf(records, u) \in DOMAIN records
        BY <3>1, IndexOfFound
      <4>2. new[IndexOf(records, u)] = records[IndexOf(records, u)]
        BY <2>1, <2>2, <2>8, <4>1
      <4> QED
        BY <2>5, <2>6, <2>8, <3>1, <4>2 DEF StateIn, GetTenantById
    <3>2. CASE u \notin Ids(records)
      BY <2>5, <2>8, <3>2 DEF StateIn
    <3> QED
      BY <3>1, <3>2
  <2> QED
    BY <2>7, <2>8
<1>2. CASE candidate.id \notin Ids(records)
  <2>1. new = Append(records, candidate)
    BY <1>2 DEF UpsertTenantRecord
  <2>2. /\ new \in Seq(Slots)
        /\ Len(records) + 1 \in DOMAIN new
        /\ DOMAIN new = DOMAIN records \union {Len(records) + 1}
        /\ \A i \in DOMAIN records : new[i] = records[i]
        /\ new[Len(records) + 1] = candidate
    BY <2>1 DEF Slots
  <2>3. \A i \in DOMAIN records : records[i].id # candidate.id
    BY <1>2 DEF Ids
  <2>4. CASE u = candidate.id
    <3>1. \A j \in 1..(Len(records) + 1 - 1) : new[j].id # u
      BY <2>2, <2>3, <2>4
    <3>2. IndexOf(new, u) = Len(records) + 1
      BY <2>2, <2>4, <3>1, IndexOfUnique
    <3>3. u \in Ids(new)
      BY <2>2, <2>4 DEF Ids
    <3> QED
      BY <2>2, <2>4, <3>2, <3>3 DEF StateIn, GetTenantById
  <2>5. CASE u # candidate.id /\ u \in Ids(records)
    <3> DEFINE i == IndexOf(records, u)
    <3>1. i \in DOMAIN records /\ records[i].id = u /\ \A j \in 1..(i - 1) : records[j].id # u
      BY <2>5, IndexOfFound
    <3>2. \A j \in 1..(i - 1) : j \in DOMAIN records
      BY <3>1
    <3>3. i \in DOMAIN new /\ new[i].id = u /\ \A j \in 1..(i - 1) : new[j].id # u
      BY <2>2, <3>1, <3>2
    <3>4. IndexOf(new, u) = i
      BY <2>2, <3>3, IndexOfUnique
    <3>5. u \in Ids(new) /\ new[i] = records[i]
      BY <2>2, <3>1, <3>3 DEF Ids
    <3> QED
      BY <2>5, <3>4, <3>5 DEF StateIn, GetTenantById
  <2>6. CASE u # candidate.id /\ u \notin Ids(records)
    <3>1. u \notin Ids(new)
      BY <2>2, <2>6 DEF Ids
    <3> QED
      BY <2>6, <3>1 DEF StateIn
  <2> QED
    BY <2>4, <2>5, <2>6
<1> QED
  BY <1>1, <1>2

\* So is a transition, of a tenant the list holds.
LEMMA TransitionReads ==
  ASSUME NEW records \in Seq(Slots), NEW t \in Tenant, NEW next \in TenantState,
         t \in Ids(records), seed \in Seq(Slots), NEW u \in Tenant
  PROVE  StateIn(TransitionTenant(records, t, next), u) =
           IF u = t THEN next ELSE StateIn(records, u)
<1> DEFINE new == TransitionTenant(records, t, next)
<1>1. new \in Seq(Slots)
  BY TransitionKeepsPlaces
<1>2. /\ DOMAIN new = DOMAIN records
      /\ \A i \in DOMAIN records : new[i].id = records[i].id
      /\ \A i \in DOMAIN records : records[i].id = t => new[i].state = next
      /\ \A i \in DOMAIN records : records[i].id # t => new[i] = records[i]
  BY DEF TransitionTenant
<1>3. Ids(new) = Ids(records)
  BY <1>2 DEF Ids
<1>4. \A v \in Ids(records) : IndexOf(new, v) = IndexOf(records, v)
  BY <1>1, <1>2, SamePlacesSameIndex
<1>5. \A v \in Ids(records) : IndexOf(records, v) \in DOMAIN records
                              /\ records[IndexOf(records, v)].id = v
  BY IndexOfFound
<1> QED
  BY <1>2, <1>3, <1>4, <1>5 DEF StateIn, GetTenantById

-----------------------------------------------------------------------------
(***************************************************************************)
(* The inductive invariant: types, every list rooted in the seed, and of   *)
(* every open flow how what it has relates to what it read.                *)
(***************************************************************************)
FlowReads ==
  \A f \in Flow : flow[f].open =>
    \A t \in Tenant :
      StateIn(flow[f].records, t) =
        IF flow[f].wrote[t] = "nothing" THEN StateIn(flow[f].base, t) ELSE flow[f].wrote[t]

AllRooted ==
  /\ Rooted(repository)
  /\ \A f \in Flow : flow[f].open => Rooted(flow[f].records)
  /\ snapshot # NoSnapshot => Rooted(snapshot)

IInv == TypeOK /\ AllRooted /\ FlowReads /\ ReadYourWrites /\ OnlyUpsertLeavesLifecycle

\* What getTenantById reads of a well-typed list is a state, or nothing.
LEMMA StateInType ==
  ASSUME NEW records \in Seq(Slots), NEW t \in Tenant
  PROVE  StateIn(records, t) \in TenantState \union {Absent}
<1>1. CASE t \in Ids(records)
  <2>1. records[IndexOf(records, t)] \in Slots
    BY <1>1, IndexOfFound
  <2>2. \A r \in Slots : r.state \in TenantState
    BY DEF Slots, Record, Hole, TenantState
  <2> QED
    BY <1>1, <2>1, <2>2 DEF StateIn, GetTenantById
<1>2. CASE t \notin Ids(records)
  BY <1>2 DEF StateIn
<1> QED
  BY <1>1, <1>2

LEMMA IdleType == Idle \in Working /\ ~Idle.open /\ Idle.upserted = {} /\ Idle.base = Idle.records
<1>1. <<>> \in Seq(Slots)
  OBVIOUS
<1>2. [t \in Tenant |-> "nothing"] \in [Tenant -> Wrote]
  BY DEF Wrote
<1> QED
  BY <1>1, <1>2 DEF Idle, Working

\* A list is rooted in itself.
LEMMA SeedRooted == seed \in Seq(Slots) => Rooted(seed)
  BY DEF Rooted, DuplicatesOnlyFrom

\* A lifecycle only goes on: what a later state leads to, an earlier one does.
LEMMA LifecycleGoesOn ==
  /\ \A s \in TenantState \union {Absent} : s \in LifecycleFrom(s)
  /\ \A s \in TenantState \union {Absent} : \A m \in LifecycleFrom(s) :
       LifecycleFrom(m) \subseteq LifecycleFrom(s)
  /\ \A m \in TenantState : TRANSITIONS[m] \subseteq LifecycleFrom(m) /\ TRANSITIONS[m] \subseteq TenantState
  BY DEF LifecycleFrom, TenantState, TRANSITIONS, Absent

LEMMA InitIInv == Init => IInv
<1> SUFFICES ASSUME Init PROVE IInv
  OBVIOUS
<1>1. seed \in Seq(Slots)
  BY SeedAssumption DEF Init
<1>2. \A t \in Tenant : StateIn(seed, t) \in TenantState \union {Absent}
  BY <1>1, StateInType
<1>3. TypeOK
  <2>1. flow \in [Flow -> Working]
    BY IdleType DEF Init
  <2>2. acked \in [Tenant -> TenantState \union {Absent}]
    BY <1>2 DEF Init
  <2>3. stale \in BOOLEAN
    BY Zenon DEF Init
  <2>4. seed \in Seq(Slots) /\ repository \in Seq(Slots) /\ edits \in 0..MaxEdits
    BY <1>1, EditsAssumption DEF Init
  <2>5. snapshot \in Seq(Slots) \union {NoSnapshot}
    BY DEF Init
  <2> QED
    BY <2>1, <2>2, <2>3, <2>4, <2>5, Zenon DEF TypeOK
<1>4. AllRooted
  BY <1>1, IdleType, SeedRooted DEF Init, AllRooted
<1>5. FlowReads
  BY IdleType DEF Init, FlowReads
<1>6. ReadYourWrites
  BY DEF Init, ReadYourWrites
<1>7. OnlyUpsertLeavesLifecycle
  <2>1. ASSUME NEW f \in Flow, NEW t \in Tenant
        PROVE  StateIn(flow[f].records, t) \in LifecycleFrom(StateIn(flow[f].base, t))
    <3>1. flow[f].records = flow[f].base /\ flow[f].base \in Seq(Slots)
      BY IdleType DEF Init, Working
    <3> QED
      BY <3>1, StateInType, LifecycleGoesOn
  <2> QED
    BY <2>1 DEF OnlyUpsertLeavesLifecycle
<1> QED
  BY <1>3, <1>4, <1>5, <1>6, <1>7 DEF IInv

\* The common part of an upsert and a transition: the flow's list becomes a
\* rooted one in which the tenant reads as what was written, others as before.
LEMMA WorkStep ==
  ASSUME IInv, NEW f \in Flow, NEW new \in Seq(Slots), NEW t \in Tenant,
         NEW state \in TenantState, NEW upserts \in SUBSET Tenant,
         Work(f, new, t, state, upserts),
         Rooted(flow[f].records) => Rooted(new),
         \A u \in Tenant : StateIn(new, u) = IF u = t THEN state ELSE StateIn(flow[f].records, u),
         t \in upserts \/ state \in LifecycleFrom(StateIn(flow[f].records, t))
  PROVE  IInv'
<1> USE DEF IInv
<1>1. flow[f] \in Working /\ flow \in [Flow -> Working]
  BY DEF TypeOK
<1>2. /\ flow[f].base \in Seq(Slots) /\ flow[f].records \in Seq(Slots)
      /\ flow[f].wrote \in [Tenant -> Wrote] /\ flow[f].upserted \in SUBSET Tenant
  BY <1>1 DEF Working
<1> DEFINE w == [flow[f].wrote EXCEPT ![t] = state]
           rec == [base |-> flow[f].base, records |-> new, wrote |-> w,
                   upserted |-> flow[f].upserted \union upserts, open |-> TRUE]
<1>3. flow[f].open /\ flow' = [flow EXCEPT ![f] = rec]
      /\ UNCHANGED <<seed, repository, snapshot, acked, stale>>
      /\ edits < MaxEdits /\ edits' = edits + 1
  BY DEF Work
<1>4. w \in [Tenant -> Wrote] /\ w[t] = state /\ \A u \in Tenant \ {t} : w[u] = flow[f].wrote[u]
  BY <1>2 DEF Wrote
<1>5. rec \in Working
  BY <1>2, <1>4 DEF Working
<1>6. flow'[f] = rec /\ \A g \in Flow \ {f} : flow'[g] = flow[g]
  BY <1>1, <1>3
<1>7. TypeOK'
  <2>1. flow' \in [Flow -> Working]
    BY <1>1, <1>3, <1>5
  <2>2. edits' \in 0..MaxEdits
    BY <1>3, EditsAssumption DEF TypeOK
  <2> QED
    BY <1>3, <2>1, <2>2 DEF TypeOK
<1>8. AllRooted'
  <2>1. Rooted(new)
    BY <1>3 DEF AllRooted
  <2>2. Rooted(repository)' /\ (snapshot # NoSnapshot => Rooted(snapshot))'
    BY <1>3 DEF AllRooted, Rooted, DuplicatesOnlyFrom
  <2>3. ASSUME NEW g \in Flow, flow'[g].open PROVE Rooted(flow[g].records)'
    <3>1. CASE g = f
      <4>1. (flow[g].records)' = new
        BY <1>6, <3>1
      <4> QED
        BY <1>3, <2>1, <4>1 DEF Rooted, DuplicatesOnlyFrom
    <3>2. CASE g # f
      <4>1. Rooted(flow[g].records) /\ (flow[g].records)' = flow[g].records
        BY <1>6, <2>3, <3>2 DEF AllRooted
      <4> QED
        BY <1>3, <4>1 DEF Rooted, DuplicatesOnlyFrom
    <3> QED
      BY <3>1, <3>2
  <2> QED
    BY <2>2, <2>3 DEF AllRooted
<1>9. FlowReads'
  <2>1. ASSUME NEW g \in Flow, flow'[g].open, NEW u \in Tenant
        PROVE  StateIn(flow'[g].records, u) =
                 IF flow'[g].wrote[u] = "nothing" THEN StateIn(flow'[g].base, u) ELSE flow'[g].wrote[u]
    <3>1. CASE g # f
      BY <1>6, <2>1, <3>1 DEF FlowReads
    <3>2. CASE g = f /\ u = t
      BY <1>4, <1>6, <3>2 DEF TenantState
    <3>3. CASE g = f /\ u # t
      <4>1. StateIn(flow[f].records, u) =
              IF flow[f].wrote[u] = "nothing" THEN StateIn(flow[f].base, u) ELSE flow[f].wrote[u]
        BY <1>3 DEF FlowReads
      <4> QED
        BY <1>4, <1>6, <3>3, <4>1
    <3> QED
      BY <3>1, <3>2, <3>3
  <2> QED
    BY <2>1 DEF FlowReads, StateIn, GetTenantById, IndexOf, Ids
<1>10. ReadYourWrites'
  <2>1. repository' = repository /\ acked' = acked /\ stale' = stale
    BY <1>3
  <2>2. ASSUME ~stale', NEW u \in Tenant PROVE StateIn(repository', u) = acked'[u]
    BY <2>1, <2>2, Zenon DEF ReadYourWrites
  <2> QED
    BY <2>2 DEF ReadYourWrites, StateIn, GetTenantById, IndexOf, Ids
<1>11. OnlyUpsertLeavesLifecycle'
  <2>1. ASSUME NEW g \in Flow, NEW u \in Tenant, u \notin flow'[g].upserted
        PROVE  StateIn(flow'[g].records, u) \in LifecycleFrom(StateIn(flow'[g].base, u))
    <3>1. CASE g # f
      BY <1>6, <2>1, <3>1 DEF OnlyUpsertLeavesLifecycle
    <3>2. CASE g = f
      <4>1. u \notin flow[f].upserted /\ u \notin upserts
        BY <1>6, <2>1, <3>2
      <4>2. StateIn(flow[f].records, u) \in LifecycleFrom(StateIn(flow[f].base, u))
        BY <4>1 DEF OnlyUpsertLeavesLifecycle
      <4>3. StateIn(flow[f].base, u) \in TenantState \union {Absent}
        BY <1>2, StateInType
      <4>4. CASE u = t
        BY <1>6, <3>2, <4>1, <4>2, <4>3, <4>4, LifecycleGoesOn
      <4>5. CASE u # t
        BY <1>6, <3>2, <4>2, <4>5
      <4> QED
        BY <4>4, <4>5
    <3> QED
      BY <3>1, <3>2
  <2> QED
    BY <2>1 DEF OnlyUpsertLeavesLifecycle, StateIn, GetTenantById, IndexOf, Ids, LifecycleFrom
<1> QED
  BY <1>7, <1>8, <1>9, <1>10, <1>11

\* Reading the shared value opens a flow that has written nothing.
LEMMA ReadStep == ASSUME IInv, NEW f \in Flow, ReadRepository(f) PROVE IInv'
<1> USE DEF IInv
<1> DEFINE rec == [base |-> repository, records |-> repository, wrote |-> Idle.wrote,
                   upserted |-> {}, open |-> TRUE]
<1>1. flow \in [Flow -> Working] /\ repository \in Seq(Slots)
  BY DEF TypeOK
<1>2. Idle.wrote \in [Tenant -> Wrote] /\ \A u \in Tenant : Idle.wrote[u] = "nothing"
  BY DEF Idle, Wrote
<1>3. rec \in Working
  BY <1>1, <1>2 DEF Working
<1>4. flow' = [flow EXCEPT ![f] = rec] /\ UNCHANGED <<seed, repository, snapshot, acked, stale, edits>>
  BY DEF ReadRepository
<1>5. flow'[f] = rec /\ \A g \in Flow \ {f} : flow'[g] = flow[g]
  BY <1>1, <1>4
<1>6. TypeOK'
  <2>1. flow' \in [Flow -> Working]
    BY <1>1, <1>3, <1>4
  <2> QED
    BY <1>4, <2>1 DEF TypeOK
<1>7. AllRooted'
  <2>1. Rooted(repository)' /\ (snapshot # NoSnapshot => Rooted(snapshot))'
    BY <1>4 DEF AllRooted, Rooted, DuplicatesOnlyFrom
  <2>2. ASSUME NEW g \in Flow, flow'[g].open PROVE Rooted(flow[g].records)'
    <3>1. Rooted((flow[g].records)')
      BY <1>5, <2>2 DEF AllRooted
    <3> QED
      BY <1>4, <3>1 DEF Rooted, DuplicatesOnlyFrom
  <2> QED
    BY <2>1, <2>2 DEF AllRooted
<1>8. FlowReads'
  <2>1. ASSUME NEW g \in Flow, flow'[g].open, NEW u \in Tenant
        PROVE  StateIn(flow'[g].records, u) =
                 IF flow'[g].wrote[u] = "nothing" THEN StateIn(flow'[g].base, u) ELSE flow'[g].wrote[u]
    <3>1. CASE g = f
      BY <1>2, <1>5, <3>1
    <3>2. CASE g # f
      BY <1>5, <2>1, <3>2 DEF FlowReads
    <3> QED
      BY <3>1, <3>2
  <2> QED
    BY <2>1 DEF FlowReads, StateIn, GetTenantById, IndexOf, Ids
<1>9. ReadYourWrites'
  <2>1. repository' = repository /\ acked' = acked /\ stale' = stale
    BY <1>4
  <2>2. ASSUME ~stale', NEW u \in Tenant PROVE StateIn(repository', u) = acked'[u]
    BY <2>1, <2>2, Zenon DEF ReadYourWrites
  <2> QED
    BY <2>2 DEF ReadYourWrites, StateIn, GetTenantById, IndexOf, Ids
<1>10. OnlyUpsertLeavesLifecycle'
  <2>1. ASSUME NEW g \in Flow, NEW u \in Tenant, u \notin flow'[g].upserted
        PROVE  StateIn(flow'[g].records, u) \in LifecycleFrom(StateIn(flow'[g].base, u))
    <3>1. CASE g = f
      <4>1. flow'[g].records = repository /\ flow'[g].base = repository
        BY <1>5, <3>1
      <4> QED
        BY <1>1, <4>1, StateInType, LifecycleGoesOn
    <3>2. CASE g # f
      BY <1>5, <2>1, <3>2 DEF OnlyUpsertLeavesLifecycle
    <3> QED
      BY <3>1, <3>2
  <2> QED
    BY <2>1 DEF OnlyUpsertLeavesLifecycle, StateIn, GetTenantById, IndexOf, Ids, LifecycleFrom
<1> QED
  BY <1>6, <1>7, <1>8, <1>9, <1>10

\* Storing a value closes the flow; if the flow had read the value it replaces,
\* what was acknowledged before and what it wrote add up to what is read now.
LEMMA StoreStep == ASSUME IInv, NEW f \in Flow, Store(f) PROVE IInv'
<1> USE DEF IInv
<1>1. flow \in [Flow -> Working] /\ acked \in [Tenant -> TenantState \union {Absent}] /\ flow[f] \in Working
  BY DEF TypeOK
<1>2. flow[f].records \in Seq(Slots) /\ flow[f].wrote \in [Tenant -> Wrote] /\ flow[f].open
  BY <1>1 DEF Working, Store
<1>3. /\ repository' = flow[f].records
      /\ flow' = [flow EXCEPT ![f] = Idle]
      /\ acked' = [u \in Tenant |-> IF flow[f].wrote[u] = "nothing" THEN acked[u] ELSE flow[f].wrote[u]]
      /\ UNCHANGED <<seed, snapshot, edits>>
  BY DEF Store
<1>4. flow'[f] = Idle /\ \A g \in Flow \ {f} : flow'[g] = flow[g]
  BY <1>1, <1>3
<1>5. stale' \in BOOLEAN /\ (~stale' => ~stale /\ flow[f].base = repository)
  BY Zenon DEF Store, TypeOK
<1>6. TypeOK'
  <2>1. flow' \in [Flow -> Working]
    BY <1>1, <1>3, IdleType
  <2>2. acked' \in [Tenant -> TenantState \union {Absent}]
    BY <1>1, <1>2, <1>3 DEF Wrote
  <2>3. repository' \in Seq(Slots)
    BY <1>2, <1>3
  <2> QED
    BY <1>3, <1>5, <2>1, <2>2, <2>3, Zenon DEF TypeOK
<1>7. AllRooted'
  <2>1. Rooted(flow[f].records)
    BY <1>2 DEF AllRooted
  <2>2. Rooted(repository)' /\ (snapshot # NoSnapshot => Rooted(snapshot))'
    BY <1>3, <2>1 DEF AllRooted, Rooted, DuplicatesOnlyFrom
  <2>3. ASSUME NEW g \in Flow, flow'[g].open PROVE Rooted(flow[g].records)'
    <3>1. g # f
      BY <1>4, <2>3, IdleType
    <3>2. Rooted(flow[g].records) /\ (flow[g].records)' = flow[g].records
      BY <1>4, <2>3, <3>1 DEF AllRooted
    <3> QED
      BY <1>3, <3>2 DEF Rooted, DuplicatesOnlyFrom
  <2> QED
    BY <2>2, <2>3 DEF AllRooted
<1>8. FlowReads'
  <2>1. ASSUME NEW g \in Flow, flow'[g].open, NEW u \in Tenant
        PROVE  StateIn(flow'[g].records, u) =
                 IF flow'[g].wrote[u] = "nothing" THEN StateIn(flow'[g].base, u) ELSE flow'[g].wrote[u]
    BY <1>4, <2>1, IdleType DEF FlowReads
  <2> QED
    BY <2>1 DEF FlowReads, StateIn, GetTenantById, IndexOf, Ids
<1>9. ReadYourWrites'
  <2>1. ASSUME ~stale', NEW u \in Tenant PROVE StateIn(repository', u) = acked'[u]
    <3>1. ~stale /\ flow[f].base = repository
      BY <1>5, <2>1, Zenon
    <3>2. StateIn(repository, u) = acked[u]
      BY <3>1, Zenon DEF ReadYourWrites
    <3>3. StateIn(flow[f].records, u) =
            IF flow[f].wrote[u] = "nothing" THEN StateIn(flow[f].base, u) ELSE flow[f].wrote[u]
      BY <1>2, Zenon DEF FlowReads
    <3> QED
      BY <1>3, <3>1, <3>2, <3>3
  <2> QED
    BY <2>1 DEF ReadYourWrites, StateIn, GetTenantById, IndexOf, Ids
<1>10. OnlyUpsertLeavesLifecycle'
  <2>1. ASSUME NEW g \in Flow, NEW u \in Tenant, u \notin flow'[g].upserted
        PROVE  StateIn(flow'[g].records, u) \in LifecycleFrom(StateIn(flow'[g].base, u))
    <3>1. CASE g = f
      <4>1. flow'[g].records = flow'[g].base /\ flow'[g].base \in Seq(Slots)
        BY <1>4, <3>1, IdleType DEF Working
      <4> QED
        BY <4>1, StateInType, LifecycleGoesOn
    <3>2. CASE g # f
      BY <1>4, <2>1, <3>2 DEF OnlyUpsertLeavesLifecycle
    <3> QED
      BY <3>1, <3>2
  <2> QED
    BY <2>1 DEF OnlyUpsertLeavesLifecycle, StateIn, GetTenantById, IndexOf, Ids, LifecycleFrom
<1> QED
  BY <1>6, <1>7, <1>8, <1>9, <1>10

\* A restart goes back to the snapshot or the seed, and forgets every flow.
LEMMA RestartStep == ASSUME IInv, Restart PROVE IInv'
<1> USE DEF IInv
<1>1. /\ repository' = Recovered
      /\ acked' = [u \in Tenant |-> StateIn(repository', u)]
      /\ flow' = [f \in Flow |-> Idle]
      /\ stale' = FALSE
      /\ UNCHANGED <<seed, snapshot, edits>>
  BY DEF Restart
<1>2. Recovered \in Seq(Slots) /\ Rooted(Recovered)
  BY SeedRooted DEF TypeOK, AllRooted, Recovered
<1>3. TypeOK'
  <2>1. flow' \in [Flow -> Working]
    BY <1>1, IdleType
  <2>2. acked' \in [Tenant -> TenantState \union {Absent}]
    BY <1>1, <1>2, StateInType
  <2>3. stale' \in BOOLEAN
    BY <1>1, Zenon
  <2> QED
    BY <1>1, <1>2, <2>1, <2>2, <2>3, Zenon DEF TypeOK
<1>4. AllRooted'
  <2>1. Rooted(repository)' /\ (snapshot # NoSnapshot => Rooted(snapshot))'
    BY <1>1, <1>2 DEF AllRooted, Rooted, DuplicatesOnlyFrom
  <2> QED
    BY <1>1, <2>1, IdleType DEF AllRooted
<1>5. FlowReads'
  BY <1>1, IdleType DEF FlowReads
<1>6. ReadYourWrites'
  <2>1. ASSUME NEW u \in Tenant PROVE StateIn(repository', u) = acked'[u]
    BY <1>1
  <2> QED
    BY <2>1 DEF ReadYourWrites, StateIn, GetTenantById, IndexOf, Ids
<1>7. OnlyUpsertLeavesLifecycle'
  <2>1. ASSUME NEW g \in Flow, NEW u \in Tenant
        PROVE  StateIn(flow'[g].records, u) \in LifecycleFrom(StateIn(flow'[g].base, u))
    <3>1. flow'[g].records = flow'[g].base /\ flow'[g].base \in Seq(Slots)
      BY <1>1, IdleType DEF Working
    <3> QED
      BY <3>1, StateInType, LifecycleGoesOn
  <2> QED
    BY <2>1 DEF OnlyUpsertLeavesLifecycle, StateIn, GetTenantById, IndexOf, Ids, LifecycleFrom
<1> QED
  BY <1>3, <1>4, <1>5, <1>6, <1>7

\* A step that changes no more than the snapshot file, to the shared value.
LEMMA SnapshotStep ==
  ASSUME IInv, UNCHANGED <<seed, repository, flow, acked, stale, edits>>,
         snapshot' = snapshot \/ snapshot' = repository
  PROVE  IInv'
<1> USE DEF IInv
<1>1. TypeOK'
  BY DEF TypeOK
<1>2. AllRooted'
  BY DEF AllRooted, Rooted, DuplicatesOnlyFrom
<1>3. FlowReads'
  <2>1. ASSUME NEW g \in Flow, flow'[g].open, NEW u \in Tenant
        PROVE  StateIn(flow'[g].records, u) =
                 IF flow'[g].wrote[u] = "nothing" THEN StateIn(flow'[g].base, u) ELSE flow'[g].wrote[u]
    BY <2>1 DEF FlowReads
  <2> QED
    BY <2>1 DEF FlowReads, StateIn, GetTenantById, IndexOf, Ids
<1>4. ReadYourWrites'
  <2>1. ASSUME ~stale', NEW u \in Tenant PROVE StateIn(repository', u) = acked'[u]
    BY <2>1, Zenon DEF ReadYourWrites
  <2> QED
    BY <2>1 DEF ReadYourWrites, StateIn, GetTenantById, IndexOf, Ids
<1>5. OnlyUpsertLeavesLifecycle'
  <2>1. ASSUME NEW g \in Flow, NEW u \in Tenant, u \notin flow'[g].upserted
        PROVE  StateIn(flow'[g].records, u) \in LifecycleFrom(StateIn(flow'[g].base, u))
    BY <2>1 DEF OnlyUpsertLeavesLifecycle
  <2> QED
    BY <2>1 DEF OnlyUpsertLeavesLifecycle, StateIn, GetTenantById, IndexOf, Ids, LifecycleFrom
<1> QED
  BY <1>1, <1>2, <1>3, <1>4, <1>5

LEMMA UpsertStep ==
  ASSUME IInv, NEW f \in Flow, NEW t \in Tenant, NEW state \in TenantState, Upsert(f, t, state)
  PROVE  IInv'
<1> DEFINE candidate == [id |-> t, state |-> state, valid |-> TRUE]
           new == UpsertTenantRecord(flow[f].records, candidate)
<1>1. flow[f].records \in Seq(Slots) /\ seed \in Seq(Slots)
  BY DEF IInv, TypeOK, Working
<1>2. candidate \in Record /\ candidate.id = t /\ candidate.state = state
  BY DEF Record
<1>3. new \in Seq(Slots) /\ (Rooted(flow[f].records) => Rooted(new))
  BY <1>1, <1>2, UpsertKeepsPlaces
<1>4. \A u \in Tenant : StateIn(new, u) = IF u = t THEN state ELSE StateIn(flow[f].records, u)
  BY <1>1, <1>2, UpsertReads
<1>5. Work(f, new, t, state, {t})
  BY DEF Upsert
<1>6. {t} \in SUBSET Tenant /\ t \in {t}
  OBVIOUS
<1> HIDE DEF candidate, new
<1> QED
  BY <1>3, <1>4, <1>5, <1>6, WorkStep

LEMMA TransitionStep ==
  ASSUME IInv, NEW f \in Flow, NEW t \in Tenant, NEW next \in TenantState, Transition(f, t, next)
  PROVE  IInv'
<1> DEFINE records == flow[f].records
           new == TransitionTenant(records, t, next)
<1>1. records \in Seq(Slots) /\ seed \in Seq(Slots) /\ t \in Ids(records)
  BY DEF IInv, TypeOK, Working, Transition
<1>2. new \in Seq(Slots) /\ (Rooted(records) => Rooted(new))
  BY <1>1, TransitionKeepsPlaces
<1>3. \A u \in Tenant : StateIn(new, u) = IF u = t THEN next ELSE StateIn(records, u)
  BY <1>1, TransitionReads
<1>4. next \in LifecycleFrom(StateIn(records, t))
  <2>1. StateIn(records, t) = GetTenantById(records, t).state
    BY <1>1 DEF StateIn
  <2>2. records[IndexOf(records, t)] \in Slots
    BY <1>1, IndexOfFound
  <2>3. GetTenantById(records, t).state \in TenantState
    <3>1. \A r \in Slots : r.state \in TenantState
      BY DEF Slots, Record, Hole, TenantState
    <3> QED
      BY <2>2, <3>1 DEF GetTenantById
  <2>4. next \in TRANSITIONS[GetTenantById(records, t).state]
    BY Zenon DEF Transition, CanTransition
  <2> QED
    BY <2>1, <2>3, <2>4, LifecycleGoesOn
<1>5. Work(f, new, t, next, {})
  BY DEF Transition
<1> QED
  BY <1>2, <1>3, <1>4, <1>5, WorkStep

LEMMA StepIInv == IInv /\ [Next]_vars => IInv'
<1> SUFFICES ASSUME IInv, [Next]_vars PROVE IInv'
  OBVIOUS
<1>1. ASSUME NEW f \in Flow, ReadRepository(f) PROVE IInv'
  BY <1>1, ReadStep
<1>2. ASSUME NEW f \in Flow, NEW t \in Tenant, NEW state \in TenantState, Upsert(f, t, state)
      PROVE  IInv'
  BY <1>2, UpsertStep
<1>3. ASSUME NEW f \in Flow, NEW t \in Tenant, NEW next \in TenantState, Transition(f, t, next)
      PROVE  IInv'
  BY <1>3, TransitionStep
<1>4. ASSUME NEW f \in Flow, Store(f) PROVE IInv'
  BY <1>4, StoreStep
<1>5. CASE SaveSnapshot
  BY <1>5, SnapshotStep DEF SaveSnapshot
<1>6. CASE Restart
  BY <1>6, RestartStep
<1>7. CASE UNCHANGED vars
  BY <1>7, SnapshotStep DEF vars
<1> QED
  BY <1>1, <1>2, <1>3, <1>4, <1>5, <1>6, <1>7 DEF Next

LEMMA Invariance == Spec => []IInv
  BY InitIInv, StepIInv, PTL DEF Spec

-----------------------------------------------------------------------------

\* The variables keep their types: every flow's list is a list of records.
THEOREM TypeCorrect == Spec => []TypeOK
<1>1. IInv => TypeOK
  BY DEF IInv
<1> QED
  BY Invariance, <1>1, PTL

\* upsertTenantRecord and transitionTenant never give a tenant a second record,
\* whatever flows overlap and whenever the server restarts.
THEOREM NoDuplicates == Spec => []NoNewDuplicates
<1>1. IInv => NoNewDuplicates
  BY DEF IInv, AllRooted, Rooted, NoNewDuplicates
<1> QED
  BY Invariance, <1>1, PTL

\* A stored write is read back by getTenantById until a stale store.
THEOREM WritesReadBack == Spec => []ReadYourWrites
<1>1. IInv => ReadYourWrites
  BY DEF IInv
<1> QED
  BY Invariance, <1>1, PTL

\* transitionTenant keeps every tenant on the lifecycle over any number of calls.
THEOREM LifecycleKept == Spec => []OnlyUpsertLeavesLifecycle
<1>1. IInv => OnlyUpsertLeavesLifecycle
  BY DEF IInv
<1> QED
  BY Invariance, <1>1, PTL
-----------------------------------------------------------------------------
(***************************************************************************)
(* The tenant management API over the repository.                          *)
(***************************************************************************)

\* A verdict is the reason of one of its checks, or that all hold.
LEMMA VerdictReason ==
  ASSUME NEW checks, DOMAIN checks \in SUBSET Nat, Verdict(checks) # Allowed
  PROVE  \E i \in DOMAIN checks : Verdict(checks) = checks[i].reason
<1> DEFINE broken == {i \in DOMAIN checks : ~checks[i].holds}
<1>1. broken # {} /\ Verdict(checks) = checks[Min(broken)].reason
  BY DEF Verdict
<1>2. \E x \in broken : \A y \in broken : x <= y
  BY <1>1, LeastNat
<1>3. Min(broken) \in broken
  BY <1>2 DEF Min
<1> QED
  BY <1>1, <1>3

\* No check refuses with the reason that the handlers give for an unknown tenant.
NotFound == "tenant_not_found"

LEMMA PillarReason ==
  ASSUME NEW userContext, NEW tenantId, NEW pillar
  PROVE  AuthorizeTenantPillar(userContext, tenantId, pillar) # NotFound
<1> DEFINE checks == <<Check(tenantId # NoId, "tenant_missing"),
                       Check(userContext.tenantId = tenantId, "tenant_mismatch"),
                       Check(userContext.roles \subseteq PLATFORM_ROLES, "unknown_roles"),
                       Check(pillar \in ResolvePillarAccess(userContext.roles), "insufficient_role_access")>>
<1>1. AuthorizeTenantPillar(userContext, tenantId, pillar) = Verdict(checks)
  BY DEF AuthorizeTenantPillar
<1>2. DOMAIN checks = 1..4 /\ \A i \in 1..4 : checks[i].reason # NotFound
  BY DEF Check, NotFound
<1> HIDE DEF checks
<1> QED
  BY <1>1, <1>2, VerdictReason DEF Allowed, NotFound

LEMMA RouteReason ==
  ASSUME NEW userContext, NEW tenantId, NEW route, NEW granted
  PROVE  AuthorizeRouteAccess(userContext, tenantId, route, granted) # NotFound
<1> DEFINE pillar == AuthorizeTenantPillar(userContext, tenantId, route.pillar)
           checks == <<Check(pillar = Allowed, pillar),
                       Check(route.requiredPermissions \subseteq granted, "missing_permissions")>>
<1>1. AuthorizeRouteAccess(userContext, tenantId, route, granted) = Verdict(checks)
  BY DEF AuthorizeRouteAccess
<1>2. pillar # NotFound
  BY PillarReason
<1> HIDE DEF pillar
<1>3. DOMAIN checks = 1..2 /\ \A i \in 1..2 : checks[i].reason # NotFound
  BY <1>2 DEF Check, NotFound
<1> HIDE DEF checks
<1> QED
  BY <1>1, <1>3, VerdictReason DEF Allowed, NotFound

LEMMA ClaimsReason ==
  ASSUME NEW claims, NEW expected
  PROVE  ValidateTokenClaims(claims, expected) # NotFound
<1> DEFINE checks == <<Check(claims.present, "claims_missing"),
                       Check(claims.tid # NoId, "missing_claim_tid"),
                       Check(claims.oid, "missing_claim_oid"),
                       Check(claims.iss, "missing_claim_iss"),
                       Check(expected # NoId, "expected_tenant_id_missing"),
                       Check(claims.tid = expected, "tenant_id_mismatch"),
                       Check(ClassifyPermissionType(claims) # "unknown", "no_permissions_found"),
                       Check(~claims.expired, "token_expired")>>
<1>1. ValidateTokenClaims(claims, expected) = Verdict(checks)
  BY DEF ValidateTokenClaims
<1>2. DOMAIN checks = 1..8 /\ \A i \in 1..8 : checks[i].reason # NotFound
  BY DEF Check, NotFound
<1> HIDE DEF checks
<1> QED
  BY <1>1, <1>2, VerdictReason DEF Allowed, NotFound

LEMMA TokenReason ==
  ASSUME NEW request, NEW route
  PROVE  AuthorizeRequest(request, route) # NotFound
<1> DEFINE valid  == ValidateTokenClaims(request.claims, request.expectedTenantId)
           checks == <<Check(valid = Allowed, valid),
                       Check(AuthorizeTokenPermissions(request.claims, route.requiredPermissions),
                             "insufficient_permissions")>>
<1>1. AuthorizeRequest(request, route) = IF ~request.bearer THEN "bearer_missing" ELSE Verdict(checks)
  BY DEF AuthorizeRequest, EnforceAuthGate
<1>2. valid # NotFound
  BY ClaimsReason
<1> HIDE DEF valid
<1>3. DOMAIN checks = 1..2 /\ \A i \in 1..2 : checks[i].reason # NotFound
  BY <1>2 DEF Check, NotFound
<1> HIDE DEF checks
<1>4. Verdict(checks) # NotFound
  BY <1>3, VerdictReason DEF Allowed, NotFound
<1> QED
  BY <1>1, <1>4 DEF NotFound

-----------------------------------------------------------------------------

LEMMA RouteOf ==
  ASSUME NEW k \in Nat
  PROVE  Min({k}) = k
<1>1. \A x \in {k} : (\A y \in {k} : x <= y) <=> x = k
  OBVIOUS
<1> QED
  BY <1>1 DEF Min

\* What an answer about one tenant says is what the records read say of it.
LEMMA AnswerOfTenant ==
  ASSUME NEW request, NEW records, NEW k \in {2, 4}, Resolved(request.method, request.path) = {k},
         \/ RespondTo(request, records).status = "success"
         \/ RespondTo(request, records).code = NotFound
  PROVE  StateAnswered(RespondTo(request, records), TenantParam(request.path)) =
           StateIn(records, TenantParam(request.path))
<1> DEFINE t        == TenantParam(request.path)
           response == RespondTo(request, records)
           auth     == AuthorizeRequest(request, TENANT_API_ROUTES[k])
           access   == Access(request, k)
<1>1. Min({k}) = k
  BY RouteOf
<1>2. response = IF auth # Allowed THEN FormatError(auth) ELSE Dispatch(k, request, records)
  BY <1>1 DEF RespondTo
<1>3. auth # NotFound /\ access # NotFound
  BY TokenReason, RouteReason DEF Access
<1> HIDE DEF auth, access, response
<1>4. auth = Allowed /\ response = Dispatch(k, request, records)
  BY <1>2, <1>3 DEF FormatError, Response, response
<1>5. CASE k = 2
  <2>1. response = HandleGetTenant(request, records, t)
    BY <1>4, <1>5 DEF Dispatch
  <2>2. response = IF access # Allowed THEN FormatError(access)
                   ELSE IF t \notin Ids(records) THEN FormatError("tenant_not_found")
                   ELSE FormatSuccess(Found(records, t))
    BY <1>5, <2>1 DEF HandleGetTenant, access
  <2> QED
    BY <1>3, <2>2 DEF response, FormatError, FormatSuccess, Response, StateAnswered, StateIn, Found, NotFound
<1>6. CASE k = 4
  <2>1. response = HandleTenantReadiness(request, records, t)
    BY <1>4, <1>6 DEF Dispatch
  <2>2. response = IF access # Allowed THEN FormatError(access)
                   ELSE IF t \notin Ids(records) THEN FormatError("tenant_not_found")
                   ELSE FormatSuccess([state |-> Found(records, t).state,
                                       readiness |-> IF /\ Found(records, t).valid
                                                        /\ Found(records, t).state = "active"
                                                     THEN "ready" ELSE "blocked"])
    BY <1>6, <2>1 DEF HandleTenantReadiness, access
  <2> QED
    BY <1>3, <2>2 DEF response, FormatError, FormatSuccess, Response, StateAnswered, StateIn, Found, NotFound
<1> QED
  BY <1>5, <1>6

\* A list that is answered in full is the list that was read.
LEMMA AnswerOfList ==
  ASSUME NEW request, NEW records, Resolved(request.method, request.path) = {1},
         RespondTo(request, records).status = "success"
  PROVE  RespondTo(request, records).data.tenants = records
<1> DEFINE response == RespondTo(request, records)
           auth     == AuthorizeRequest(request, TENANT_API_ROUTES[1])
           access   == Access(request, 1)
<1>1. Min({1}) = 1
  BY RouteOf
<1>2. response = IF auth # Allowed THEN FormatError(auth) ELSE HandleListTenants(request, records)
  BY <1>1 DEF RespondTo, Dispatch
<1> HIDE DEF auth
<1>3. response = HandleListTenants(request, records)
  BY <1>2 DEF FormatError, Response
<1>4. \/ response = FormatError(access)
      \/ \E data : response = FormatPartial(data, "invalid_records_filtered")
      \/ response = FormatSuccess([tenants |-> records, summary |-> BuildTenantRegistrySummary(records)])
  BY <1>3 DEF HandleListTenants
<1> HIDE DEF access
<1> QED
  BY <1>4 DEF FormatError, FormatPartial, FormatSuccess, Response

LEMMA PutIsNoList ==
  ASSUME NEW path
  PROVE  Resolved("PUT", path) # {1}
<1>1. TENANT_API_ROUTES[1].method = "GET"
  BY DEF TENANT_API_ROUTES, BuildRoute
<1> QED
  BY <1>1 DEF Resolved

-----------------------------------------------------------------------------

\* A call that is open has seen the states of what the host read for it; one that
\* is answered said nothing else.
CurrentCall(c) ==
  LET answer  == call[c].answer.response
      request == call[c].request
      t       == TenantParam(request.path)
  IN  /\ call[c].phase = "open" =>
           /\ request \in Request
           /\ \A u \in Tenant : StateIn(call[c].records, u) \in call[c].current[u]
      /\ call[c].phase = "answered" =>
           /\ Resolved("GET", request.path) \in {{2}, {4}} /\ request.method = "GET"
                /\ (answer.status = "success" \/ answer.code = NotFound) =>
                StateAnswered(answer, t) \in call[c].current[t]
           /\ Resolved(request.method, request.path) = {1} /\ answer.status = "success" =>
                \A u \in Tenant : StateIn(answer.data.tenants, u) \in call[c].current[u]

CallShape(r) == DOMAIN r = {"phase", "request", "records", "answer", "current"}

ApiInv ==
  /\ DOMAIN call = Client /\ call = [c \in Client |-> call[c]]
  /\ \A c \in Client : CallShape(call[c]) /\ CurrentCall(c)

\* Answering a call changes its phase, what its host read and its answer, and no other call.
LEMMA AnsweredCalls ==
  ASSUME ApiInv, NEW c \in Client
  PROVE  /\ DOMAIN Answered(c) = Client
         /\ Answered(c) = [d \in Client |-> Answered(c)[d]]
         /\ \A d \in Client \ {c} : Answered(c)[d] = call[d]
         /\ CallShape(Answered(c)[c])
         /\ Answered(c)[c].phase = "answered" /\ Answered(c)[c].request = call[c].request
         /\ Answered(c)[c].answer = ExecuteRuntimeRequest(call[c].request, call[c].records)
         /\ Answered(c)[c].current = call[c].current
<1> DEFINE answer == ExecuteRuntimeRequest(call[c].request, call[c].records)
           new    == [call[c] EXCEPT !.phase = "answered", !.records = <<>>, !.answer = answer]
<1>1. Answered(c) = [call EXCEPT ![c] = new]
  BY DEF Answered
<1>2. /\ CallShape(new) /\ new.phase = "answered" /\ new.request = call[c].request
      /\ new.answer = answer /\ new.current = call[c].current
  <2> HIDE DEF answer
  <2>1. CallShape(call[c])
    BY DEF ApiInv
  <2> QED
    BY <2>1 DEF CallShape
<1> HIDE DEF new, answer
<1>3. /\ DOMAIN Answered(c) = Client /\ Answered(c) = [d \in Client |-> Answered(c)[d]]
      /\ \A d \in Client \ {c} : Answered(c)[d] = call[d]
      /\ Answered(c)[c] = new
  BY <1>1 DEF ApiInv
<1> QED
  BY <1>2, <1>3 DEF answer

\* Whatever else a call's history gains keeps it current.
LEMMA AnswerIsCurrent ==
  ASSUME ApiInv, NEW c \in Client, call[c].phase = "open",
         call'[c] = Answered(c)[c]
  PROVE  CallShape(call'[c]) /\ CurrentCall(c)'
<1> DEFINE request == call[c].request  records == call[c].records
           answer  == ExecuteRuntimeRequest(request, records)
<1>1. /\ CallShape(call'[c]) /\ call'[c].phase = "answered" /\ call'[c].request = request
      /\ call'[c].answer = answer /\ call'[c].current = call[c].current
  BY AnsweredCalls
<1>2. /\ answer.response = RespondTo(request, records) /\ request \in Request
      /\ \A u \in Tenant : StateIn(records, u) \in call[c].current[u]
  BY DEF ExecuteRuntimeRequest, ApiInv, CurrentCall
<1> HIDE DEF answer
<1>3. ASSUME Resolved("GET", request.path) \in {{2}, {4}}, request.method = "GET",
             \/ RespondTo(request, records).status = "success"
             \/ RespondTo(request, records).code = NotFound
      PROVE  StateAnswered(RespondTo(request, records), TenantParam(request.path))
               \in call[c].current[TenantParam(request.path)]
  <2>1. TenantParam(request.path) \in Tenant
    BY <1>2, <1>3, RequestAssumption
  <2>2. \E k \in {2, 4} : Resolved(request.method, request.path) = {k}
    BY <1>3
  <2>3. StateAnswered(RespondTo(request, records), TenantParam(request.path)) =
          StateIn(records, TenantParam(request.path))
    BY <1>3, <2>2, AnswerOfTenant
  <2> QED
    BY <1>2, <2>1, <2>3
<1>4. ASSUME Resolved(request.method, request.path) = {1}, RespondTo(request, records).status = "success"
      PROVE  \A u \in Tenant : StateIn(RespondTo(request, records).data.tenants, u) \in call[c].current[u]
  BY <1>2, <1>4, AnswerOfList
<1> QED
  BY <1>1, <1>2, <1>3, <1>4 DEF CallShape, CurrentCall

LEMMA ObservedIsCurrent ==
  ASSUME ApiInv, NEW d \in Client, NEW t, NEW s,
         call'[d] = IF call[d].phase = "open"
                    THEN [call[d] EXCEPT !.current[t] = @ \union {s}] ELSE call[d]
  PROVE  CallShape(call'[d]) /\ CurrentCall(d)'
<1>1. CallShape(call[d]) /\ CurrentCall(d)
  BY DEF ApiInv
<1>2. CASE call[d].phase # "open"
  BY <1>1, <1>2 DEF CurrentCall, CallShape
<1>3. CASE call[d].phase = "open"
  <2>1. /\ CallShape(call'[d]) /\ call'[d].phase = "open"
        /\ call'[d].request = call[d].request /\ call'[d].records = call[d].records
        /\ call'[d].current = [call[d].current EXCEPT ![t] = @ \union {s}]
    BY <1>1, <1>3 DEF CallShape
  <2>2. \A u \in Tenant : StateIn(call[d].records, u) \in [call[d].current EXCEPT ![t] = @ \union {s}][u]
    BY <1>1, <1>3 DEF CurrentCall
  <2> QED
    BY <1>1, <1>3, <2>1, <2>2 DEF CallShape, CurrentCall
<1> QED
  BY <1>2, <1>3

LEMMA ApiInitially == ApiInit => IInv /\ ApiInv
<1> SUFFICES ASSUME ApiInit PROVE ApiInv
  BY InitIInv DEF ApiInit
<1>1. call = [c \in Client |-> NoCall]
  BY DEF ApiInit
<1>2. CallShape(NoCall) /\ NoCall.phase = "idle"
  BY DEF CallShape, NoCall
<1> QED
  BY <1>1, <1>2 DEF ApiInv, CurrentCall

LEMMA ArrivalIsCurrent ==
  ASSUME ApiInv, NEW c \in Client, NEW request \in Request, Arrive(c, request)
  PROVE  ApiInv'
<1> DEFINE new == [phase |-> "open", request |-> request, records |-> repository, answer |-> NoAnswer,
                   current |-> [t \in Tenant |-> {StateIn(repository, t)}]]
<1>1. call' = [call EXCEPT ![c] = new] /\ repository' = repository
  BY DEF Arrive, vars
<1>2. DOMAIN call' = Client /\ call' = [d \in Client |-> call'[d]]
  BY <1>1 DEF ApiInv
<1>3. CallShape(call'[c]) /\ CurrentCall(c)'
  <2>1. call'[c] = new
    BY <1>1 DEF ApiInv
  <2> QED
    BY <2>1 DEF CallShape, CurrentCall
<1>4. ASSUME NEW d \in Client, d # c PROVE CallShape(call'[d]) /\ CurrentCall(d)'
  <2>1. call'[d] = call[d]
    BY <1>1, <1>4 DEF ApiInv
  <2> QED
    BY <2>1 DEF ApiInv, CallShape, CurrentCall
<1> QED
  BY <1>2, <1>3, <1>4 DEF ApiInv

LEMMA AnsweringIsCurrent ==
  ASSUME ApiInv, NEW c \in Client, Answer(c)
  PROVE  ApiInv'
<1>1. call[c].phase = "open"
  BY DEF Answer
<1>2. /\ DOMAIN Answered(c) = Client /\ Answered(c)[c].phase = "answered"
      /\ \A d \in Client \ {c} : Answered(c)[d] = call[d]
      /\ Answered(c) = [d \in Client |-> Answered(c)[d]]
  BY AnsweredCalls
<1>3. CASE call' = Answered(c)
  <2>1. ASSUME NEW d \in Client, d # c PROVE CallShape(call'[d]) /\ CurrentCall(d)'
    BY <1>2, <1>3, <2>1 DEF ApiInv, CallShape, CurrentCall
  <2>2. CallShape(call'[c]) /\ CurrentCall(c)'
    BY <1>1, <1>3, AnswerIsCurrent
  <2> QED
    BY <1>2, <1>3, <2>1, <2>2 DEF ApiInv
<1>4. ASSUME NEW t, NEW s, call' = Observed(Answered(c), t, s) PROVE ApiInv'
  <2>1. /\ DOMAIN call' = Client /\ call' = [d \in Client |-> call'[d]]
        /\ \A d \in Client : call'[d] = IF Answered(c)[d].phase = "open"
                                        THEN [Answered(c)[d] EXCEPT !.current[t] = @ \union {s}]
                                        ELSE Answered(c)[d]
    BY <1>4 DEF Observed
  <2>2. CallShape(call'[c]) /\ CurrentCall(c)'
    <3>1. call'[c] = Answered(c)[c]
      <4>1. Answered(c)[c].phase # "open"
        BY <1>2
      <4> QED
        BY <2>1, <4>1
    <3> QED
      BY <1>1, <3>1, AnswerIsCurrent
  <2>3. ASSUME NEW d \in Client, d # c PROVE CallShape(call'[d]) /\ CurrentCall(d)'
    <3>1. Answered(c)[d] = call[d]
      BY <1>2, <2>3
    <3>2. call'[d] = IF call[d].phase = "open"
                     THEN [call[d] EXCEPT !.current[t] = @ \union {s}] ELSE call[d]
      BY <2>1, <3>1
    <3> QED
      BY <3>2, ObservedIsCurrent
  <2> QED
    BY <2>1, <2>2, <2>3 DEF ApiInv
<1> QED
  BY <1>3, <1>4 DEF Answer

\* What a handler lets the host store is a record, so that a call is one upsert.
LEMMA AnsweringKeepsIInv ==
  ASSUME IInv, ApiInv, NEW c \in Client, Answer(c)
  PROVE  IInv'
<1>1. CASE UNCHANGED vars
  BY <1>1, StepIInv
<1>2. CASE ~ UNCHANGED vars
  <2> DEFINE response == Answered(c)[c].answer.response
             record   == response.data
             request  == call[c].request
  <2>1. /\ request.method = "PUT" /\ response.status = "success"
        /\ edits < MaxEdits /\ edits' = edits + 1
        /\ repository' = UpsertTenantRecord(repository, record)
        /\ acked' = [acked EXCEPT ![record.id] = record.state]
        /\ UNCHANGED <<seed, flow, snapshot, stale>>
        /\ call[c].phase = "open"
    BY <1>2 DEF Answer
  <2>2. response = RespondTo(request, call[c].records) /\ request \in Request
    <3>1. Answered(c)[c].answer = ExecuteRuntimeRequest(request, call[c].records)
      BY AnsweredCalls
    <3>2. request \in Request
      BY <2>1 DEF ApiInv, CurrentCall
    <3> QED
      BY <3>1, <3>2 DEF ExecuteRuntimeRequest
  <2> HIDE DEF response, request
  <2>3. record \in Record
    <3>1. \A i \in DOMAIN TENANT_API_ROUTES : TENANT_API_ROUTES[i].method = "PUT" => i = 3
      <4>1. DOMAIN TENANT_API_ROUTES = 1..4
        BY DEF TENANT_API_ROUTES
      <4>2. \A i \in {1, 2, 4} : TENANT_API_ROUTES[i].method = "GET"
        BY DEF TENANT_API_ROUTES, BuildRoute
      <4> QED
        BY <4>1, <4>2
    <3>2. Resolved(request.method, request.path) \in {{}, {3}}
      BY <2>1, <3>1 DEF Resolved
    <3>3. Resolved(request.method, request.path) = {3}
      BY <2>1, <2>2, <3>2 DEF RespondTo, FormatError, Response
    <3>4. Min({3}) = 3
      BY RouteOf
    <3>5. \/ \E code : response = FormatError(code)
          \/ response = HandleUpsertTenant(request)
      BY <2>2, <3>3, <3>4 DEF RespondTo, Dispatch
    <3>6. response = FormatSuccess(BuildTenantRecord(request.body))
      BY <2>1, <3>5 DEF HandleUpsertTenant, FormatError, Response
    <3>7. BuildTenantRecord(request.body) \in Record
      BY <2>2, RequestAssumption DEF BuildTenantRecord, Record, TenantState
    <3> QED
      BY <3>6, <3>7 DEF FormatSuccess, Response
  <2> HIDE DEF record
  <2>4. repository' \in Seq(Slots) /\ Rooted(repository')
    BY <2>1, <2>3, UpsertKeepsPlaces DEF IInv, TypeOK, AllRooted
  <2>5. \A u \in Tenant : StateIn(repository', u) =
                            IF u = record.id THEN record.state ELSE StateIn(repository, u)
    BY <2>1, <2>3, UpsertReads DEF IInv, TypeOK
  <2>6. record.id \in Tenant /\ record.state \in TenantState
    BY <2>3 DEF Record
  <2>7. TypeOK'
    BY <2>1, <2>4, <2>6, EditsAssumption DEF IInv, TypeOK
  <2>8. ReadYourWrites'
    BY <2>1, <2>5, <2>6 DEF IInv, TypeOK, ReadYourWrites
  <2>9. AllRooted' /\ FlowReads' /\ OnlyUpsertLeavesLifecycle'
    BY <2>1, <2>4 DEF IInv, AllRooted, Rooted, FlowReads, OnlyUpsertLeavesLifecycle
  <2> QED
    BY <2>7, <2>8, <2>9 DEF IInv
<1> QED
  BY <1>1, <1>2

LEMMA ApiKeepsInv == IInv /\ ApiInv /\ [ApiNext]_apiVars => IInv' /\ ApiInv'
<1> SUFFICES ASSUME IInv, ApiInv, [ApiNext]_apiVars PROVE IInv' /\ ApiInv'
  OBVIOUS
<1>1. ASSUME call' = call PROVE ApiInv'
  BY <1>1 DEF ApiInv, CurrentCall
<1>2. CASE UNCHANGED apiVars
  BY <1>1, <1>2, StepIInv DEF apiVars
<1>3. CASE SaveSnapshot /\ UNCHANGED call
  BY <1>1, <1>3, StepIInv DEF Next
<1>4. CASE ApiRestart
  <2>1. IInv'
    BY <1>4, StepIInv DEF ApiRestart, Next
  <2>2. call' = [c \in Client |-> NoCall] /\ CallShape(NoCall) /\ NoCall.phase = "idle"
    BY <1>4 DEF ApiRestart, CallShape, NoCall
  <2> QED
    BY <2>1, <2>2 DEF ApiInv, CurrentCall
<1>5. ASSUME NEW c \in Client, NEW request \in Request, Arrive(c, request) PROVE IInv' /\ ApiInv'
  <2>1. UNCHANGED vars
    BY <1>5 DEF Arrive
  <2> QED
    BY <1>5, <2>1, ArrivalIsCurrent, StepIInv
<1>6. ASSUME NEW c \in Client, Answer(c) PROVE IInv' /\ ApiInv'
  BY <1>6, AnsweringIsCurrent, AnsweringKeepsIInv
<1> QED
  BY <1>2, <1>3, <1>4, <1>5, <1>6 DEF ApiNext

\* For any requests and clients: an answer about a tenant gives a state that the
\* tenant had while the call was open.
\* (handleGetTenant, handleTenantReadiness, handleListTenants)
THEOREM ApiAnswersCurrent == ApiSpec => []AnswersAreCurrent
<1>1. ApiInv => AnswersAreCurrent
  BY DEF ApiInv, CurrentCall, AnswersAreCurrent, NotFound
<1> QED
  BY <1>1, ApiInitially, ApiKeepsInv, PTL DEF ApiSpec

\* For any requests: with calls that overlap, and the host storing each answer into
\* the repository of that moment, no tenant is held twice that the seed did not hold
\* twice, and reads give what was acknowledged last.  (handleUpsertTenant, upsertTenantRecord)
THEOREM ApiKeepsRepository == ApiSpec => [](NoNewDuplicates /\ ReadYourWrites)
<1>1. IInv => NoNewDuplicates /\ ReadYourWrites
  BY DEF IInv, AllRooted, Rooted, NoNewDuplicates
<1> QED
  BY <1>1, ApiInitially, ApiKeepsInv, PTL DEF ApiSpec
=============================================================================
