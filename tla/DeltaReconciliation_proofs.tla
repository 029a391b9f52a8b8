------------------------ MODULE DeltaReconciliation_proofs ------------------------
(***************************************************************************)
(* Proofs about delta reconciliation for any number of overlapping runs,   *)
(* any page size and any bounds.                                           *)
(***************************************************************************)
EXTENDS DeltaReconciliation, TLAPS

USE PageSizeAssumption, BoundAssumption

\* Where a run stands: what it read so far, with what was delivered before it
\* started and what came unreadably, covers the feed up to the cursor it is about to
\* return or to send.
RunCovers(r) ==
  /\ run[r].items \subseteq 1..feed
  /\ run[r].cursor.at <= feed
  /\ run[r].delta.at <= feed
  /\ run[r].pc = "paging" =>
       /\ 1..run[r].cursor.at \subseteq delivered \union garbled \union run[r].items
       /\ 1..run[r].delta.at \subseteq delivered \union garbled \union run[r].items
  /\ run[r].pc = "reconciled" =>
       1..run[r].delta.at \subseteq delivered \union garbled \union run[r].items
  /\ run[r].pc = "delivered" => 1..run[r].delta.at \subseteq delivered \union garbled

(***************************************************************************)
(* NoGap alone is not inductive: what a run will store depends on what it  *)
(* has read, which RunCovers relates to what is delivered.                 *)
(***************************************************************************)
Inv ==
  /\ TypeOK
  /\ checkpoint.at <= feed
  /\ NoGap
  /\ \A r \in Run : RunCovers(r)

LEMMA InvInit == Init => Inv
<1> SUFFICES ASSUME Init PROVE Inv
  OBVIOUS
<1>1. None \in Cursor /\ None.at = 0
  BY DEF None, Cursor
<1>2. \A r \in Run : /\ run[r].items = {} /\ run[r].pc = "idle"
                     /\ run[r].cursor = None /\ run[r].delta = None
  BY DEF Init, Idle
<1>3. TypeOK
  BY <1>1 DEF Init, TypeOK, Idle
<1>4. 1..0 = {}
  OBVIOUS
<1>5. NoGap /\ checkpoint.at <= feed
  BY <1>1, <1>4 DEF Init, NoGap
<1>6. \A r \in Run : RunCovers(r)
  BY <1>1, <1>2 DEF Init, RunCovers
<1>7. QED
  BY <1>3, <1>5, <1>6 DEF Inv

\* A page ends where it starts or later, and not after the feed.
LEMMA PageBounds ==
  ASSUME TypeOK, NEW r \in Run, run[r].cursor.at <= feed
  PROVE  LET q == PageEnd(run[r].cursor.at)
         IN  /\ q \in Nat /\ q <= feed /\ run[r].cursor.at <= q
             /\ Page(r) = (run[r].cursor.at + 1)..q
             /\ Page(r) \subseteq 1..feed
  BY DEF TypeOK, Cursor, PageEnd, Page

\* A turn of the loop keeps the invariant if every change of the page is pushed, or
\* known to have come unreadably.
LEMMA TurnKeepsInv ==
  ASSUME Inv, NEW r \in Run, NEW items \in SUBSET Page(r), Turn(r, items),
         garbled' \in SUBSET (1..feed), garbled \subseteq garbled', Page(r) \subseteq garbled' \union items,
         failures' \in Nat, UNCHANGED <<feed, checkpoint, delivered, overlapped>>
  PROVE  Inv'
<1> USE DEF Inv, TypeOK, NoGap, RunCovers, Cursor
<1> DEFINE p == run[r].cursor.at
           q == PageEnd(p)
           read == run[r].items \union items
<1>1. /\ p \in Nat /\ q \in Nat /\ p <= q /\ q <= feed
      /\ Page(r) = (p + 1)..q /\ Page(r) \subseteq 1..feed
  BY PageBounds
<1>2. read \subseteq 1..feed /\ read \in SUBSET Nat
  BY <1>1
<1>3. run[r].pc = "paging"
  BY DEF Turn
<1>4. 1..q \subseteq delivered \union garbled' \union read
  <2>1. 1..q \subseteq 1..p \union Page(r)
    BY <1>1
  <2>2. 1..p \subseteq delivered \union garbled \union run[r].items
    BY <1>3
  <2> QED
    BY <2>1, <2>2
<1>5. 1..run[r].delta.at \subseteq delivered \union garbled' \union read
  BY <1>3
<1>6. ASSUME NEW s \in Run, run'[s] = run[s] PROVE RunCovers(s)'
  <2>1. RunCovers(s)
    OBVIOUS
  <2> QED
    BY <1>6, <2>1
<1>7. CASE run' = [run EXCEPT ![r] = [pc |-> "paging", cursor |-> Paging(q), delta |-> run[r].delta,
                                      items |-> read]]
  <2>1. run'[r].pc = "paging" /\ run'[r].cursor = Paging(q)
        /\ run'[r].delta = run[r].delta /\ run'[r].items = read
    BY <1>7
  <2>2. RunCovers(r)'
    BY <1>1, <1>2, <1>4, <1>5, <2>1 DEF Paging
  <2>3. \A s \in Run \ {r} : run'[s] = run[s]
    BY <1>7
  <2>4. TypeOK'
    BY <1>1, <1>2, <1>7 DEF Paging
  <2> QED
    BY <1>6, <2>2, <2>3, <2>4
<1>8. ASSUME NEW delta \in {Delta(q), run[r].delta},
             run' = [run EXCEPT ![r] = [pc |-> "reconciled", cursor |-> None, delta |-> delta,
                                        items |-> read]]
      PROVE  Inv'
  <2>1. delta \in Cursor /\ delta.at <= feed /\ 1..delta.at \subseteq delivered \union garbled' \union read
    BY <1>1, <1>4, <1>5 DEF Delta
  <2>2. RunCovers(r)'
    BY <1>2, <1>8, <2>1 DEF None
  <2>3. \A s \in Run \ {r} : run'[s] = run[s]
    BY <1>8
  <2>4. TypeOK'
    BY <1>2, <1>8, <2>1 DEF None
  <2> QED
    BY <1>6, <2>2, <2>3, <2>4
<1> QED
  BY <1>7, <1>8 DEF Turn

LEMMA PagesKeepInv ==
  ASSUME Inv, NEW r \in Run, FetchDeltaPage(r) \/ FetchMalformedPage(r)
  PROVE  Inv'
<1>1. /\ Page(r) \subseteq 1..feed
      /\ garbled \subseteq 1..feed /\ failures \in Nat
  BY PageBounds DEF Inv, RunCovers, TypeOK
<1>2. CASE FetchDeltaPage(r)
  BY <1>1, <1>2, TurnKeepsInv DEF FetchDeltaPage
<1>3. ASSUME FetchMalformedPage(r), Turn(r, {}), garbled' = garbled \union Page(r)
      PROVE  Inv'
  <2>1. failures' \in Nat /\ UNCHANGED <<feed, checkpoint, delivered, overlapped>>
    BY <1>1, <1>3 DEF FetchMalformedPage
  <2>2. garbled' \in SUBSET (1..feed) /\ garbled \subseteq garbled' /\ Page(r) \subseteq garbled' \union {}
    BY <1>1, <1>3
  <2>3. {} \in SUBSET Page(r)
    OBVIOUS
  <2> QED
    BY <1>3, <2>1, <2>2, <2>3, TurnKeepsInv
<1>4. CASE /\ FetchMalformedPage(r)
           /\ run[r].pc = "paging"
           /\ run' = [run EXCEPT ![r].pc = "reconciled", ![r].cursor = None]
           /\ UNCHANGED garbled
  <2>1. failures' \in Nat /\ UNCHANGED <<feed, checkpoint, delivered, garbled, overlapped>>
    BY <1>1, <1>4 DEF FetchMalformedPage
  <2>2. /\ run'[r].pc = "reconciled" /\ run'[r].cursor = None
        /\ run'[r].delta = run[r].delta /\ run'[r].items = run[r].items
        /\ \A s \in Run \ {r} : run'[s] = run[s]
    BY <1>4 DEF Inv, TypeOK
  <2>3. RunCovers(r)'
    <3>1. RunCovers(r) /\ feed \in Nat
      BY DEF Inv, TypeOK
    <3>2. None.at = 0
      BY DEF None
    <3>3. /\ run[r].items \subseteq 1..feed /\ run[r].delta.at <= feed
          /\ 1..run[r].delta.at \subseteq delivered \union garbled \union run[r].items
      BY <1>4, <3>1 DEF RunCovers
    <3>4. feed' = feed /\ delivered' = delivered /\ garbled' = garbled
      BY <2>1
    <3> QED
      BY <2>2, <3>1, <3>2, <3>3, <3>4 DEF RunCovers
  <2>4. \A s \in Run \ {r} : RunCovers(s)'
    BY <2>1, <2>2 DEF Inv, RunCovers
  <2>5. TypeOK'
    <3>1. None \in Cursor
      BY DEF None, Cursor
    <3>2. run' \in [Run -> [pc : {"idle", "paging", "reconciled", "delivered"},
                            cursor : Cursor, delta : Cursor, items : SUBSET Nat]]
      BY <1>4, <3>1 DEF Inv, TypeOK
    <3> QED
      BY <2>1, <3>2 DEF Inv, TypeOK
  <2> QED
    BY <2>1, <2>3, <2>4, <2>5 DEF Inv, NoGap
<1> QED
  BY <1>2, <1>3, <1>4 DEF FetchMalformedPage

LEMMA InvStep == Inv /\ [Next]_vars => Inv'
<1> SUFFICES ASSUME Inv, [Next]_vars PROVE Inv'
  OBVIOUS
<1> USE DEF Inv, TypeOK, NoGap, RunCovers, Cursor
<1>1. CASE Publish
  BY <1>1 DEF Publish
<1>2. ASSUME NEW r \in Run, Begin(r) PROVE Inv'
  BY <1>2 DEF Begin
<1>3. ASSUME NEW r \in Run, FetchDeltaPage(r) PROVE Inv'
  BY <1>3, PagesKeepInv
<1>10. ASSUME NEW r \in Run, FetchMalformedPage(r) PROVE Inv'
  BY <1>10, PagesKeepInv
<1>4. ASSUME NEW r \in Run, FetchRejects(r) PROVE Inv'
  BY <1>4 DEF FetchRejects, Idle, None
<1>5. ASSUME NEW r \in Run, Deliver(r) PROVE Inv'
  BY <1>5 DEF Deliver
<1>6. ASSUME NEW r \in Run, SaveCheckpoint(r) PROVE Inv'
  BY <1>6 DEF SaveCheckpoint, Idle, None, Initial
<1>7. ASSUME NEW r \in Run, CallerCrashes(r) PROVE Inv'
  BY <1>7 DEF CallerCrashes, Idle, None
<1>8. CASE UNCHANGED vars
  BY <1>8 DEF vars
<1>9. QED
  BY <1>1, <1>2, <1>3, <1>4, <1>5, <1>6, <1>7, <1>8, <1>10 DEF Next

LEMMA InvAlways == Spec => []Inv
  BY InvInit, InvStep, PTL DEF Spec

\* The stored cursors, the runs' local variables and what was delivered are well
\* formed in every reachable state.
THEOREM TypeCorrect == Spec => []TypeOK
<1>1. Inv => TypeOK
  BY DEF Inv
<1>2. QED
  BY InvAlways, <1>1, PTL

(***************************************************************************)
(* The stored checkpoint never covers a change that was not delivered, but *)
(* for those of malformed pages, whatever crashes, rejections and          *)
(* overlapping runs do.                                                    *)
(***************************************************************************)
THEOREM CheckpointSafe == Spec => []NoGap
<1>1. Inv => NoGap
  BY DEF Inv
<1>2. QED
  BY InvAlways, <1>1, PTL

\* A step of a run or of its caller is a step of the abstract feed, or none.
LEMMA StepImplementsFeed == Inv /\ [Next]_vars => [Feed!Next]_(Feed!feedVars)
<1> SUFFICES ASSUME Inv, [Next]_vars PROVE [Feed!Next]_(Feed!feedVars)
  OBVIOUS
<1> USE DEF Inv, TypeOK, NoGap, RunCovers, Cursor, Feed!Next, Feed!feedVars
<1>1. CASE Publish
  BY <1>1 DEF Publish, Feed!Publish
<1>2. ASSUME NEW r \in Run, Begin(r) PROVE UNCHANGED Feed!feedVars
  BY <1>2 DEF Begin
<1>3. ASSUME NEW r \in Run, FetchDeltaPage(r) PROVE UNCHANGED Feed!feedVars
  BY <1>3 DEF FetchDeltaPage
<1>10. ASSUME NEW r \in Run, FetchMalformedPage(r) PROVE Feed!Garble \/ UNCHANGED Feed!feedVars
  BY <1>10, PageBounds DEF FetchMalformedPage, Feed!Garble
<1>4. ASSUME NEW r \in Run, FetchRejects(r) PROVE UNCHANGED Feed!feedVars
  BY <1>4 DEF FetchRejects
<1>5. ASSUME NEW r \in Run, Deliver(r) PROVE Feed!Ingest
  BY <1>5 DEF Deliver, Feed!Ingest
<1>6. ASSUME NEW r \in Run, SaveCheckpoint(r) PROVE Feed!Commit
  BY <1>6 DEF SaveCheckpoint, Feed!Commit, None, Initial
<1>7. ASSUME NEW r \in Run, CallerCrashes(r) PROVE UNCHANGED Feed!feedVars
  BY <1>7 DEF CallerCrashes
<1>8. CASE UNCHANGED vars
  BY <1>8 DEF vars
<1>9. QED
  BY <1>1, <1>2, <1>3, <1>4, <1>5, <1>6, <1>7, <1>8, <1>10 DEF Next

(***************************************************************************)
(* Reconciliation implements the abstract change feed: at-least-once       *)
(* delivery with a committed position that is always safe to resume from.  *)
(***************************************************************************)
THEOREM Refinement == Spec => ImplementsChangeFeed
<1>1. Init => Feed!Init
  BY DEF Init, Feed!Init, None
<1>2. QED
  BY InvAlways, StepImplementsFeed, <1>1, PTL DEF Spec, ImplementsChangeFeed, Feed!Spec
=============================================================================
