--------------------------- MODULE DeltaReconciliation ---------------------------
(***************************************************************************)
(* runGraphDeltaReconciliation and the caller that keeps its checkpoint.   *)
(* A run reads the stored checkpoint, fetches page after page (each fetch  *)
(* is an await, so the source may publish and other runs may proceed in    *)
(* between), and returns all the items with the checkpoint to store.  The  *)
(* caller hands the items downstream and then stores the checkpoint; it    *)
(* may crash between any two steps, and a fetch may reject or answer with  *)
(* a body that is no page.                                                 *)
(*                                                                         *)
(* A cursor is opaque to the code.  The model gives it the place in the    *)
(* feed it stands for, and keeps apart the null cursor of a first run, the *)
(* paging cursors, the delta cursors, and the literal "initial" that the   *)
(* code stores as a checkpoint when no page carried a delta cursor - and   *)
(* that the next run sends to the service as if it were a cursor.          *)
(***************************************************************************)
EXTENDS Naturals, FiniteSets

CONSTANTS
  Run,          \* reconciliation runs that may overlap on one connection
  PageSize,     \* changes in a page of the service
  MaxChanges,   \* bound: changes the source publishes
  MaxFailures   \* bound: rejected fetches, malformed pages and caller crashes

ASSUME PageSizeAssumption == PageSize \in Nat \ {0}
ASSUME BoundAssumption == MaxChanges \in Nat /\ MaxFailures \in Nat

VARIABLES
  feed,         \* how many changes the source has published
  run,          \* per run: where it is, and the local variables of the code
  checkpoint,   \* the stored checkpoint's cursorValue, or None
  delivered,    \* the changes handed downstream
  garbled,      \* history: changes of pages that came without an array of items
  failures,     \* what is left of MaxFailures
  overlapped    \* history: two runs were in flight together

vars == <<feed, run, checkpoint, delivered, garbled, failures, overlapped>>

None      == [kind |-> "none", at |-> 0]
Initial   == [kind |-> "initial", at |-> 0]
Paging(p) == [kind |-> "next", at |-> p]
Delta(p)  == [kind |-> "delta", at |-> p]

Idle == [pc |-> "idle", cursor |-> None, delta |-> None, items |-> {}]

Init ==
  /\ feed = 0
  /\ run = [r \in Run |-> Idle]
  /\ checkpoint = None
  /\ delivered = {}
  /\ garbled = {}
  /\ failures = MaxFailures
  /\ overlapped = FALSE

\* The source publishes a change, at any time.
Publish ==
  /\ feed < MaxChanges
  /\ feed' = feed + 1
  /\ UNCHANGED <<run, checkpoint, delivered, garbled, failures, overlapped>>

\* Mutant of Begin: the delta cursor does not start from the checkpoint.
BeginWithoutDelta(r) ==
  /\ run[r].pc = "idle"
  /\ run' = [run EXCEPT ![r] = [Idle EXCEPT !.pc = "paging", !.cursor = checkpoint]]
  /\ overlapped' = (overlapped \/ \E q \in Run : run[q].pc # "idle")
  /\ UNCHANGED <<feed, checkpoint, delivered, garbled, failures>>

\* A run starts from the checkpoint stored when it is called: both the cursor to
\* send and the delta cursor to fall back on.
Begin(r) ==
  /\ run[r].pc = "idle"
  /\ run' = [run EXCEPT ![r] = [pc |-> "paging", cursor |-> checkpoint,
                                delta |-> checkpoint, items |-> {}]]
  /\ overlapped' = (overlapped \/ \E q \in Run : run[q].pc # "idle")
  /\ UNCHANGED <<feed, checkpoint, delivered, garbled, failures>>

\* The end of the page that starts after place p, and the changes on the page that
\* a run asks for.
PageEnd(p) == IF p + PageSize < feed THEN p + PageSize ELSE feed
Page(r)    == (run[r].cursor.at + 1)..PageEnd(run[r].cursor.at)

\* One turn of the loop that pushes the given items.  A page with more to come
\* carries a paging cursor, and the loop goes on.  The last page carries a delta
\* cursor, or none, and the loop ends.
Turn(r, items) ==
  LET q == PageEnd(run[r].cursor.at)
  IN  /\ run[r].pc = "paging"
      /\ run[r].cursor # Initial
      /\ \/ /\ q < feed
            /\ run' = [run EXCEPT ![r] = [pc |-> "paging", cursor |-> Paging(q), delta |-> run[r].delta,
                                          items |-> run[r].items \union items]]
         \/ /\ q = feed
            /\ \E delta \in {Delta(q), run[r].delta} :
                 run' = [run EXCEPT ![r] = [pc |-> "reconciled", cursor |-> None, delta |-> delta,
                                            items |-> run[r].items \union items]]

\* Mutant of FetchDeltaPage: the items of the last page are not pushed.
FetchDropsLastPage(r) ==
  /\ Turn(r, IF PageEnd(run[r].cursor.at) < feed THEN Page(r) ELSE {})
  /\ UNCHANGED <<feed, checkpoint, delivered, garbled, failures, overlapped>>

FetchDeltaPage(r) ==
  /\ Turn(r, Page(r))
  /\ UNCHANGED <<feed, checkpoint, delivered, garbled, failures, overlapped>>

\* A page whose items are not an array is read as an empty one: with its cursors the
\* loop moves past the changes it was to hold, and without any cursor it ends.
FetchMalformedPage(r) ==
  /\ failures > 0 /\ failures' = failures - 1
  /\ \/ /\ Turn(r, {})
        /\ garbled' = garbled \union Page(r)
     \/ /\ run[r].pc = "paging" /\ run[r].cursor # Initial
        /\ run' = [run EXCEPT ![r].pc = "reconciled", ![r].cursor = None]
        /\ UNCHANGED garbled
  /\ UNCHANGED <<feed, checkpoint, delivered, overlapped>>

\* The fetch rejects and so does the run: nothing is returned.  The service does
\* not know the cursor "initial".
FetchRejects(r) ==
  /\ run[r].pc = "paging"
  /\ \/ run[r].cursor = Initial /\ UNCHANGED failures
     \/ failures > 0 /\ failures' = failures - 1
  /\ run' = [run EXCEPT ![r] = Idle]
  /\ UNCHANGED <<feed, checkpoint, delivered, garbled, overlapped>>

\* The caller hands the returned items downstream ...
Deliver(r) ==
  /\ run[r].pc = "reconciled"
  /\ delivered' = delivered \union run[r].items
  /\ run' = [run EXCEPT ![r].pc = "delivered"]
  /\ UNCHANGED <<feed, checkpoint, garbled, failures, overlapped>>

\* ... and stores the returned checkpoint: no comparison with what is stored.
SaveCheckpoint(r) ==
  /\ run[r].pc = "delivered"
  /\ checkpoint' = IF run[r].delta = None THEN Initial ELSE run[r].delta
  /\ run' = [run EXCEPT ![r] = Idle]
  /\ UNCHANGED <<feed, delivered, garbled, failures, overlapped>>

\* The caller dies with what it had not stored; the checkpoint survives.
CallerCrashes(r) ==
  /\ run[r].pc # "idle"
  /\ failures > 0 /\ failures' = failures - 1
  /\ run' = [run EXCEPT ![r] = Idle]
  /\ UNCHANGED <<feed, checkpoint, delivered, garbled, overlapped>>

Next ==
  \/ Publish
  \/ \E r \in Run :
       \/ Begin(r)
       \/ FetchDeltaPage(r)
       \/ FetchMalformedPage(r)
       \/ FetchRejects(r)
       \/ Deliver(r)
       \/ SaveCheckpoint(r)
       \/ CallerCrashes(r)

(***************************************************************************)
(* Fairness: reconciliation is started again whenever a run has ended, the *)
(* service answers, and a caller goes on to the end.  Rejections,          *)
(* malformed pages and crashes are finitely many (MaxFailures), but for    *)
(* the service rejecting "initial", which it does for ever.                *)
(***************************************************************************)
Fairness ==
  \A r \in Run :
    /\ WF_vars(Begin(r))
    /\ WF_vars(FetchDeltaPage(r))
    /\ WF_vars(Deliver(r))
    /\ WF_vars(SaveCheckpoint(r))

Spec == Init /\ [][Next]_vars /\ Fairness

-----------------------------------------------------------------------------

Cursor == [kind : {"none", "initial", "next", "delta"}, at : Nat]

TypeOK ==
  /\ feed \in Nat
  /\ run \in [Run -> [pc : {"idle", "paging", "reconciled", "delivered"},
                      cursor : Cursor, delta : Cursor, items : SUBSET Nat]]
  /\ checkpoint \in Cursor
  /\ delivered \subseteq 1..feed
  /\ garbled \subseteq 1..feed
  /\ failures \in Nat
  /\ overlapped \in BOOLEAN

(***************************************************************************)
(* The checkpoint never runs ahead of what was handed downstream, whatever *)
(* crashes, rejected fetches and overlapping runs: every change at or      *)
(* before it has been delivered, unless the page that was to hold it came  *)
(* once without an array of items.                                         *)
(***************************************************************************)
NoGap == 1..checkpoint.at \subseteq delivered \union garbled

(***************************************************************************)
(* While runs do not overlap, the stored checkpoint never moves back: a    *)
(* run that got no delta cursor keeps the one it started from.  (Runs that *)
(* overlap can move it back, since the last one to finish stores its own.) *)
(***************************************************************************)
Advances ==
  [][~overlapped' => /\ checkpoint'.at >= checkpoint.at
                     /\ checkpoint.kind = "delta" => checkpoint'.kind = "delta"]_vars

(***************************************************************************)
(* Every published change is eventually handed downstream, but for those   *)
(* of malformed pages, provided the checkpoint is never the literal        *)
(* "initial", from which no run recovers.                                  *)
(***************************************************************************)
EveryChangeDelivered ==
  [](checkpoint # Initial) =>
    \A c \in 1..MaxChanges : (feed >= c) ~> (c \in delivered \union garbled)

\* The runs and their callers implement the abstract feed.
Feed == INSTANCE ChangeFeed WITH
          published <- feed, ingested <- delivered, unreadable <- garbled,
          committed <- checkpoint.at

ImplementsChangeFeed == Feed!Spec
=============================================================================
