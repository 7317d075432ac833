------------------------ MODULE IndexLifecycleProofs ------------------------
(***************************************************************************)
(* Proofs about IndexLifecycle, for any number of sessions, entities,      *)
(* revisions and faults: the types of its state, and the revisions of the  *)
(* job, which never go back.                                               *)
(***************************************************************************)
EXTENDS IndexLifecycle, TLAPS, WellFoundedInduction

-----------------------------------------------------------------------------
(* Least and greatest numbers.                                             *)

\* A set of naturals has a least element.
LEMMA LeastNatural ==
    ASSUME NEW S, S \subseteq Nat, S # {}
    PROVE  \E m \in S : \A n \in S : m <= n
  <1> DEFINE R == OpToRel(<, Nat)
  <1>1. \E m \in S : \A n \in S : <<n, m>> \notin R
    <2>1. IsWellFoundedOn(R, Nat)
      BY NatLessThanWellFounded
    <2> HIDE DEF R
    <2>2. QED
      BY <2>1, WFMin
  <1>2. \A m \in S, n \in S : <<n, m>> \in R <=> n < m
    BY DEF OpToRel
  <1> HIDE DEF R
  <1>3. PICK m \in S : \A n \in S : <<n, m>> \notin R
    BY <1>1
  <1>4. \A n \in S : ~(n < m)
    BY <1>2, <1>3
  <1>5. \A n \in S : m <= n
    BY <1>4
  <1>6. QED
    BY <1>5

\* A set of naturals with an upper bound has a greatest element: the least
\* of its bounds.
LEMMA GreatestNatural ==
    ASSUME NEW S, S \subseteq Nat, S # {},
           NEW b \in Nat, \A n \in S : n <= b
    PROVE  \E m \in S : \A n \in S : n <= m
  <1> DEFINE Bounds == {u \in Nat : \A n \in S : n <= u}
  <1>1. PICK m \in Bounds : \A u \in Bounds : m <= u
    BY LeastNatural
  <1>2. CASE m \in S
    BY <1>2
  <1>3. CASE m \notin S
    <2>1. \A n \in S : n <= m - 1
      BY <1>3
    <2>2. PICK n \in S : TRUE
      OBVIOUS
    <2>3. m - 1 \in Bounds
      BY <2>1, <2>2
    <2>4. m \in Nat /\ ~(m <= m - 1)
      OBVIOUS
    <2>5. QED
      BY <1>1, <2>3, <2>4
  <1>4. QED
    BY <1>2, <1>3

LEMMA MinIsLeast ==
    ASSUME NEW S, S \subseteq Nat, S # {}
    PROVE  Min(S) \in S
  BY LeastNatural DEF Min

-----------------------------------------------------------------------------
(* The newest state of a set of states of the job.                         *)

NewestOf(R) == CHOOSE r \in R : \A s \in R : NotBefore(r, s)

BoundedRevisions(R) == \E b \in Nat : \A r \in R : r.rev <= b

\* Revision, then checkpoint, then completion decide: there is a newest.
LEMMA NewestExists ==
    ASSUME NEW R, R \subseteq JobState, R # {}, BoundedRevisions(R)
    PROVE  NewestOf(R) \in R /\ \A s \in R : NotBefore(NewestOf(R), s)
  <1> DEFINE Revs == {r.rev : r \in R}
  <1>1. PICK v \in Revs : \A n \in Revs : n <= v
    <2>1. PICK b \in Nat : \A r \in R : r.rev <= b
      BY DEF BoundedRevisions
    <2>2. Revs \subseteq Nat /\ Revs # {} /\ \A n \in Revs : n <= b
      BY <2>1 DEF JobState
    <2> HIDE DEF Revs
    <2>3. QED
      BY <2>2, GreatestNatural
  <1> DEFINE Ckpts == {r.ckpt : r \in {s \in R : s.rev = v}}
  <1>2. PICK c \in Ckpts : \A n \in Ckpts : n <= c
    <2>1. Ckpts \subseteq Nat /\ Ckpts # {} /\ \A n \in Ckpts : n <= LastVertex
      BY <1>1, EntityAssumption DEF JobState
    <2> HIDE DEF Ckpts
    <2>2. QED
      BY <2>1, GreatestNatural, EntityAssumption
  <1> DEFINE Last == {r \in R : r.rev = v /\ r.ckpt = c}
  <1>3. Last # {}
    BY <1>1, <1>2
  <1>4. PICK r \in Last : r.done \/ \A s \in Last : ~s.done
    BY <1>3
  <1>5. \A s \in R : NotBefore(r, s)
    <2> TAKE s \in R
    <2>1. r \in JobState /\ s \in JobState /\ s.rev <= v /\ r.rev = v /\ r.ckpt = c
      BY <1>1, <1>4
    <2>2. CASE s.rev < v
      BY <2>1, <2>2 DEF NotBefore, JobState
    <2>3. CASE s.rev = v
      <3>1. s.ckpt <= c
        BY <1>2, <2>3
      <3>2. CASE s.ckpt < c
        BY <2>1, <2>3, <3>2 DEF NotBefore, JobState
      <3>3. CASE s.ckpt = c
        BY <1>4, <2>1, <2>3, <3>3 DEF NotBefore, JobState
      <3>4. QED
        BY <2>1, <3>1, <3>2, <3>3, EntityAssumption DEF JobState
    <2>4. QED
      BY <2>1, <2>2, <2>3 DEF JobState
  <1>6. QED
    BY <1>5 DEF NewestOf

\* When every state has a successor or stays, the newest revision grows.
LEMMA NewestGrows ==
    ASSUME NEW R, R \subseteq JobState, R # {}, BoundedRevisions(R),
           NEW Q, Q \subseteq JobState, BoundedRevisions(Q),
           \A r \in R : \E q \in Q : q.rev >= r.rev
    PROVE  NewestOf(Q).rev >= NewestOf(R).rev
  <1> DEFINE r == NewestOf(R)
             n == NewestOf(Q)
  <1>1. r \in R
    BY NewestExists
  <1>2. PICK q \in Q : q.rev >= r.rev
    BY <1>1
  <1>3. n \in Q /\ NotBefore(n, q)
    BY <1>2, NewestExists
  <1> HIDE DEF r, n
  <1>4. r.rev \in Nat /\ n.rev \in Nat /\ q.rev \in Nat
    BY <1>1, <1>2, <1>3 DEF JobState
  <1>5. n.rev >= q.rev
    BY <1>3, <1>4 DEF NotBefore
  <1>6. n.rev >= r.rev
    BY <1>2, <1>4, <1>5
  <1>7. QED
    BY <1>6 DEF r, n

-----------------------------------------------------------------------------
(* Type correctness.  That the newest state of the job is one of the       *)
(* states on record needs a bound of their revisions.                      *)

ProcState == [pc : Label, op : Procedures, job : JobState,
              next : 0 .. LastVertex, rows : SUBSET Rows, seen : Nat]

IInv == TypeOK /\ BoundedRevisions(recs)

LEMMA Constants == /\ 0 \in 0 .. LastVertex /\ NoJob \in JobState
                   /\ Idle \in ProcState
  BY EntityAssumption
     DEF NoJob, Idle, JobState, ProcState, Label, Procedures, Rows

LEMMA NewestType == ASSUME IInv PROVE Newest \in JobState
  <1>1. CASE recs = {}
    BY <1>1, Constants DEF Newest
  <1>2. CASE recs # {}
    BY <1>2, NewestExists DEF Newest, NewestOf, IInv, TypeOK
  <1>3. QED
    BY <1>1, <1>2

LEMMA RowsOfType == \A E \in SUBSET Entity : RowsOf(E) \subseteq Rows
  <1>1. \A e : Values(e) # {} => Loaded(e) \in Value
    BY MinIsLeast, EntityAssumption DEF Values, Loaded
  <1>2. QED
    BY <1>1 DEF RowsOf, Rows

LEMMA ScannedType == ASSUME TypeOK PROVE Scanned \subseteq Vertex
  BY EntityAssumption DEF TypeOK, Scanned

\* The step of a process that stays well typed.
LEMMA GoType ==
    ASSUME TypeOK, NEW p \in Process, NEW r \in ProcState, Go(p, r)
    PROVE  proc' \in [Process -> ProcState]
  BY DEF TypeOK, Go, ProcState

LEMMA SpendType ==
    ASSUME TypeOK, NEW k \in Bounded, NEW m, Spend(k, m)
    PROVE  used' \in [Bounded -> Nat]
  BY DEF TypeOK, Spend

\* Adding a state of the job leaves the states and the bound as they are.
LEMMA RecsType ==
    ASSUME IInv, NEW r \in JobState, recs' \subseteq recs \cup {r}
    PROVE  recs' \subseteq JobState /\ BoundedRevisions(recs')
  <1>1. recs' \subseteq JobState
    BY DEF IInv, TypeOK
  <1>2. PICK b \in Nat : \A s \in recs : s.rev <= b
    BY DEF IInv, BoundedRevisions
  <1>3. \A s \in recs : s.rev \in Nat
    BY DEF IInv, TypeOK, JobState
  <1>4. b + r.rev \in Nat /\ r.rev <= b + r.rev /\ b <= b + r.rev
    BY DEF JobState
  <1>5. \A s \in recs' : s.rev <= b + r.rev
    BY <1>2, <1>3, <1>4 DEF JobState
  <1>6. QED
    BY <1>1, <1>4, <1>5 DEF BoundedRevisions

LEMMA PutType ==
    ASSUME TypeOK, NEW R \in SUBSET Rows,
           PutPropertyIndex(R) \/ DeletePropertyIndex(R)
    PROVE  stored' \subseteq Rows /\ rows' \subseteq Rows
  BY DEF TypeOK, PutPropertyIndex, DeletePropertyIndex

LEMMA EnqueueType ==
    ASSUME IInv, NEW s \in Session, Enqueue(s)
    PROVE  IInv'
  <1> USE DEF IInv
  <1>1. TypeOK /\ s \in Process /\ proc[s] \in ProcState
    BY DEF TypeOK, ProcState, Process
  <1>2. CASE CreatePropertyIndexAsync(s) \/ RestartPropertyBuild(s)
    <2>1. \A o \in Procedures :
             [Idle EXCEPT !.pc = "revision", !.op = o] \in ProcState
      BY Constants DEF ProcState, Idle, Label
    <2>2. proc' \in [Process -> ProcState]
      BY <1>1, <1>2, <2>1, GoType
         DEF CreatePropertyIndexAsync, RestartPropertyBuild, Procedures
    <2>3. used' \in [Bounded -> Nat]
      BY <1>1, <1>2, SpendType
         DEF CreatePropertyIndexAsync, RestartPropertyBuild, Bounded
    <2>4. QED
      BY <1>2, <2>2, <2>3
         DEF CreatePropertyIndexAsync, RestartPropertyBuild, TypeOK, ProcState,
             BoundedRevisions
  <1>3. CASE ReadRevision(s) \/ RevisionUnread(s)
    <2>1. \A n \in Nat : [proc[s] EXCEPT !.pc = "put",
             !.job = [rev |-> n, ckpt |-> 0, done |-> FALSE]] \in ProcState
      BY <1>1, Constants DEF ProcState, JobState, Label
    <2>2. Newest.rev + 1 \in Nat /\ 1 \in Nat
      BY NewestType DEF JobState
    <2>3. proc' \in [Process -> ProcState]
      BY <1>1, <1>3, <2>1, <2>2, GoType DEF ReadRevision, RevisionUnread
    <2>4. used' \in [Bounded -> Nat]
      BY <1>1, <1>3, SpendType DEF ReadRevision, RevisionUnread, Bounded, TypeOK
    <2>5. QED
      BY <1>3, <2>3, <2>4
         DEF ReadRevision, RevisionUnread, TypeOK, ProcState, BoundedRevisions
  <1>4. CASE PutJob(s)
    <2>1. recs' \subseteq JobState /\ BoundedRevisions(recs')
      BY <1>1, <1>4, RecsType DEF PutJob, ProcState
    <2>2. proc' \in [Process -> ProcState]
      BY <1>1, <1>4, Constants, GoType DEF PutJob
    <2>3. QED
      BY <1>4, <2>1, <2>2 DEF PutJob, TypeOK, ProcState
  <1>5. CASE PutJobFails(s)
    <2>1. proc' \in [Process -> ProcState]
      BY <1>1, <1>5, Constants, GoType DEF PutJobFails
    <2>2. used' \in [Bounded -> Nat]
      BY <1>1, <1>5, SpendType DEF PutJobFails, Bounded
    <2>3. QED
      BY <1>5, <2>1, <2>2 DEF PutJobFails, TypeOK, ProcState, BoundedRevisions
  <1>6. QED
    BY <1>2, <1>3, <1>4, <1>5 DEF Enqueue

LEMMA DequeueType ==
    ASSUME IInv, NEW p \in Process, DequeueJob(p)
    PROVE  recs' \subseteq JobState /\ BoundedRevisions(recs')
  <1> DEFINE r == [rev |-> proc[p].job.rev + 1, ckpt |-> proc[p].job.ckpt,
                   done |-> TRUE]
  <1>1. r \in JobState
    <2>1. proc[p].job \in JobState
      BY DEF IInv, TypeOK
    <2>2. QED
      BY <2>1 DEF JobState
  <1>2. recs' \subseteq recs \cup {r}
    BY DEF DequeueJob
  <1> HIDE DEF r
  <1>3. QED
    BY <1>1, <1>2, RecsType

LEMMA DropType ==
    ASSUME IInv, NEW s \in Session, Drop(s)
    PROVE  IInv'
  <1> USE DEF IInv
  <1>1. TypeOK /\ s \in Process /\ proc[s] \in ProcState
    BY DEF TypeOK, ProcState, Process
  <1>2. \A l \in Label : [proc[s] EXCEPT !.pc = l] \in ProcState
    BY <1>1 DEF ProcState
  <1>3. CASE DropPropertyIndex(s)
    <2>1. [Idle EXCEPT !.pc = "collect", !.op = "drop"] \in ProcState
      BY Constants DEF ProcState, Idle, Label, Procedures
    <2>2. proc' \in [Process -> ProcState]
      BY <1>1, <1>3, <2>1, GoType DEF DropPropertyIndex
    <2>3. used' \in [Bounded -> Nat]
      BY <1>1, <1>3, SpendType DEF DropPropertyIndex, Bounded
    <2>4. QED
      BY <1>3, <2>2, <2>3 DEF DropPropertyIndex, TypeOK, ProcState, BoundedRevisions
  <1>4. CASE CollectEntries(s)
    <2>1. [proc[s] EXCEPT !.rows = rows,
              !.pc = IF rows = {} THEN "complete" ELSE "delete"] \in ProcState
      BY <1>1 DEF ProcState, TypeOK, Label
    <2>2. proc' \in [Process -> ProcState]
      BY <1>1, <1>4, <2>1, GoType DEF CollectEntries
    <2>3. QED
      BY <1>4, <2>2 DEF CollectEntries, TypeOK, ProcState, BoundedRevisions
  <1>5. CASE DeleteEntries(s)
    <2>1. proc' \in [Process -> ProcState]
      BY <1>1, <1>2, <1>5, GoType DEF DeleteEntries, GoTo, Label
    <2>2. stored' \subseteq Rows /\ rows' \subseteq Rows
      <3>1. CASE Cardinality(proc[s].rows) <= BatchLimit
        BY <1>1, <1>5, <3>1, PutType DEF DeleteEntries, ProcState
      <3>2. CASE ~(Cardinality(proc[s].rows) <= BatchLimit)
        BY <1>1, <1>5, <3>2 DEF DeleteEntries, TypeOK
      <3>3. QED
        BY <3>1, <3>2
    <2>3. QED
      BY <1>5, <2>1, <2>2 DEF DeleteEntries, TypeOK, ProcState, BoundedRevisions
  <1>6. CASE DeleteOneEntry(s)
    <2>1. PICK r \in proc[s].rows :
            /\ DeletePropertyIndex({r})
            /\ Go(s, [proc[s] EXCEPT !.rows = @ \ {r},
                      !.pc = IF proc[s].rows = {r} THEN "complete" ELSE @])
      BY <1>6 DEF DeleteOneEntry
    <2>2. stored' \subseteq Rows /\ rows' \subseteq Rows
      BY <1>1, <2>1, PutType DEF ProcState
    <2>3. [proc[s] EXCEPT !.rows = @ \ {r},
              !.pc = IF proc[s].rows = {r} THEN "complete" ELSE @] \in ProcState
      BY <1>1 DEF ProcState, Label
    <2>4. proc' \in [Process -> ProcState]
      BY <1>1, <2>1, <2>3, GoType
    <2>5. QED
      BY <1>6, <2>2, <2>4 DEF DeleteOneEntry, TypeOK, ProcState, BoundedRevisions
  <1>7. CASE CompleteJobs(s)
    <2>1. [proc[s] EXCEPT !.job = Newest,
              !.pc = IF Pending THEN "dequeue" ELSE "uncatalog"] \in ProcState
      BY <1>1, NewestType DEF ProcState, Label
    <2>2. proc' \in [Process -> ProcState]
      BY <1>1, <1>7, <2>1, GoType DEF CompleteJobs
    <2>3. QED
      BY <1>7, <2>2 DEF CompleteJobs, TypeOK, ProcState, BoundedRevisions
  <1>8. CASE DequeueDropped(s)
    <2>1. recs' \subseteq JobState /\ BoundedRevisions(recs')
      BY <1>1, <1>8, DequeueType DEF DequeueDropped
    <2>2. proc' \in [Process -> ProcState]
      BY <1>1, <1>2, <1>8, GoType DEF DequeueDropped, GoTo, Label
    <2>3. QED
      BY <1>8, <2>1, <2>2 DEF DequeueDropped, TypeOK, ProcState
  <1>9. CASE RemovePropertyIndex(s)
    <2>1. proc' \in [Process -> ProcState]
      BY <1>1, <1>9, Constants, GoType DEF RemovePropertyIndex
    <2>2. QED
      BY <1>9, <2>1 DEF RemovePropertyIndex, TypeOK, ProcState, BoundedRevisions
  <1>10. QED
    BY <1>3, <1>4, <1>5, <1>6, <1>7, <1>8, <1>9 DEF Drop

LEMMA BuildType ==
    ASSUME IInv, NEW p \in Process, Build(p)
    PROVE  IInv'
  <1> USE DEF IInv
  <1>1. TypeOK /\ proc[p] \in ProcState
    BY DEF TypeOK, ProcState
  <1>2. \A l \in Label : [proc[p] EXCEPT !.pc = l] \in ProcState
    BY <1>1 DEF ProcState
  <1>3. CASE ProcessPendingJobs(p)
    <2>1. [Idle EXCEPT !.pc = "add", !.job = Newest] \in ProcState
      BY Constants, NewestType DEF ProcState, Idle, Label
    <2>2. proc' \in [Process -> ProcState]
      BY <1>1, <1>3, <2>1, GoType DEF ProcessPendingJobs
    <2>3. QED
      BY <1>3, <2>2 DEF ProcessPendingJobs, TypeOK, ProcState, BoundedRevisions
  <1>4. CASE AddPropertyIndex(p)
    <2>1. proc' \in [Process -> ProcState]
      BY <1>1, <1>2, <1>4, GoType DEF AddPropertyIndex, GoTo, Label
    <2>2. QED
      BY <1>4, <2>1 DEF AddPropertyIndex, TypeOK, ProcState, BoundedRevisions
  <1>5. CASE NextVertex(p)
    <2>1. Ahead(p) # {} => Min(Ahead(p)) \in 0 .. LastVertex
      <3>1. Ahead(p) \subseteq Vertex
        BY <1>1, ScannedType DEF Ahead
      <3>2. Vertex \subseteq Nat /\ Vertex \subseteq 0 .. LastVertex
        BY EntityAssumption DEF Vertex
      <3>3. QED
        BY <3>1, <3>2, MinIsLeast
    <2>2. proc' \in [Process -> ProcState]
      <3>1. CASE Ahead(p) = {}
        BY <1>1, <1>2, <1>5, <3>1, GoType DEF NextVertex, Label
      <3>2. CASE Ahead(p) # {}
        <4>1. [proc[p] EXCEPT !.pc = "read", !.next = Min(Ahead(p))] \in ProcState
          BY <1>1, <2>1, <3>2 DEF ProcState, Label
        <4>2. QED
          BY <1>1, <1>5, <3>2, <4>1, GoType DEF NextVertex
      <3>3. QED
        BY <3>1, <3>2
    <2>3. QED
      BY <1>5, <2>2 DEF NextVertex, TypeOK, ProcState, BoundedRevisions
  <1>6. CASE ReadVertex(p)
    <2>1. [proc[p] EXCEPT !.pc = "write", !.rows = RowsAt(proc[p].next)] \in ProcState
      BY <1>1, RowsOfType DEF ProcState, Label, RowsAt
    <2>2. proc' \in [Process -> ProcState]
      BY <1>1, <1>6, <2>1, GoType DEF ReadVertex
    <2>3. QED
      BY <1>6, <2>2 DEF ReadVertex, TypeOK, ProcState, BoundedRevisions
  <1>7. CASE WriteRows(p)
    <2>1. CASE Cardinality(proc[p].rows) <= BatchLimit
      <3>1. PutPropertyIndex(proc[p].rows) /\ GoTo(p, "save")
        BY <1>7, <2>1 DEF WriteRows
      <3>2. stored' \subseteq Rows /\ rows' \subseteq Rows
        BY <1>1, <3>1, PutType DEF ProcState
      <3>3. proc' \in [Process -> ProcState]
        BY <1>1, <1>2, <3>1, GoType DEF GoTo, Label
      <3>4. QED
        BY <1>7, <3>2, <3>3 DEF WriteRows, TypeOK, ProcState, BoundedRevisions
    <2>2. CASE ~(Cardinality(proc[p].rows) <= BatchLimit)
      <3> DEFINE again == RowsAt(proc[p].next)
      <3>1. /\ Go(p, [proc[p] EXCEPT !.rows = again,
                      !.pc = IF again = {} THEN "save" ELSE "write_one"])
            /\ UNCHANGED <<rows, stored>>
        BY <1>7, <2>2 DEF WriteRows
      <3>2. again \in SUBSET Rows
        BY RowsOfType DEF RowsAt
      <3> HIDE DEF again
      <3>3. [proc[p] EXCEPT !.rows = again,
                !.pc = IF again = {} THEN "save" ELSE "write_one"] \in ProcState
        BY <1>1, <3>2 DEF ProcState, Label
      <3>4. proc' \in [Process -> ProcState]
        BY <1>1, <3>1, <3>3, GoType
      <3>5. QED
        BY <1>7, <3>1, <3>4 DEF WriteRows, TypeOK, ProcState, BoundedRevisions
    <2>3. QED
      BY <2>1, <2>2
  <1>8. CASE WriteOneRow(p)
    <2>1. PICK r \in proc[p].rows :
            /\ PutPropertyIndex({r})
            /\ Go(p, [proc[p] EXCEPT !.rows = @ \ {r},
                      !.pc = IF proc[p].rows = {r} THEN "save" ELSE @])
      BY <1>8 DEF WriteOneRow
    <2>2. stored' \subseteq Rows /\ rows' \subseteq Rows
      BY <1>1, <2>1, PutType DEF ProcState
    <2>3. [proc[p] EXCEPT !.rows = @ \ {r},
              !.pc = IF proc[p].rows = {r} THEN "save" ELSE @] \in ProcState
      BY <1>1 DEF ProcState, Label
    <2>4. proc' \in [Process -> ProcState]
      BY <1>1, <2>1, <2>3, GoType
    <2>5. QED
      BY <1>8, <2>2, <2>4 DEF WriteOneRow, TypeOK, ProcState, BoundedRevisions
  <1>9. CASE ReplaceJobState(p)
    <2>1. NextState(p) \in JobState
      BY <1>1 DEF NextState, ProcState, JobState
    <2>2. recs' \subseteq JobState /\ BoundedRevisions(recs')
      <3>1. recs' \subseteq recs \cup {NextState(p)}
        BY <1>9 DEF ReplaceJobState
      <3>2. QED
        BY <2>1, <3>1, RecsType
    <2>3. [Idle EXCEPT !.pc = "scan", !.job = NextState(p),
                       !.seen = proc[p].seen + 1] \in ProcState
      <3>1. proc[p].seen + 1 \in Nat
        BY <1>1 DEF ProcState
      <3>2. \A n \in Nat, j \in JobState :
              [Idle EXCEPT !.pc = "scan", !.job = j, !.seen = n] \in ProcState
        BY Constants DEF ProcState, Idle, Label
      <3>3. QED
        BY <2>1, <3>1, <3>2
    <2>4. proc' \in [Process -> ProcState]
      BY <1>9, <1>1, <2>3, Constants, GoType DEF ReplaceJobState
    <2>5. QED
      BY <1>9, <2>2, <2>4 DEF ReplaceJobState, TypeOK, ProcState
  <1>10. CASE FinishJob(p)
    <2>1. recs' \subseteq JobState /\ BoundedRevisions(recs')
      BY <1>10, DequeueType DEF FinishJob
    <2>2. proc' \in [Process -> ProcState]
      BY <1>1, <1>10, Constants, GoType DEF FinishJob
    <2>3. QED
      BY <1>10, <2>1, <2>2 DEF FinishJob, TypeOK, ProcState
  <1>11. QED
    BY <1>3, <1>4, <1>5, <1>6, <1>7, <1>8, <1>9, <1>10 DEF Build

LEMMA FaultType ==
    ASSUME IInv, NEW p \in Process, CallFails(p)
    PROVE  IInv'
  <1>1. proc' \in [Process -> ProcState]
    BY Constants, GoType DEF CallFails, IInv
  <1>2. used' \in [Bounded -> Nat]
    BY SpendType DEF CallFails, IInv, Bounded
  <1>3. QED
    BY <1>1, <1>2 DEF CallFails, IInv, TypeOK, ProcState, BoundedRevisions

LEMMA WriteType ==
    ASSUME IInv, Write
    PROVE  IInv'
  <1>1. PICK e \in Entity :
          DeleteEntity(e) \/ \E X \in Properties : PutEntity(e, X)
    BY DEF Write
  <1>2. used' \in [Bounded -> Nat]
    BY <1>1, SpendType DEF DeleteEntity, PutEntity, IInv, Bounded
  <1>3. CASE DeleteEntity(e)
    BY <1>2, <1>3 DEF DeleteEntity, IInv, TypeOK, BoundedRevisions
  <1>4. CASE \E X \in Properties : PutEntity(e, X)
    <2>1. PICK X \in Properties : PutEntity(e, X)
      BY <1>4
    <2>2. X \subseteq Value
      BY DEF Properties
    <2>3. ({e} \X X) \subseteq Rows
      BY <2>2 DEF Rows
    <2>4. QED
      BY <1>2, <2>1, <2>3 DEF PutEntity, IInv, TypeOK, BoundedRevisions
  <1>5. QED
    BY <1>1, <1>3, <1>4

LEMMA CrashType ==
    ASSUME IInv, Crash
    PROVE  IInv'
  <1>1. used' \in [Bounded -> Nat]
    BY SpendType DEF Crash, IInv, Bounded
  <1>2. (IF Configured THEN RowsOf(Entity) ELSE {}) \in SUBSET Rows
    BY RowsOfType
  <1>3. stored' \subseteq Rows /\ rows' \subseteq Rows
    BY <1>2, PutType DEF Crash, IInv
  <1>4. proc' \in [Process -> ProcState]
    BY Constants DEF Crash
  <1>5. QED
    BY <1>1, <1>3, <1>4, ParameterAssumption
       DEF Crash, IInv, TypeOK, ProcState, BoundedRevisions

LEMMA InitType == Init => IInv
  <1> SUFFICES ASSUME Init PROVE IInv
    OBVIOUS
  <1>1. PICK P \in [Entity -> Properties] :
          /\ live = {e \in Entity : P[e] # {}}
          /\ stored = UNION {{e} \X P[e] : e \in Entity}
    BY DEF Init
  <1>2. stored \subseteq Rows
    BY <1>1 DEF Properties, Rows
  <1>3. rows \subseteq Rows
    BY RowsOfType DEF Init
  <1>4. proc \in [Process -> ProcState]
    BY Constants DEF Init
  <1>5. used \in [Bounded -> Nat]
    BY DEF Init
  <1>6. recs = {} /\ due = {} /\ catalog \in BOOLEAN /\ live \subseteq Entity
    BY <1>1, ParameterAssumption DEF Init
  <1>7. BoundedRevisions(recs)
    BY <1>6 DEF BoundedRevisions
  <1>8. QED
    BY <1>2, <1>3, <1>4, <1>5, <1>6, <1>7 DEF IInv, TypeOK, ProcState

LEMMA StepType == IInv /\ [Next]_vars => IInv'
  <1> SUFFICES ASSUME IInv, [Next]_vars PROVE IInv'
    OBVIOUS
  <1>1. CASE Next
    BY <1>1, EnqueueType, DropType, BuildType, FaultType, WriteType, CrashType
       DEF Next
  <1>2. CASE UNCHANGED vars
    BY <1>2 DEF IInv, TypeOK, BoundedRevisions, vars
  <1>3. QED
    BY <1>1, <1>2

LEMMA InductiveInvariant == Spec => []IInv
  BY InitType, StepType, PTL DEF Spec

\* The types of the state of an index build, for any parameters.
THEOREM TypeCorrect == Spec => []TypeOK
  <1>1. IInv => TypeOK
    BY DEF IInv
  <1>2. QED
    BY <1>1, InductiveInvariant, PTL

-----------------------------------------------------------------------------
(* Revisions.                                                              *)

\* A state of the job is only taken off the record with a later one put on.
LEMMA RecsGrow ==
    ASSUME IInv, Next
    PROVE  \A r \in recs : \E q \in recs' : q.rev >= r.rev
  <1>1. \A r \in recs : r.rev \in Nat /\ r.rev >= r.rev
    BY DEF IInv, TypeOK, JobState
  <1>2. CASE recs \subseteq recs'
    BY <1>1, <1>2
  <1>3. ASSUME NEW p \in Process, ReplaceJobState(p)
        PROVE  \A r \in recs : \E q \in recs' : q.rev >= r.rev
    <2>1. recs' = (recs \ {proc[p].job}) \cup {NextState(p)}
      BY <1>3 DEF ReplaceJobState
    <2>2. NextState(p).rev = proc[p].job.rev + 1
      BY DEF NextState
    <2>3. proc[p].job.rev \in Nat
      BY DEF IInv, TypeOK, JobState
    <2>4. NextState(p).rev >= proc[p].job.rev
      BY <2>2, <2>3
    <2>5. QED
      BY <1>1, <2>1, <2>4
  <1>4. recs \subseteq recs' \/ \E p \in Process : ReplaceJobState(p)
    <2>1. ASSUME NEW s \in Session, Enqueue(s) PROVE recs \subseteq recs'
      BY <2>1 DEF Enqueue, CreatePropertyIndexAsync, RestartPropertyBuild,
                  ReadRevision, RevisionUnread, PutJob, PutJobFails
    <2>2. ASSUME NEW s \in Session, Drop(s) PROVE recs \subseteq recs'
      BY <2>2 DEF Drop, DropPropertyIndex, CollectEntries, DeleteEntries,
                  DeleteOneEntry, CompleteJobs, DequeueDropped, DequeueJob,
                  RemovePropertyIndex
    <2>3. ASSUME NEW p \in Process, Build(p) \/ CallFails(p)
          PROVE  recs \subseteq recs' \/ ReplaceJobState(p)
      BY <2>3 DEF Build, ProcessPendingJobs, AddPropertyIndex, NextVertex,
                  ReadVertex, WriteRows, WriteOneRow, FinishJob, DequeueJob,
                  CallFails
    <2>4. CASE Write \/ Crash
      BY <2>4 DEF Write, PutEntity, DeleteEntity, Crash
    <2>5. QED
      BY <2>1, <2>2, <2>3, <2>4 DEF Next
  <1>5. QED
    BY <1>2, <1>3, <1>4

\* The newest state of the job is never of an earlier revision than before
\* (listAllPropertyIndexBuildJobRecords, replacePropertyIndexBuildJobState),
\* however many processes work on the job.
THEOREM RevisionsGrow == Spec => JobNeverRewinds
  <1>1. ASSUME IInv, IInv', Next PROVE Newest'.rev >= Newest.rev
    <2>1. CASE recs = {}
      <3>1. Newest.rev = 0
        BY <2>1 DEF Newest, NoJob
      <3>2. Newest'.rev \in Nat
        <4>1. CASE recs' = {}
          BY <4>1 DEF Newest, NoJob
        <4>2. CASE recs' # {}
          <5>1. recs' \subseteq JobState /\ BoundedRevisions(recs')
            BY <1>1 DEF IInv, TypeOK
          <5>2. NewestOf(recs') \in JobState
            BY <4>2, <5>1, NewestExists
          <5>3. QED
            BY <4>2, <5>2 DEF Newest, NewestOf, JobState
        <4>3. QED
          BY <4>1, <4>2
      <3>3. QED
        BY <3>1, <3>2
    <2>2. CASE recs # {}
      <3>1. \A r \in recs : \E q \in recs' : q.rev >= r.rev
        BY <1>1, RecsGrow
      <3>2. /\ recs \subseteq JobState /\ BoundedRevisions(recs)
            /\ recs' \subseteq JobState /\ BoundedRevisions(recs')
        BY <1>1 DEF IInv, TypeOK
      <3>3. NewestOf(recs').rev >= NewestOf(recs).rev
        BY <2>2, <3>1, <3>2, NewestGrows
      <3>4. recs' # {}
        BY <2>2, <3>1
      <3>5. Newest = NewestOf(recs) /\ Newest' = NewestOf(recs')
        BY <2>2, <3>4 DEF Newest, NewestOf
      <3>6. QED
        BY <3>3, <3>5
    <2>3. QED
      BY <2>1, <2>2
  <1>2. IInv /\ IInv' /\ [Next]_vars => [Newest'.rev >= Newest.rev]_vars
    BY <1>1
  <1>3. QED
    BY <1>2, InductiveInvariant, PTL DEF Spec, JobNeverRewinds
=============================================================================
