-------------------------- MODULE IndexCoverProofs --------------------------
(***************************************************************************)
(* Proofs about IndexLifecycle: what a build covers and what it leaves as  *)
(* it is.  With one enqueue and no DROP, the newest state of the job never *)
(* says more than is indexed and no property is changed that nobody wrote, *)
(* however many processes work on the job, whichever calls fail and        *)
(* however often the server crashes.                                       *)
(***************************************************************************)
EXTENDS IndexLifecycleProofs

-----------------------------------------------------------------------------
(* The invariant.                                                          *)

\* the row of e, if it has one to have, is there
Covered(e) == e \in live /\ Values(e) # {} => <<e, Loaded(e)>> \in rows

\* so are those of all due entities at the vertices up to v
Behind(v) == \A e \in due : Home[e] <= v => Covered(e)

AllCovered == \A e \in due : Covered(e)

Enqueuing(p) == proc[p].pc \in {"revision", "put"}
Working(p) == proc[p].pc \in {"add", "scan", "read", "write", "write_one",
                              "save", "finish"}
Writing(p) == proc[p].pc \in {"write", "write_one"}

\* the one enqueue: before its job is put nobody works, after it nobody enqueues
Phases ==
    /\ \A p \in Process : proc[p].pc = "idle" \/ Enqueuing(p) \/ Working(p)
    /\ recs = {} => \A p \in Process : ~Working(p)
    /\ \A p \in Process : Enqueuing(p) =>
          /\ recs = {} /\ used["enqueues"] >= 1
          /\ ~proc[p].job.done \/ proc[p].pc = "revision"
          /\ proc[p].job.ckpt = 0
          /\ \A q \in Process : Enqueuing(q) => q = p
    /\ used["enqueues"] < 1 => recs = {}
    /\ due \subseteq live

\* every state on record, not only the newest
RecsCover ==
    \A r \in recs : Behind(r.ckpt) /\ (r.done => AllCovered)

\* between the checkpoint and the next vertex there is nothing due
Skips(p) == \A e \in due : Home[e] <= proc[p].job.ckpt \/ Home[e] >= proc[p].next

\* a process holds, of due entities, the rows they should have
Holds(p) ==
    \A e \in due :
        /\ Home[e] = proc[p].next => Covered(e) \/ <<e, Loaded(e)>> \in proc[p].rows
        /\ \A x \in Value : <<e, x>> \in proc[p].rows => x \in Values(e)

WorkCovers(p) ==
    Working(p) =>
        /\ Behind(proc[p].job.ckpt)
        /\ proc[p].pc \in {"read", "write", "write_one", "save"} => Skips(p)
        /\ Writing(p) => Holds(p)
        /\ proc[p].pc = "save" => Behind(proc[p].next)
        /\ proc[p].pc = "finish" => AllCovered

CInv == Phases /\ RecsCover /\ \A p \in Process : WorkCovers(p)

-----------------------------------------------------------------------------
(* What a step that does not write an entity leaves as it is.              *)

Kept(e) ==
    /\ Values(e)' = Values(e)
    /\ e \in live' <=> e \in live
    /\ \A x \in Value : <<e, x>> \in rows => <<e, x>> \in rows'

LEMMA LoadedValue ==
    ASSUME NEW e, Values(e) # {}
    PROVE  Loaded(e) \in Value /\ Loaded(e) \in Values(e)
  BY MinIsLeast, EntityAssumption DEF Values, Loaded

LEMMA KeptLoaded ==
    ASSUME NEW e, Kept(e)
    PROVE  Loaded(e)' = Loaded(e)
  BY DEF Kept, Loaded

LEMMA KeptCovered ==
    ASSUME NEW e, Kept(e), Covered(e)
    PROVE  Covered(e)'
  BY KeptLoaded, LoadedValue DEF Kept, Covered

\* What is covered stays so, and a process that does not move keeps its part.
LEMMA Steady ==
    ASSUME due' \subseteq due, \A e \in due' : Kept(e)
    PROVE  /\ \A v : Behind(v) => Behind(v)'
           /\ AllCovered => AllCovered'
           /\ \A p \in Process : proc'[p] = proc[p] /\ WorkCovers(p) => WorkCovers(p)'
  <1>1. \A v : Behind(v) => Behind(v)'
    BY KeptCovered DEF Behind
  <1>2. AllCovered => AllCovered'
    BY KeptCovered DEF AllCovered
  <1>3. ASSUME NEW p \in Process, proc'[p] = proc[p], WorkCovers(p)
        PROVE  WorkCovers(p)'
    <2>1. Skips(p) => Skips(p)'
      BY <1>3 DEF Skips
    <2>2. Holds(p) => Holds(p)'
      <3> SUFFICES ASSUME Holds(p), NEW e \in due'
                   PROVE  /\ Home[e] = proc[p].next =>
                                Covered(e)' \/ <<e, Loaded(e)'>> \in proc[p].rows
                          /\ \A x \in Value : <<e, x>> \in proc[p].rows => x \in Values(e)'
        BY <1>3 DEF Holds
      <3>1. Values(e)' = Values(e)
        BY DEF Kept
      <3>2. QED
        BY <3>1, KeptLoaded, KeptCovered DEF Holds
    <2>3. QED
      BY <1>1, <1>2, <1>3, <2>1, <2>2 DEF WorkCovers, Working, Writing
  <1>4. QED
    BY <1>1, <1>2, <1>3

\* Writing rows that due entities should have keeps these as they are.
LEMMA PutKeeps ==
    ASSUME NEW R, PutPropertyIndex(R), live' = live,
           NEW e \in due, \A x \in Value : <<e, x>> \in R => x \in Values(e)
    PROVE  Kept(e)
  <1>1. Values(e)' = Values(e)
    BY DEF Values, PutPropertyIndex
  <1>2. QED
    BY <1>1 DEF Kept, PutPropertyIndex

LEMMA SameKept ==
    ASSUME stored' = stored, live' = live, rows' = rows
    PROVE  \A e : Kept(e)
  BY DEF Kept, Values

-----------------------------------------------------------------------------
(* The steps.                                                              *)

\* A step of p that changes no entity: what is left to show is about p and
\* about the record.
LEMMA StepOf ==
    ASSUME IInv, CInv, NEW p \in Process, NEW r, Go(p, r),
           due' = due, live' = live, used'["enqueues"] = used["enqueues"],
           \A e \in due : Kept(e),
           r.pc = "idle" \/ r.pc \in {"add", "scan", "read", "write", "write_one",
                                      "save", "finish"},
           recs' = {} <=> recs = {},
           recs = {} => r.pc = "idle",
           RecsCover', WorkCovers(p)'
    PROVE  CInv'
  <1>1. proc \in [Process -> ProcState]
    BY DEF IInv, TypeOK, ProcState
  <1>2. proc'[p] = r /\ \A q \in Process : q # p => proc'[q] = proc[q]
    BY <1>1 DEF Go
  <1>3. \A q \in Process : WorkCovers(q)'
    BY <1>2, Steady DEF CInv
  <1>4. Phases'
    BY <1>2 DEF CInv, Phases, Enqueuing, Working
  <1>5. QED
    BY <1>3, <1>4 DEF CInv

LEMMA EnqueueCovers ==
    ASSUME IInv, CInv, MaxEnqueues \in 0 .. 1, NEW s \in Session, Enqueue(s)
    PROVE  CInv'
  <1>1. s \in Process /\ proc \in [Process -> ProcState] /\ used \in [Bounded -> Nat]
    BY DEF IInv, TypeOK, ProcState, Process
  <1>2. "enqueues" \in Bounded /\ "faults" \in Bounded
    BY DEF Bounded
  <1>3. CASE CreatePropertyIndexAsync(s) \/ RestartPropertyBuild(s)
    <2>1. used["enqueues"] < 1 /\ used'["enqueues"] >= 1
      BY <1>1, <1>2, <1>3 DEF CreatePropertyIndexAsync, RestartPropertyBuild, Spend
    <2>2. recs = {} /\ \A q \in Process : ~Enqueuing(q) /\ ~Working(q)
      BY <1>1, <1>2, <2>1 DEF CInv, Phases
    <2>3. UNCHANGED <<live, stored, rows, recs, due>>
      BY <1>3 DEF CreatePropertyIndexAsync, RestartPropertyBuild
    <2>4. /\ proc'[s].pc = "revision" /\ proc'[s].job.ckpt = 0
          /\ \A q \in Process : q # s => proc'[q] = proc[q]
      <3>1. PICK o \in {"create", "restart"} :
              Go(s, [Idle EXCEPT !.pc = "revision", !.op = o])
        BY <1>3 DEF CreatePropertyIndexAsync, RestartPropertyBuild
      <3>2. [Idle EXCEPT !.pc = "revision", !.op = o].pc = "revision"
            /\ [Idle EXCEPT !.pc = "revision", !.op = o].job.ckpt = 0
        BY DEF Idle, NoJob
      <3>3. QED
        BY <1>1, <3>1, <3>2 DEF Go
    <2>5. Phases'
      BY <2>1, <2>2, <2>3, <2>4 DEF CInv, Phases, Enqueuing, Working
    <2>6. \A q \in Process : WorkCovers(q)'
      BY <2>2, <2>4 DEF WorkCovers, Working
    <2>7. RecsCover'
      BY <2>2, <2>3 DEF RecsCover
    <2>8. QED
      BY <2>5, <2>6, <2>7 DEF CInv
  <1>4. CASE ReadRevision(s) \/ RevisionUnread(s)
    <2>1. UNCHANGED <<live, stored, rows, recs, due>>
      BY <1>4 DEF ReadRevision, RevisionUnread
    <2>2. /\ proc'[s].pc = "put" /\ proc'[s].job.ckpt = 0 /\ ~proc'[s].job.done
          /\ \A q \in Process : q # s => proc'[q] = proc[q]
      <3>1. PICK n : Go(s, [proc[s] EXCEPT !.pc = "put",
                                !.job = [rev |-> n, ckpt |-> 0, done |-> FALSE]])
        BY <1>4 DEF ReadRevision, RevisionUnread
      <3> DEFINE r == [proc[s] EXCEPT !.pc = "put",
                                !.job = [rev |-> n, ckpt |-> 0, done |-> FALSE]]
      <3>2. r.pc = "put" /\ r.job.ckpt = 0 /\ ~r.job.done
        BY <1>1 DEF ProcState
      <3> HIDE DEF r
      <3>3. QED
        BY <1>1, <3>1, <3>2 DEF Go, r
    <2>3. used'["enqueues"] = used["enqueues"]
      BY <1>1, <1>2, <1>4 DEF ReadRevision, RevisionUnread, Spend
    <2>4. Enqueuing(s)
      BY <1>4 DEF ReadRevision, RevisionUnread, At, Enqueuing
    <2>5. Phases'
      BY <1>1, <2>1, <2>2, <2>3, <2>4 DEF CInv, Phases, Enqueuing, Working
    <2>6. \A q \in Process : WorkCovers(q)'
      BY <1>1, <2>2, <2>4 DEF CInv, Phases, WorkCovers, Working, Enqueuing
    <2>7. RecsCover'
      BY <1>1, <2>1, <2>4 DEF CInv, Phases, RecsCover
    <2>8. QED
      BY <2>5, <2>6, <2>7 DEF CInv
  <1>5. CASE PutJob(s)
    <2>1. Enqueuing(s) /\ proc[s].pc = "put"
      BY <1>5 DEF PutJob, At, Enqueuing
    <2>2. /\ recs = {} /\ used["enqueues"] >= 1
          /\ ~proc[s].job.done /\ proc[s].job.ckpt = 0
          /\ \A q \in Process : q # s => proc[q].pc = "idle"
      BY <1>1, <2>1 DEF CInv, Phases
    <2>3. /\ recs' = {proc[s].job} /\ due' = live /\ live' = live
          /\ used' = used /\ proc'[s].pc = "idle"
          /\ \A q \in Process : q # s => proc'[q] = proc[q]
      BY <1>1, <1>5, <2>2 DEF PutJob, Go, Idle
    <2>4. Phases'
      BY <1>1, <1>2, <2>2, <2>3 DEF Phases, Enqueuing, Working
    <2>5. \A q \in Process : WorkCovers(q)'
      BY <2>2, <2>3 DEF WorkCovers, Working
    <2>6. \A e \in due' : ~(Home[e] <= 0)
      <3>1. due' \subseteq Entity
        BY <2>3 DEF IInv, TypeOK
      <3>2. QED
        BY <3>1, EntityAssumption DEF Vertex
    <2>7. RecsCover'
      BY <2>2, <2>3, <2>6 DEF RecsCover, Behind
    <2>8. QED
      BY <2>4, <2>5, <2>7 DEF CInv
  <1>6. CASE PutJobFails(s)
    <2>1. Enqueuing(s)
      BY <1>6 DEF PutJobFails, At, Enqueuing
    <2>2. UNCHANGED <<live, stored, rows, recs, due>>
      BY <1>6 DEF PutJobFails
    <2>3. /\ proc'[s].pc = "idle"
          /\ \A q \in Process : q # s => proc'[q] = proc[q]
      BY <1>1, <1>6 DEF PutJobFails, Go, Idle
    <2>4. used'["enqueues"] = used["enqueues"]
      BY <1>1, <1>2, <1>6 DEF PutJobFails, Spend
    <2>5. Phases'
      BY <1>1, <2>1, <2>2, <2>3, <2>4 DEF CInv, Phases, Enqueuing, Working
    <2>6. \A q \in Process : WorkCovers(q)'
      BY <1>1, <2>1, <2>3 DEF CInv, Phases, WorkCovers, Working, Enqueuing
    <2>7. RecsCover'
      BY <1>1, <2>1, <2>2 DEF CInv, Phases, RecsCover
    <2>8. QED
      BY <2>5, <2>6, <2>7 DEF CInv
  <1>7. QED
    BY <1>3, <1>4, <1>5, <1>6 DEF Enqueue

\* The rows a process reads at a vertex are those due entities should have.
LEMMA ReadHolds ==
    ASSUME IInv, NEW v, NEW e \in due
    PROVE  /\ Home[e] = v => Covered(e) \/ <<e, Loaded(e)>> \in RowsAt(v)
           /\ \A x \in Value : <<e, x>> \in RowsAt(v) => x \in Values(e)
  <1>1. e \in Entity
    BY DEF IInv, TypeOK
  <1>2. ASSUME NEW x, <<e, x>> \in RowsAt(v)
        PROVE  x \in Values(e)
    BY <1>2, LoadedValue DEF RowsAt, RowsOf
  <1>3. ASSUME Home[e] = v, ~Covered(e)
        PROVE  <<e, Loaded(e)>> \in RowsAt(v)
    BY <1>1, <1>3 DEF RowsAt, RowsOf, Covered
  <1>4. QED
    BY <1>2, <1>3

\* Every due entity is at a vertex the scan meets.
LEMMA DueScanned ==
    ASSUME IInv, CInv, NEW e \in due
    PROVE  Home[e] \in Scanned /\ Home[e] \in Nat
  BY EntityAssumption DEF IInv, TypeOK, CInv, Phases, Scanned, Vertex

LEMMA NumberTypes ==
    ASSUME IInv, CInv, NEW p \in Process
    PROVE  proc[p].next \in Nat /\ \A e \in due : Home[e] \in Nat
  BY DueScanned, EntityAssumption DEF IInv, TypeOK

\* Nothing due is between the checkpoint and the vertex the scan takes next.
LEMMA NextSkips ==
    ASSUME IInv, CInv, NEW p \in Process
    PROVE  /\ Ahead(p) = {} => \A e \in due : Home[e] <= proc[p].job.ckpt
           /\ \A e \in due : Home[e] <= proc[p].job.ckpt \/ Home[e] >= Min(Ahead(p))
  <1>1. proc[p].job.ckpt \in Nat
    BY EntityAssumption DEF IInv, TypeOK, JobState
  <1>2. \A e \in due : Home[e] <= proc[p].job.ckpt \/ Home[e] \in Ahead(p)
    BY <1>1, DueScanned DEF Ahead
  <1>3. Ahead(p) \subseteq Nat
    BY ScannedType, EntityAssumption DEF IInv, Ahead, Vertex
  <1>4. \A h \in Ahead(p) : h >= Min(Ahead(p))
    BY <1>3, LeastNatural DEF Min
  <1>5. QED
    BY <1>2, <1>4

\* The job a pass begins with is on record.
LEMMA NewestCovers ==
    ASSUME IInv, CInv, recs # {}
    PROVE  Newest \in recs /\ Behind(Newest.ckpt) /\ (Newest.done => AllCovered)
  <1>1. Newest \in recs
    BY NewestExists DEF Newest, NewestOf, IInv, TypeOK
  <1>2. QED
    BY <1>1 DEF CInv, RecsCover

LEMMA BuildCoversStep ==
    ASSUME IInv, CInv, NEW p \in Process, Build(p)
    PROVE  CInv'
  <1> DEFINE job == proc[p].job
  <1>1. proc[p] \in ProcState /\ proc \in [Process -> ProcState]
    BY DEF IInv, TypeOK, ProcState
  <1>2. WorkCovers(p) /\ Phases /\ RecsCover /\ (Working(p) => recs # {})
    BY DEF CInv, Phases
  <1>3. ASSUME UNCHANGED <<stored, live, rows, due, recs>>
        PROVE  RecsCover' /\ \A e \in due : Kept(e)
    BY <1>3, <1>2, SameKept, Steady DEF RecsCover
  <1>4. CASE ProcessPendingJobs(p)
    <2> DEFINE r == [Idle EXCEPT !.pc = "add", !.job = Newest]
    <2>1. Go(p, r) /\ r.pc = "add" /\ r.job = Newest
      BY <1>4 DEF ProcessPendingJobs, Idle
    <2>2. UNCHANGED <<live, stored, rows, recs, due, used>>
      BY <1>4 DEF ProcessPendingJobs
    <2>3. recs # {}
      BY <1>4 DEF ProcessPendingJobs, Pending, Newest, NoJob
    <2> HIDE DEF r
    <2>4. proc'[p] = r
      BY <1>1, <2>1 DEF Go
    <2>5. Behind(Newest.ckpt)'
      <3>1. PICK c : c = Newest.ckpt
        OBVIOUS
      <3>2. Behind(c)' /\ Newest' = Newest
        BY <1>3, <2>2, <2>3, <3>1, NewestCovers, Steady DEF Newest
      <3>3. QED
        BY <3>1, <3>2 DEF Behind
    <2>6. WorkCovers(p)'
      BY <2>1, <2>2, <2>4, <2>5 DEF WorkCovers, Working, Writing, Newest
    <2>7. QED
      BY <1>3, <2>1, <2>2, <2>3, <2>6, StepOf
  <1>5. CASE AddPropertyIndex(p)
    <2> DEFINE r == [proc[p] EXCEPT !.pc = "scan"]
    <2>1. Go(p, r) /\ r.pc = "scan" /\ r.job = proc[p].job
      BY <1>1, <1>5 DEF AddPropertyIndex, GoTo, ProcState
    <2>2. UNCHANGED <<live, stored, rows, recs, due, used>>
      BY <1>5 DEF AddPropertyIndex
    <2>3. Working(p)
      BY <1>5 DEF AddPropertyIndex, At, Working
    <2> HIDE DEF r
    <2>4. proc'[p] = r
      BY <1>1, <2>1 DEF Go
    <2>5. Behind(job.ckpt)'
      BY <1>2, <1>3, <2>2, <2>3, <2>1, <2>4, Steady DEF WorkCovers
    <2>6. WorkCovers(p)'
      BY <2>1, <2>4, <2>5 DEF WorkCovers, Working, Writing
    <2>7. QED
      BY <1>2, <1>3, <2>1, <2>2, <2>3, <2>6, StepOf
  <1>6. CASE NextVertex(p)
    <2>1. UNCHANGED <<live, stored, rows, recs, due, used>> /\ Working(p)
      BY <1>6 DEF NextVertex, At, Working
    <2>2. \A e \in due : Kept(e)
      BY <1>3, <2>1
    <2>3. CASE Ahead(p) = {}
      <3> DEFINE r == [proc[p] EXCEPT !.pc = "finish"]
      <3>1. Go(p, r) /\ r.pc = "finish" /\ r.job = proc[p].job
        BY <1>1, <1>6, <2>3 DEF NextVertex, ProcState
      <3> HIDE DEF r
      <3>2. proc'[p] = r
        BY <1>1, <3>1 DEF Go
      <3>3. AllCovered
        BY <1>2, <2>1, <2>3, NextSkips DEF WorkCovers, Behind, AllCovered
      <3>4. AllCovered' /\ Behind(job.ckpt)'
        BY <1>2, <2>1, <2>2, <3>1, <3>2, <3>3, Steady DEF WorkCovers
      <3>5. WorkCovers(p)'
        BY <3>1, <3>2, <3>4 DEF WorkCovers, Working, Writing
      <3>6. QED
        BY <1>2, <1>3, <2>1, <2>2, <3>1, <3>5, StepOf
    <2>4. CASE Ahead(p) # {}
      <3> DEFINE r == [proc[p] EXCEPT !.pc = "read", !.next = Min(Ahead(p))]
      <3>1. Go(p, r) /\ r.pc = "read" /\ r.job = proc[p].job /\ r.next = Min(Ahead(p))
        BY <1>1, <1>6, <2>4 DEF NextVertex, ProcState
      <3> HIDE DEF r
      <3>2. proc'[p] = r
        BY <1>1, <3>1 DEF Go
      <3>3. Skips(p)'
        BY <2>1, <3>1, <3>2, NextSkips DEF Skips
      <3>4. Behind(job.ckpt)'
        BY <1>2, <2>1, <2>2, <3>1, <3>2, Steady DEF WorkCovers
      <3>5. WorkCovers(p)'
        BY <3>1, <3>2, <3>3, <3>4 DEF WorkCovers, Working, Writing
      <3>6. QED
        BY <1>2, <1>3, <2>1, <2>2, <3>1, <3>5, StepOf
    <2>5. QED
      BY <2>3, <2>4
  <1>7. CASE ReadVertex(p)
    <2> DEFINE r == [proc[p] EXCEPT !.pc = "write", !.rows = RowsAt(proc[p].next)]
    <2>1. /\ Go(p, r) /\ r.pc = "write" /\ r.job = proc[p].job
          /\ r.next = proc[p].next /\ r.rows = RowsAt(proc[p].next)
      BY <1>1, <1>7 DEF ReadVertex, ProcState
    <2>2. UNCHANGED <<live, stored, rows, recs, due, used>> /\ Working(p) /\ Skips(p)
      BY <1>2, <1>7 DEF ReadVertex, At, Working, WorkCovers
    <2> HIDE DEF r
    <2>3. proc'[p] = r
      BY <1>1, <2>1 DEF Go
    <2>4. Skips(p)'
      BY <2>1, <2>2, <2>3 DEF Skips
    <2>5. Holds(p)'
      <3>1. \A e \in due : Values(e)' = Values(e) /\ Loaded(e)' = Loaded(e)
                            /\ (Covered(e) => Covered(e)')
        BY <1>3, <2>2, KeptLoaded, KeptCovered DEF Kept
      <3>2. QED
        BY <2>1, <2>2, <2>3, <3>1, ReadHolds DEF Holds
    <2>6. Behind(job.ckpt)'
      BY <1>2, <1>3, <2>2, <2>1, <2>3, Steady DEF WorkCovers
    <2>7. WorkCovers(p)'
      BY <2>1, <2>3, <2>4, <2>5, <2>6 DEF WorkCovers, Working, Writing
    <2>8. QED
      BY <1>2, <1>3, <2>1, <2>2, <2>7, StepOf
  <1>8. CASE WriteRows(p)
    <2>1. /\ UNCHANGED <<live, recs, due, used>>
          /\ Working(p) /\ Skips(p) /\ Holds(p) /\ Behind(job.ckpt)
      BY <1>2, <1>8 DEF WriteRows, At, Working, Writing, WorkCovers
    <2>2. CASE Cardinality(proc[p].rows) <= BatchLimit
      <3> DEFINE r == [proc[p] EXCEPT !.pc = "save"]
      <3>1. /\ PutPropertyIndex(proc[p].rows) /\ Go(p, r)
            /\ r.pc = "save" /\ r.job = proc[p].job /\ r.next = proc[p].next
        BY <1>1, <1>8, <2>2 DEF WriteRows, GoTo, ProcState
      <3> HIDE DEF r
      <3>2. proc'[p] = r
        BY <1>1, <3>1 DEF Go
      <3>3. \A e \in due : Kept(e)
        BY <2>1, <3>1, PutKeeps DEF Holds
      <3>4. \A e \in due : Home[e] <= proc[p].next => Covered(e)'
        <4>1. ASSUME NEW e \in due, Home[e] <= proc[p].next PROVE Covered(e)'
          <5>1. CASE Covered(e)
            BY <3>3, <5>1, KeptCovered
          <5>2. CASE ~Covered(e)
            <6>1. Home[e] = proc[p].next
              <7>1. Home[e] >= proc[p].next
                BY <2>1, <4>1, <5>2 DEF Skips, Behind
              <7>2. QED
                BY NumberTypes, <4>1, <7>1
            <6>2. <<e, Loaded(e)>> \in rows'
              BY <2>1, <3>1, <5>2, <6>1 DEF Holds, PutPropertyIndex
            <6>3. QED
              BY <3>3, <6>2, KeptLoaded DEF Covered
          <5>3. QED
            BY <5>1, <5>2
        <4>2. QED
          BY <4>1
      <3>5. Behind(proc[p].next)' /\ Skips(p)'
        BY <2>1, <3>1, <3>2, <3>4 DEF Behind, Skips
      <3>6. Behind(job.ckpt)'
        BY <2>1, <3>1, <3>2, <3>3, Steady
      <3>7. WorkCovers(p)'
        BY <3>1, <3>2, <3>5, <3>6 DEF WorkCovers, Working, Writing
      <3>8. RecsCover'
        BY <1>2, <2>1, <3>3, Steady DEF RecsCover
      <3>9. QED
        BY <1>2, <2>1, <3>1, <3>3, <3>7, <3>8, StepOf
    <2>3. CASE ~(Cardinality(proc[p].rows) <= BatchLimit)
      <3> DEFINE again == RowsAt(proc[p].next)
                 r == [proc[p] EXCEPT !.rows = again,
                          !.pc = IF again = {} THEN "save" ELSE "write_one"]
      <3>1. /\ UNCHANGED <<rows, stored>> /\ Go(p, r)
            /\ r.pc = IF again = {} THEN "save" ELSE "write_one"
            /\ r.job = proc[p].job /\ r.next = proc[p].next /\ r.rows = again
        BY <1>1, <1>8, <2>3 DEF WriteRows, ProcState
      <3> HIDE DEF r
      <3>2. proc'[p] = r
        BY <1>1, <3>1 DEF Go
      <3>3. \A e \in due : Kept(e)
        BY <1>3, <2>1, <3>1
      <3>4. Behind(job.ckpt)'
        BY <2>1, <3>1, <3>2, <3>3, Steady
      <3>5. Skips(p)'
        BY <2>1, <3>1, <3>2 DEF Skips
      <3>6. Holds(p)'
        <4>1. \A e \in due : Values(e)' = Values(e) /\ Loaded(e)' = Loaded(e)
                              /\ (Covered(e) => Covered(e)')
          BY <3>3, KeptLoaded, KeptCovered DEF Kept
        <4>2. QED
          BY <2>1, <3>1, <3>2, <4>1, ReadHolds DEF Holds
      <3>7. again = {} => Behind(proc[p].next)'
        <4> SUFFICES ASSUME again = {}, NEW e \in due, Home[e] <= proc[p].next
                     PROVE  Covered(e)
          BY <2>1, <3>1, <3>2, <3>3, KeptCovered DEF Behind
        <4>1. CASE Home[e] <= job.ckpt
          BY <2>1, <4>1 DEF Behind
        <4>2. CASE Home[e] >= proc[p].next
          <5>1. Home[e] = proc[p].next
            BY NumberTypes, <4>2
          <5>2. QED
            BY <5>1, ReadHolds
        <4>3. QED
          BY <2>1, <4>1, <4>2 DEF Skips
      <3>8. WorkCovers(p)'
        BY <3>1, <3>2, <3>4, <3>5, <3>6, <3>7 DEF WorkCovers, Working, Writing
      <3>9. RecsCover'
        BY <1>3, <2>1, <3>1
      <3>10. QED
        BY <1>2, <2>1, <3>1, <3>3, <3>8, <3>9, StepOf
    <2>4. QED
      BY <2>2, <2>3
  <1>9. CASE WriteOneRow(p)
    <2>1. /\ UNCHANGED <<live, recs, due, used>>
          /\ Working(p) /\ Skips(p) /\ Holds(p) /\ Behind(job.ckpt)
      BY <1>2, <1>9 DEF WriteOneRow, At, Working, Writing, WorkCovers
    <2>2. PICK w \in proc[p].rows :
            /\ PutPropertyIndex({w})
            /\ Go(p, [proc[p] EXCEPT !.rows = @ \ {w},
                      !.pc = IF proc[p].rows = {w} THEN "save" ELSE @])
      BY <1>9 DEF WriteOneRow
    <2> DEFINE r == [proc[p] EXCEPT !.rows = @ \ {w},
                        !.pc = IF proc[p].rows = {w} THEN "save" ELSE @]
    <2>3. /\ r.pc = IF proc[p].rows = {w} THEN "save" ELSE "write_one"
          /\ r.job = proc[p].job /\ r.next = proc[p].next
          /\ r.rows = proc[p].rows \ {w}
      BY <1>1, <1>9 DEF WriteOneRow, At, ProcState
    <2>4. proc'[p] = r
      BY <1>1, <2>2 DEF Go
    <2>5. Go(p, r)
      BY <2>2
    <2> HIDE DEF r
    <2>6. \A e \in due : Kept(e)
      BY <2>1, <2>2, PutKeeps DEF Holds
    <2>7. \A e \in due : Values(e)' = Values(e) /\ Loaded(e)' = Loaded(e)
                          /\ (Covered(e) => Covered(e)')
      BY <2>6, KeptLoaded, KeptCovered DEF Kept
    <2>8. \A e \in due : Home[e] = proc[p].next =>
             Covered(e)' \/ <<e, Loaded(e)>> \in proc[p].rows \ {w}
      <3> SUFFICES ASSUME NEW e \in due, Home[e] = proc[p].next, ~Covered(e)
                   PROVE  Covered(e)' \/ <<e, Loaded(e)>> \in proc[p].rows \ {w}
        BY <2>7
      <3>1. <<e, Loaded(e)>> \in proc[p].rows
        BY <2>1 DEF Holds
      <3>2. CASE <<e, Loaded(e)>> = w
        <4>1. <<e, Loaded(e)>> \in rows'
          BY <2>2, <3>2 DEF PutPropertyIndex
        <4>2. QED
          BY <2>7, <4>1 DEF Covered
      <3>3. QED
        BY <3>1, <3>2
    <2>9. Holds(p)'
      BY <2>1, <2>3, <2>4, <2>7, <2>8 DEF Holds
    <2>10. Skips(p)'
      BY <2>1, <2>3, <2>4 DEF Skips
    <2>11. Behind(job.ckpt)'
      BY <2>1, <2>3, <2>4, <2>6, Steady
    <2>12. proc[p].rows = {w} => Behind(proc[p].next)'
      <3> SUFFICES ASSUME proc[p].rows = {w}, NEW e \in due, Home[e] <= proc[p].next
                   PROVE  Covered(e)'
        BY <2>1, <2>3, <2>4 DEF Behind
      <3>1. CASE Home[e] <= job.ckpt
        BY <2>1, <2>7, <3>1 DEF Behind
      <3>2. CASE Home[e] >= proc[p].next
        <4>1. Home[e] = proc[p].next
          BY NumberTypes, <3>2
        <4>2. QED
          BY <2>8, <4>1
      <3>3. QED
        BY <2>1, <3>1, <3>2 DEF Skips
    <2>13. WorkCovers(p)'
      BY <2>3, <2>4, <2>9, <2>10, <2>11, <2>12 DEF WorkCovers, Working, Writing
    <2>14. RecsCover'
      BY <1>2, <2>1, <2>6, Steady DEF RecsCover
    <2>15. QED
      BY <1>2, <2>1, <2>3, <2>5, <2>6, <2>13, <2>14, StepOf
  <1>10. CASE ReplaceJobState(p)
    <2>1. /\ UNCHANGED <<live, stored, rows, due, used>>
          /\ Working(p) /\ Behind(proc[p].next)
      BY <1>2, <1>10 DEF ReplaceJobState, At, Working, WorkCovers
    <2>2. \A e \in due : Kept(e)
      BY <2>1, SameKept
    <2>3. PICK r : /\ Go(p, r)
                   /\ r.pc = "idle" \/ (r.pc = "scan" /\ r.job = NextState(p))
      <3>1. [Idle EXCEPT !.pc = "scan", !.job = NextState(p),
                         !.seen = proc[p].seen + 1].pc = "scan"
        BY DEF Idle
      <3>2. [Idle EXCEPT !.pc = "scan", !.job = NextState(p),
                         !.seen = proc[p].seen + 1].job = NextState(p)
        BY DEF Idle
      <3>3. Idle.pc = "idle"
        BY DEF Idle
      <3>4. QED
        BY <1>10, <3>1, <3>2, <3>3 DEF ReplaceJobState
    <2>4. proc'[p] = r
      BY <1>1, <2>3 DEF Go
    <2>5. PICK c : c = proc[p].next
      OBVIOUS
    <2>6. NextState(p).ckpt = c /\ ~NextState(p).done /\ Behind(c)'
      BY <2>1, <2>2, <2>5, Steady DEF NextState
    <2>7. WorkCovers(p)'
      BY <2>3, <2>4, <2>6 DEF WorkCovers, Working, Writing, Behind
    <2>8. recs' = (recs \ {proc[p].job}) \cup {NextState(p)}
      BY <1>10 DEF ReplaceJobState
    <2>9. RecsCover'
      BY <1>2, <2>1, <2>2, <2>6, <2>8, Steady DEF RecsCover
    <2>10. QED
      BY <1>2, <2>1, <2>2, <2>3, <2>7, <2>8, <2>9, StepOf
  <1>11. CASE FinishJob(p)
    <2>1. /\ UNCHANGED <<live, stored, rows, due, used>>
          /\ Working(p) /\ Behind(job.ckpt) /\ AllCovered
      BY <1>2, <1>11 DEF FinishJob, At, Working, WorkCovers
    <2>2. \A e \in due : Kept(e)
      BY <2>1, SameKept
    <2>3. Go(p, Idle) /\ Idle.pc = "idle"
      BY <1>11 DEF FinishJob, Idle
    <2>4. proc'[p] = Idle
      BY <1>1, <2>3 DEF Go
    <2>5. WorkCovers(p)'
      BY <2>3, <2>4 DEF WorkCovers, Working
    <2>6. AllCovered'
      BY <2>1, <2>2, Steady
    <2>7. recs' = recs \cup {[rev |-> job.rev + 1, ckpt |-> job.ckpt, done |-> TRUE]}
      BY <1>11 DEF FinishJob, DequeueJob
    <2>8. \A v : Behind(v)'
      BY <2>6 DEF Behind, AllCovered
    <2>9. RecsCover'
      BY <1>2, <2>1, <2>2, <2>6, <2>7, <2>8, Steady DEF RecsCover
    <2>10. QED
      BY <1>2, <2>1, <2>2, <2>3, <2>5, <2>7, <2>9, StepOf
  <1>12. QED
    BY <1>4, <1>5, <1>6, <1>7, <1>8, <1>9, <1>10, <1>11 DEF Build

LEMMA FaultCovers ==
    ASSUME IInv, CInv, NEW p \in Process, CallFails(p)
    PROVE  CInv'
  <1>1. Go(p, Idle) /\ Idle.pc = "idle" /\ UNCHANGED <<live, stored, rows, recs, due>>
    BY DEF CallFails, Idle
  <1>2. proc'[p] = Idle
    BY <1>1 DEF Go, IInv, TypeOK
  <1>3. used'["enqueues"] = used["enqueues"]
    BY DEF CallFails, Spend, IInv, TypeOK, Bounded
  <1>4. \A e \in due : Kept(e)
    BY <1>1, SameKept
  <1>5. RecsCover'
    BY <1>1, <1>4, Steady DEF CInv, RecsCover
  <1>6. WorkCovers(p)'
    BY <1>1, <1>2 DEF WorkCovers, Working
  <1>7. QED
    BY <1>1, <1>3, <1>4, <1>5, <1>6, StepOf

\* A write takes the entity off what is due and leaves all others alone.
LEMMA WriteCovers ==
    ASSUME IInv, CInv, Write
    PROVE  CInv'
  <1>1. PICK e \in Entity :
          DeleteEntity(e) \/ \E X \in Properties : PutEntity(e, X)
    BY DEF Write
  <1>2. UNCHANGED <<recs, catalog, proc>> /\ due' = due \ {e}
    BY <1>1 DEF DeleteEntity, PutEntity
  <1>3. used'["enqueues"] = used["enqueues"]
    BY <1>1 DEF DeleteEntity, PutEntity, Spend, IInv, TypeOK, Bounded
  <1>4. ASSUME NEW d, d # e PROVE Kept(d)
    <2>1. CASE DeleteEntity(e)
      BY <1>4, <2>1 DEF DeleteEntity, Kept, Values
    <2>2. CASE \E X \in Properties : PutEntity(e, X)
      BY <1>4, <2>2 DEF PutEntity, Kept, Values
    <2>3. QED
      BY <1>1, <2>1, <2>2
  <1>5. due' \subseteq live'
    BY <1>2, <1>4 DEF CInv, Phases, Kept
  <1>6. Phases'
    BY <1>2, <1>3, <1>5 DEF CInv, Phases, Enqueuing, Working
  <1>7. due' \subseteq due /\ \A d \in due' : Kept(d)
    BY <1>2, <1>4
  <1>8. RecsCover'
    BY <1>2, <1>7, Steady DEF CInv, RecsCover
  <1>9. \A p \in Process : WorkCovers(p)'
    BY <1>2, <1>7, Steady DEF CInv
  <1>10. QED
    BY <1>6, <1>8, <1>9 DEF CInv

\* The start after a crash fills the index from the properties as they are.
LEMMA CrashCovers ==
    ASSUME IInv, CInv, Crash
    PROVE  CInv'
  <1> DEFINE R == IF Configured THEN RowsOf(Entity) ELSE {}
  <1>1. UNCHANGED <<live, recs, due>> /\ PutPropertyIndex(R)
    BY DEF Crash
  <1>2. \A e, x : <<e, x>> \in R => x \in Values(e)
    BY LoadedValue DEF RowsOf
  <1> HIDE DEF R
  <1>3. \A e \in due : Kept(e)
    BY <1>1, <1>2, PutKeeps
  <1>4. used'["enqueues"] = used["enqueues"]
    BY DEF Crash, Spend, IInv, TypeOK, Bounded
  <1>5. \A p \in Process : proc'[p].pc = "idle"
    BY DEF Crash, Idle
  <1>6. Phases'
    BY <1>1, <1>4, <1>5 DEF CInv, Phases, Enqueuing, Working
  <1>7. RecsCover'
    BY <1>1, <1>3, Steady DEF CInv, RecsCover
  <1>8. \A p \in Process : WorkCovers(p)'
    BY <1>5 DEF WorkCovers, Working
  <1>9. QED
    BY <1>6, <1>7, <1>8 DEF CInv

LEMMA NoDrop ==
    ASSUME IInv, CInv, MaxDrops = 0, NEW s \in Session
    PROVE  ~Drop(s)
  <1>1. ~DropPropertyIndex(s)
    BY DEF DropPropertyIndex, Spend, IInv, TypeOK, Bounded
  <1>2. s \in Process
    BY DEF Process
  <1>3. proc[s].pc \notin {"collect", "delete", "delete_one", "complete",
                           "dequeue", "uncatalog"}
    BY <1>2 DEF CInv, Phases, Enqueuing, Working
  <1>4. QED
    BY <1>1, <1>3 DEF Drop, CollectEntries, DeleteEntries, DeleteOneEntry,
                      CompleteJobs, DequeueDropped, RemovePropertyIndex, At

LEMMA InitCovers == Init => CInv
  <1> SUFFICES ASSUME Init PROVE CInv
    OBVIOUS
  <1>1. recs = {} /\ due = {} /\ \A p \in Process : proc[p].pc = "idle"
    BY DEF Init, Idle
  <1>2. Phases
    BY <1>1 DEF Phases, Enqueuing, Working
  <1>3. RecsCover /\ \A p \in Process : WorkCovers(p)
    BY <1>1 DEF RecsCover, WorkCovers, Working
  <1>4. QED
    BY <1>2, <1>3 DEF CInv

LEMMA StepCovers ==
    ASSUME MaxEnqueues \in 0 .. 1, MaxDrops = 0
    PROVE  IInv /\ CInv /\ [Next]_vars => CInv'
  <1> SUFFICES ASSUME IInv, CInv, [Next]_vars PROVE CInv'
    OBVIOUS
  <1>1. CASE Next
    BY <1>1, EnqueueCovers, NoDrop, BuildCoversStep, FaultCovers, WriteCovers,
       CrashCovers DEF Next
  <1>2. CASE UNCHANGED vars
    <2>1. UNCHANGED <<live, stored, rows, recs, proc, due, used>>
      BY <1>2 DEF vars
    <2>2. \A e \in due : Kept(e)
      BY <2>1, SameKept
    <2>3. RecsCover' /\ \A p \in Process : WorkCovers(p)'
      BY <2>1, <2>2, Steady DEF CInv, RecsCover
    <2>4. Phases'
      BY <2>1 DEF CInv, Phases, Enqueuing, Working
    <2>5. QED
      BY <2>3, <2>4 DEF CInv
  <1>3. QED
    BY <1>1, <1>2

LEMMA CoverInvariant ==
    ASSUME MaxEnqueues \in 0 .. 1, MaxDrops = 0
    PROVE  Spec => [](IInv /\ CInv)
  <1>1. Init => IInv /\ CInv
    BY InitType, InitCovers
  <1>2. (IInv /\ CInv) /\ [Next]_vars => (IInv /\ CInv)'
    BY StepType, StepCovers
  <1>3. QED
    BY <1>1, <1>2, PTL DEF Spec

\* Rows of a set of entities, one by one.
LEMMA IndexedCovered ==
    ASSUME NEW E, E \subseteq Entity, \A e \in E : Covered(e)
    PROVE  Indexed(E)
  BY DEF Indexed, RowsOf, Covered

-----------------------------------------------------------------------------

\* The newest state of the job never claims a vertex whose rows are not there
\* (processPendingPropertyIndexBuildJob), whatever crashes, failing calls and
\* other processes on the job come between the row and its checkpoint.
THEOREM CheckpointNeverAhead ==
    ASSUME MaxEnqueues \in 0 .. 1, MaxDrops = 0
    PROVE  Spec => []CheckpointCovers
  <1>1. IInv /\ CInv => CheckpointCovers
    <2> SUFFICES ASSUME IInv, CInv PROVE CheckpointCovers
      OBVIOUS
    <2> DEFINE E == {e \in due : recs # {} /\ Home[e] <= Newest.ckpt}
    <2>1. E \subseteq Entity
      BY DEF IInv, TypeOK
    <2>2. \A e \in E : Covered(e)
      BY NewestCovers DEF Behind
    <2>3. Indexed(E)
      BY <2>1, <2>2, IndexedCovered
    <2>4. QED
      BY <2>3 DEF CheckpointCovers
  <1>2. QED
    BY <1>1, CoverInvariant, PTL

\* A build on record as completed has the row of every entity nobody wrote
\* since it was asked for (dequeuePropertyIndexBuildJob).
THEOREM CompletedBuildCovers ==
    ASSUME MaxEnqueues \in 0 .. 1, MaxDrops = 0
    PROVE  Spec => []BuildCovers
  <1>1. IInv /\ CInv => BuildCovers
    <2> SUFFICES ASSUME IInv, CInv, recs # {}, ~Pending PROVE Indexed(due)
      BY DEF BuildCovers
    <2>1. Newest.done
      BY DEF Pending
    <2>2. due \subseteq Entity /\ \A e \in due : Covered(e)
      BY <2>1, NewestCovers DEF AllCovered, IInv, TypeOK
    <2>3. QED
      BY <2>2, IndexedCovered
  <1>2. QED
    BY <1>1, CoverInvariant, PTL

-----------------------------------------------------------------------------
(* What a build leaves as it is.                                           *)

\* Whatever a process writes of a due entity, and it may have read it long ago,
\* is the property the entity has.
LEMMA BuildKeeps ==
    ASSUME CInv, NEW p \in Process, Build(p), NEW e \in due
    PROVE  Values(e)' = Values(e)
  <1>1. Writing(p) => \A x \in Value : <<e, x>> \in proc[p].rows => x \in Values(e)
    BY DEF CInv, WorkCovers, Working, Writing, Holds
  <1>2. CASE stored' = stored
    BY <1>2 DEF Values
  <1>3. CASE WriteRows(p)
    <2>1. Writing(p)
      BY <1>3 DEF WriteRows, At, Writing
    <2>2. CASE PutPropertyIndex(proc[p].rows)
      BY <1>1, <2>1, <2>2 DEF PutPropertyIndex, Values
    <2>3. QED
      BY <1>2, <1>3, <2>2 DEF WriteRows
  <1>4. CASE WriteOneRow(p)
    <2>1. Writing(p)
      BY <1>4 DEF WriteOneRow, At, Writing
    <2>2. PICK r \in proc[p].rows : PutPropertyIndex({r})
      BY <1>4 DEF WriteOneRow
    <2>3. QED
      BY <1>1, <2>1, <2>2 DEF PutPropertyIndex, Values
  <1>5. QED
    BY <1>2, <1>3, <1>4
       DEF Build, ProcessPendingJobs, AddPropertyIndex, NextVertex, ReadVertex,
           ReplaceJobState, FinishJob

LEMMA StepKeeps ==
    ASSUME MaxDrops = 0, IInv, CInv, Next, NEW e \in due, e \in due'
    PROVE  Values(e)' = Values(e)
  <1>1. ASSUME stored' = stored PROVE Values(e)' = Values(e)
    BY <1>1 DEF Values
  <1>2. ASSUME NEW s \in Session, Enqueue(s) PROVE stored' = stored
    BY <1>2 DEF Enqueue, CreatePropertyIndexAsync, RestartPropertyBuild,
                ReadRevision, RevisionUnread, PutJob, PutJobFails
  <1>3. ASSUME NEW p \in Process, CallFails(p) PROVE stored' = stored
    BY <1>3 DEF CallFails
  <1>4. CASE Write
    <2>1. PICK d \in Entity :
            DeleteEntity(d) \/ \E X \in Properties : PutEntity(d, X)
      BY <1>4 DEF Write
    <2>2. d # e
      BY <2>1 DEF DeleteEntity, PutEntity
    <2>3. CASE DeleteEntity(d)
      BY <2>2, <2>3 DEF DeleteEntity, Values
    <2>4. CASE \E X \in Properties : PutEntity(d, X)
      BY <2>2, <2>4 DEF PutEntity, Values
    <2>5. QED
      BY <2>1, <2>3, <2>4
  <1>5. CASE Crash
    <2>1. PICK R : PutPropertyIndex(R) /\ R \subseteq RowsOf(Entity)
      BY <1>5 DEF Crash
    <2>2. \A x : <<e, x>> \in R => x \in Values(e)
      BY <2>1, LoadedValue DEF RowsOf
    <2>3. QED
      BY <2>1, <2>2 DEF PutPropertyIndex, Values
  <1>6. QED
    BY <1>1, <1>2, <1>3, <1>4, <1>5, BuildKeeps, NoDrop DEF Next

\* The build of an index of edges writes the property of every edge it covers,
\* one row after the other and from old reads (PutPropertyIndex), and yet the
\* property of an entity nobody wrote since the build was asked for stays as it is.
THEOREM BuildsKeep ==
    ASSUME MaxEnqueues \in 0 .. 1, MaxDrops = 0
    PROVE  Spec => BuildsKeepProperties
  <1>1. IInv /\ CInv /\ [Next]_vars
          => [\A e \in due \cap due' : Values(e)' = Values(e)]_vars
    BY StepKeeps
  <1>2. QED
    BY <1>1, CoverInvariant, PTL DEF Spec, BuildsKeepProperties
=============================================================================
