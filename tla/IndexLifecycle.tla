--------------------------- MODULE IndexLifecycle ---------------------------
(***************************************************************************)
(* The life of one property index: CREATE, DROP, a restarted build, the    *)
(* background worker that fills the index from a durable job, the writers  *)
(* of the graph, crashes and failing calls.                                *)
(*                                                                         *)
(* The index is of vertices or, when OnEdges, of edges.  Both are the same *)
(* code twice (Property... and Edge... in index_ddl.go and index_jobs.go); *)
(* they differ in what an index row is.  The forward row of a vertex index *)
(* is a key of its own, while that of an edge index is the very key under  *)
(* which the store keeps the property of the edge: writing or deleting an  *)
(* index row of an edge writes or deletes the property.                    *)
(*                                                                         *)
(* A state of the job is part of the key it is stored under, so the states *)
(* of a job pile up as different rows until somebody deletes them, and a   *)
(* reader takes the newest.  The number of entities indexed so far, which  *)
(* is also part of a state, is only reported; it is left out.              *)
(*                                                                         *)
(* A step is one transaction of the store or one call of the catalog, and  *)
(* the transaction that indexes a vertex is two: it reads the live         *)
(* database, and commits later without a check.  A write of the graph is   *)
(* one step, at its commit.                                                *)
(***************************************************************************)
EXTENDS Integers, FiniteSets, FiniteSetsExt

CONSTANTS
    Worker,         \* the background worker
    Session,        \* client sessions that run index procedures
    Entity,         \* the vertices, or the edges, that have the property
    LastVertex,     \* the vertices are 1..LastVertex, in key order
    Home,           \* function: the vertex, or source vertex, of an entity
    Value,          \* values of the property: naturals, in key order
    OnEdges,        \* TRUE for an index of an edge property
    Configured,     \* TRUE if the startup configuration declares the index
    Ops,            \* the procedures the sessions call
    FaultAt,        \* the places where a call of the store may fail
    BatchLimit,     \* index rows that fit one transaction
    PassLimit,      \* vertices the worker indexes of a job in one pass
    MaxEnqueues, MaxDrops, MaxWrites, MaxCrashes, MaxFaults    \* bounds

Process == Session \cup {Worker}
Vertex  == 1 .. LastVertex
Rows    == Entity \X Value

Procedures == {"create", "restart", "drop", "process"}

ASSUME EntityAssumption ==
    /\ LastVertex \in Nat
    /\ Home \in [Entity -> Vertex]
    /\ OnEdges \/ \A d, e \in Entity : Home[d] = Home[e] => d = e
    /\ Value \subseteq Nat /\ Value # {}
    /\ Worker \notin Session

ASSUME ParameterAssumption ==
    /\ OnEdges \in BOOLEAN /\ Configured \in BOOLEAN
    /\ Ops \subseteq Procedures
    /\ BatchLimit \in Nat \ {0} /\ PassLimit \in Nat \ {0}

VARIABLES
    live,       \* the entities that exist
    stored,     \* the property rows: pairs of an entity and a value
    rows,       \* the index rows: pairs of an entity and a value
    recs,       \* the states of the build job that are on record
    catalog,    \* the runtime catalog has the index
    proc,       \* where each process is
    due,        \* history: entities not written since the last build was asked
    used        \* steps taken so far of each bounded kind

vars == <<live, stored, rows, recs, catalog, proc, due, used>>

JobState == [rev : Nat, ckpt : 0 .. LastVertex, done : BOOLEAN]

NoJob == [rev |-> 0, ckpt |-> 0, done |-> TRUE]

Label == {"idle", "revision", "put", "collect", "delete", "delete_one",
          "complete", "dequeue", "uncatalog", "add", "scan", "read", "write",
          "write_one", "save", "finish"}

Idle == [pc |-> "idle", op |-> "process", job |-> NoJob, next |-> 0,
         rows |-> {}, seen |-> 0]

Bounded == {"enqueues", "drops", "writes", "crashes", "faults"}

Spend(kind, bound) ==
    /\ used[kind] < bound
    /\ used' = [used EXCEPT ![kind] = @ + 1]

-----------------------------------------------------------------------------
(* What a reader of the store sees.                                        *)

Values(e) == {x \in Value : <<e, x>> \in stored}

(* The property of an entity is its first row in key order.                *)
Loaded(e) == Min(Values(e))

(* Wrong: an entity without the property is indexed under a default.       *)
RowsOfDefault(E) == {<<e, IF Values(e) = {} THEN Min(Value) ELSE Loaded(e)>> :
                        e \in E \cap live}

RowsOf(E) == {<<e, Loaded(e)>> : e \in {d \in E \cap live : Values(d) # {}}}

Scanned == IF OnEdges THEN Vertex ELSE {Home[e] : e \in live}

(* The order in which states of the job are met: by revision and, within a *)
(* revision, in key order.  The last one counts.                           *)
NotBefore(r, s) ==
    \/ r.rev > s.rev
    \/ r.rev = s.rev /\ r.ckpt > s.ckpt
    \/ r.rev = s.rev /\ r.ckpt = s.ckpt /\ (r.done \/ ~s.done)

Newest == IF recs = {} THEN NoJob
          ELSE CHOOSE r \in recs : \A s \in recs : NotBefore(r, s)

Pending == ~Newest.done

-----------------------------------------------------------------------------
(* Writes of index rows.                                                   *)

PutPropertyIndex(R) ==
    /\ rows' = rows \cup R
    /\ stored' = IF OnEdges THEN stored \cup R ELSE stored

DeletePropertyIndex(R) ==
    /\ rows' = rows \ R
    /\ stored' = IF OnEdges THEN stored \ R ELSE stored

At(p, pc) == proc[p].pc = pc

Go(p, r) == proc' = [proc EXCEPT ![p] = r]

GoTo(p, pc) == Go(p, [proc[p] EXCEPT !.pc = pc])

-----------------------------------------------------------------------------
(* CREATE and a restarted build: enqueue a job.                            *)

CreatePropertyIndexAsync(s) ==
    /\ At(s, "idle") /\ "create" \in Ops
    /\ ~catalog
    /\ Spend("enqueues", MaxEnqueues)
    /\ catalog' = TRUE
    /\ Go(s, [Idle EXCEPT !.pc = "revision", !.op = "create"])
    /\ UNCHANGED <<live, stored, rows, recs, due>>

RestartPropertyBuild(s) ==
    /\ At(s, "idle") /\ "restart" \in Ops
    /\ Spend("enqueues", MaxEnqueues)
    /\ catalog' = TRUE
    /\ Go(s, [Idle EXCEPT !.pc = "revision", !.op = "restart"])
    /\ UNCHANGED <<live, stored, rows, recs, due>>

(* The listing that finds the revision to use.                             *)
ReadRevision(s) ==
    /\ At(s, "revision")
    /\ Go(s, [proc[s] EXCEPT !.pc = "put",
              !.job = [rev |-> Newest.rev + 1, ckpt |-> 0, done |-> FALSE]])
    /\ UNCHANGED <<live, stored, rows, recs, catalog, due, used>>

(* If the listing fails, the job is enqueued all the same.                 *)
RevisionUnread(s) ==
    /\ At(s, "revision") /\ "revision" \in FaultAt
    /\ Spend("faults", MaxFaults)
    /\ Go(s, [proc[s] EXCEPT !.pc = "put",
              !.job = [rev |-> 1, ckpt |-> 0, done |-> FALSE]])
    /\ UNCHANGED <<live, stored, rows, recs, catalog, due>>

PutJob(s) ==
    /\ At(s, "put")
    /\ recs' = recs \cup {proc[s].job}
    /\ due' = live
    /\ Go(s, Idle)
    /\ UNCHANGED <<live, stored, rows, catalog, used>>

(* CREATE takes the index back, a restarted build leaves it.               *)
PutJobFails(s) ==
    /\ At(s, "put") /\ "put" \in FaultAt
    /\ Spend("faults", MaxFaults)
    /\ catalog' = IF proc[s].op = "create" THEN FALSE ELSE catalog
    /\ Go(s, Idle)
    /\ UNCHANGED <<live, stored, rows, recs, due>>

-----------------------------------------------------------------------------
(* DROP: delete the rows, complete the job, leave the catalog.             *)

DropPropertyIndex(s) ==
    /\ At(s, "idle") /\ "drop" \in Ops
    /\ catalog
    /\ Spend("drops", MaxDrops)
    /\ due' = {}
    /\ Go(s, [Idle EXCEPT !.pc = "collect", !.op = "drop"])
    /\ UNCHANGED <<live, stored, rows, recs, catalog>>

CollectEntries(s) ==
    /\ At(s, "collect")
    /\ Go(s, [proc[s] EXCEPT !.rows = rows,
              !.pc = IF rows = {} THEN "complete" ELSE "delete"])
    /\ UNCHANGED <<live, stored, rows, recs, catalog, due, used>>

(* All rows in one transaction or, when they do not fit, one by one.       *)
DeleteEntries(s) ==
    /\ At(s, "delete")
    /\ IF Cardinality(proc[s].rows) <= BatchLimit
       THEN DeletePropertyIndex(proc[s].rows) /\ GoTo(s, "complete")
       ELSE GoTo(s, "delete_one") /\ UNCHANGED <<rows, stored>>
    /\ UNCHANGED <<live, recs, catalog, due, used>>

DeleteOneEntry(s) ==
    /\ At(s, "delete_one")
    /\ \E r \in proc[s].rows :
        /\ DeletePropertyIndex({r})
        /\ Go(s, [proc[s] EXCEPT !.rows = @ \ {r},
                  !.pc = IF proc[s].rows = {r} THEN "complete" ELSE @])
    /\ UNCHANGED <<live, recs, catalog, due, used>>

CompleteJobs(s) ==
    /\ At(s, "complete")
    /\ Go(s, [proc[s] EXCEPT !.job = Newest,
              !.pc = IF Pending THEN "dequeue" ELSE "uncatalog"])
    /\ UNCHANGED <<live, stored, rows, recs, catalog, due, used>>

(* A completed state goes on record beside the pending one.                *)
DequeueJob(p) ==
    LET job == proc[p].job IN
    recs' = recs \cup {[rev |-> job.rev + 1, ckpt |-> job.ckpt, done |-> TRUE]}

DequeueDropped(s) ==
    /\ At(s, "dequeue")
    /\ DequeueJob(s)
    /\ GoTo(s, "uncatalog")
    /\ UNCHANGED <<live, stored, rows, catalog, due, used>>

RemovePropertyIndex(s) ==
    /\ At(s, "uncatalog")
    /\ catalog' = FALSE
    /\ Go(s, Idle)
    /\ UNCHANGED <<live, stored, rows, recs, due, used>>

-----------------------------------------------------------------------------
(* A pass over the pending job, by the worker or by a session that calls   *)
(* processPropertyBuildJobs.                                               *)

ProcessPendingJobs(p) ==
    /\ At(p, "idle") /\ (p = Worker \/ "process" \in Ops)
    /\ Pending
    /\ Go(p, [Idle EXCEPT !.pc = "add", !.job = Newest])
    /\ UNCHANGED <<live, stored, rows, recs, catalog, due, used>>

AddPropertyIndex(p) ==
    /\ At(p, "add")
    /\ catalog' = TRUE
    /\ GoTo(p, "scan")
    /\ UNCHANGED <<live, stored, rows, recs, due, used>>

(* Wrong: the scan starts one vertex too late.                             *)
AheadByOne(p) == {v \in Scanned : v > proc[p].job.ckpt + 1}

Ahead(p) == {v \in Scanned : v > proc[p].job.ckpt}

NextVertex(p) ==
    /\ At(p, "scan")
    /\ Go(p, IF Ahead(p) = {} THEN [proc[p] EXCEPT !.pc = "finish"]
             ELSE [proc[p] EXCEPT !.pc = "read", !.next = Min(Ahead(p))])
    /\ UNCHANGED <<live, stored, rows, recs, catalog, due, used>>

RowsAt(v) == RowsOf({e \in Entity : Home[e] = v})

ReadVertex(p) ==
    /\ At(p, "read")
    /\ Go(p, [proc[p] EXCEPT !.pc = "write", !.rows = RowsAt(proc[p].next)])
    /\ UNCHANGED <<live, stored, rows, recs, catalog, due, used>>

(* The commit.  When the rows of a source vertex do not fit a transaction, *)
(* they are read again and written one by one.                             *)
WriteRows(p) ==
    /\ At(p, "write")
    /\ IF Cardinality(proc[p].rows) <= BatchLimit
       THEN PutPropertyIndex(proc[p].rows) /\ GoTo(p, "save")
       ELSE LET again == RowsAt(proc[p].next) IN
            /\ Go(p, [proc[p] EXCEPT !.rows = again,
                      !.pc = IF again = {} THEN "save" ELSE "write_one"])
            /\ UNCHANGED <<rows, stored>>
    /\ UNCHANGED <<live, recs, catalog, due, used>>

(* Wrong: the rest is taken for written after one row.                     *)
WriteFirstRow(p) ==
    /\ At(p, "write_one")
    /\ \E r \in proc[p].rows : PutPropertyIndex({r}) /\ GoTo(p, "save")
    /\ UNCHANGED <<live, recs, catalog, due, used>>

WriteOneRow(p) ==
    /\ At(p, "write_one")
    /\ \E r \in proc[p].rows :
        /\ PutPropertyIndex({r})
        /\ Go(p, [proc[p] EXCEPT !.rows = @ \ {r},
                  !.pc = IF proc[p].rows = {r} THEN "save" ELSE @])
    /\ UNCHANGED <<live, recs, catalog, due, used>>

(* Wrong: the revision is counted in a pass and not in the job.            *)
NextStateOfPass(p) == [rev |-> proc[p].seen + 1, ckpt |-> proc[p].next, done |-> FALSE]

(* Wrong: the checkpoint is the vertex after the one that was indexed.     *)
NextStateBeyond(p) == [rev |-> proc[p].job.rev + 1, ckpt |-> proc[p].next + 1, done |-> FALSE]

NextState(p) == [rev |-> proc[p].job.rev + 1, ckpt |-> proc[p].next, done |-> FALSE]

(* Wrong: the checkpoint is kept by the pass and not put on record.        *)
ReplaceJobStateUnsaved(p) ==
    /\ At(p, "save")
    /\ Go(p, IF proc[p].seen + 1 = PassLimit THEN Idle
             ELSE [Idle EXCEPT !.pc = "scan", !.job = NextState(p),
                               !.seen = proc[p].seen + 1])
    /\ UNCHANGED <<live, stored, rows, recs, catalog, due, used>>

ReplaceJobState(p) ==
    /\ At(p, "save")
    /\ recs' = (recs \ {proc[p].job}) \cup {NextState(p)}
    /\ Go(p, IF proc[p].seen + 1 = PassLimit THEN Idle
             ELSE [Idle EXCEPT !.pc = "scan", !.job = NextState(p),
                               !.seen = proc[p].seen + 1])
    /\ UNCHANGED <<live, stored, rows, catalog, due, used>>

FinishJob(p) ==
    /\ At(p, "finish")
    /\ DequeueJob(p)
    /\ Go(p, Idle)
    /\ UNCHANGED <<live, stored, rows, catalog, due, used>>

(* A call of the store fails in a pass or in a DROP, which then returns.   *)
CallFails(p) ==
    /\ proc[p].pc \in FaultAt \ {"revision", "put"}
    /\ Spend("faults", MaxFaults)
    /\ Go(p, Idle)
    /\ UNCHANGED <<live, stored, rows, recs, catalog, due>>

-----------------------------------------------------------------------------
(* Writers of the graph, and a crash.                                      *)

(* A write deletes the property rows of an entity that exists and, of an   *)
(* edge, the index rows of the values it replaces; it adds no index row.   *)
(* X is the new property, empty when there is none.                        *)
PutEntity(e, X) ==
    LET replaced == IF e \in live THEN {e} \X Values(e) ELSE {} IN
    /\ Spend("writes", MaxWrites)
    /\ live' = live \cup {e}
    /\ stored' = (stored \ replaced) \cup ({e} \X X)
    /\ rows' = IF OnEdges THEN rows \ replaced ELSE rows
    /\ due' = due \ {e}
    /\ UNCHANGED <<recs, catalog, proc>>

(* The index rows of a vertex are found by their own forward rows, those   *)
(* of an edge by its properties.                                           *)
DeleteEntity(e) ==
    /\ e \in live
    /\ Spend("writes", MaxWrites)
    /\ live' = live \ {e}
    /\ stored' = stored \ ({e} \X Value)
    /\ rows' = rows \ ({e} \X Value)
    /\ due' = due \ {e}
    /\ UNCHANGED <<recs, catalog, proc>>

(* The server stops, and starts: the catalog is loaded from the            *)
(* configuration, and a configured index is filled before the worker       *)
(* starts.                                                                 *)
Crash ==
    /\ Spend("crashes", MaxCrashes)
    /\ catalog' = Configured
    /\ PutPropertyIndex(IF Configured THEN RowsOf(Entity) ELSE {})
    /\ proc' = [p \in Process |-> Idle]
    /\ UNCHANGED <<live, recs, due>>

-----------------------------------------------------------------------------

Properties == {{}} \cup {{x} : x \in Value}

Init ==
    /\ \E P \in [Entity -> Properties] :
        /\ live = {e \in Entity : P[e] # {}}
        /\ stored = UNION {{e} \X P[e] : e \in Entity}
    /\ rows = IF Configured THEN RowsOf(Entity) ELSE {}
    /\ recs = {}
    /\ catalog = Configured
    /\ proc = [p \in Process |-> Idle]
    /\ due = {}
    /\ used = [k \in Bounded |-> 0]

Enqueue(s) == \/ CreatePropertyIndexAsync(s) \/ RestartPropertyBuild(s)
              \/ ReadRevision(s) \/ RevisionUnread(s)
              \/ PutJob(s) \/ PutJobFails(s)

Drop(s) == \/ DropPropertyIndex(s) \/ CollectEntries(s)
           \/ DeleteEntries(s) \/ DeleteOneEntry(s)
           \/ CompleteJobs(s) \/ DequeueDropped(s) \/ RemovePropertyIndex(s)

Build(p) == \/ ProcessPendingJobs(p) \/ AddPropertyIndex(p)
            \/ NextVertex(p) \/ ReadVertex(p)
            \/ WriteRows(p) \/ WriteOneRow(p)
            \/ ReplaceJobState(p) \/ FinishJob(p)

Write == \E e \in Entity :
            DeleteEntity(e) \/ \E X \in Properties : PutEntity(e, X)

Next ==
    \/ \E s \in Session : Enqueue(s) \/ Drop(s)
    \/ \E p \in Process : Build(p) \/ CallFails(p)
    \/ Write
    \/ Crash

(* The worker is a loop on a ticker that outlives every failed pass, so it *)
(* is fair.  Sessions come and go, and no writer has to write.             *)
Spec == Init /\ [][Next]_vars /\ WF_vars(Build(Worker))

-----------------------------------------------------------------------------

TypeOK ==
    /\ live \subseteq Entity /\ due \subseteq Entity
    /\ stored \subseteq Rows /\ rows \subseteq Rows
    /\ recs \subseteq JobState
    /\ catalog \in BOOLEAN
    /\ proc \in [Process -> [pc : Label, op : Procedures, job : JobState,
                            next : 0 .. LastVertex, rows : SUBSET Rows, seen : Nat]]
    /\ used \in [Bounded -> Nat]

Indexed(E) == RowsOf(E) \subseteq rows

(* Whatever the newest state of the job says is behind it has its row, as  *)
(* long as it was not written since the build was asked for: a crash, a    *)
(* failing pass or a second process on the same job never moves the        *)
(* checkpoint past a vertex whose rows are not there                       *)
(* (processPendingPropertyIndexBuildJob).                                  *)
CheckpointCovers ==
    Indexed({e \in due : recs # {} /\ Home[e] <= Newest.ckpt})

(* A build that is on record as completed has a row for every entity that  *)
(* was not written since the build was asked for (README.md:128: the jobs  *)
(* are durable; dequeuePropertyIndexBuildJob completes them).              *)
BuildCovers == recs # {} /\ ~Pending => Indexed(due)

(* The property of an entity that nobody wrote since the build was asked   *)
(* for is what it was then.  The index row of an edge is its property, so  *)
(* the build rewrites every property it covers, from values read in an     *)
(* earlier step: a crash between two rows, a failed pass or a second       *)
(* process that holds rows of the same source must put nothing else there  *)
(* (backfillEdgePropertyIndexForVertex, PutPropertyIndex).                 *)
BuildsKeepProperties ==
    [][\A e \in due \cap due' : Values(e)' = Values(e)]_vars

(* The index is derived data: only a write of the graph changes a property *)
(* of an entity, and neither a build nor a DROP does.  Of an index of      *)
(* edges the code does not keep this (DeletePropertyIndex).                *)
OnlyWritesChangeProperties ==
    [][stored' # stored => used'["writes"] > used["writes"]]_vars

(* The newest state of the job is never replaced by one of an earlier      *)
(* revision, however many processes replace states of the job              *)
(* (replacePropertyIndexBuildJobState).                                    *)
JobNeverRewinds == [][Newest'.rev >= Newest.rev]_vars

(* A pending job is completed in the end, through crashes and failed       *)
(* passes, by the worker alone (index_ddl.go:101).                         *)
BuildFinishes == Pending ~> ~Pending

=============================================================================
