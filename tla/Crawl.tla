------------------------------- MODULE Crawl -------------------------------
(***************************************************************************)
(* The crawl: any number of executions of run_crawl (the scheduled job, a  *)
(* manual one, the smoke test's dry run), each a process of its own that   *)
(* walks through the adapters one after the other, writes to one shared    *)
(* database and may be killed anywhere.                                    *)
(*                                                                         *)
(* A commit ends "ok", "lost" (the client sees an error and nothing was    *)
(* written) or "unknown" (the client sees an error, yet the server had     *)
(* committed).  A run row is named by the execution and the adapter that   *)
(* insert it, which is what its uuid stands for.                           *)
(***************************************************************************)
EXTENDS Naturals, Sequences, FiniteSets

CONSTANTS Crawls,       \* executions of run_crawl
          NAdapters,    \* enabled adapters, in the order of sources.yaml
          NReferences,  \* enabled references, in the order of references.yaml
          Ids,          \* source_listing_ids
          Batches       \* what one fetch may return: sequences of ids

ASSUME NAdaptersAssumption == NAdapters \in Nat \ {0}
ASSUME NReferencesAssumption == NReferences \in Nat \ {0}
ASSUME BatchesAssumption == Batches \subseteq Seq(Ids)

VARIABLES
  \* the database
  runs,      \* crawl_runs
  rows,      \* listing_snapshots, per run: <<id, search_reference>> pairs
  clock,     \* the time of day, as a counter of the stamps taken from it
  \* one execution of run_crawl
  pc,        \* where it is
  dry,       \* --dry-run
  idx,       \* the adapter it is at
  unhealthy, \* the health check of that adapter said ERROR
  stamp,     \* started_at of the row about to be inserted
  ref,       \* the reference being fetched
  batch,     \* the listings fetched for it
  found, ok, failed,   \* the counters of _iterate
  tx,        \* the session's transaction
  result,    \* the SourceResults so far, and what metrics.record was told
  \* history
  offered    \* per run: the reference -> listings answers of its adapter

dbVars   == <<runs, rows, clock>>
iterVars == <<ref, batch, found, ok, failed>>
vars     == <<runs, rows, clock, pc, dry, idx, unhealthy, stamp, ref, batch,
              found, ok, failed, tx, result, offered>>

Adapters   == 1..NAdapters
References == 1..NReferences
RunIds     == Crawls \X Adapters

Statuses  == {"success", "partial", "failed"}
Published == {"success", "partial"}

RunRows == [status : Statuses \cup {"absent"}, started : Nat, found : Nat,
            finished : BOOLEAN]
SourceResults == [status : Statuses \cup {"none", "skipped"}, found : Nat]

Absent == [status |-> "absent", started |-> 0, found |-> 0, finished |-> FALSE]
NoResult == [status |-> "none", found |-> 0]

Ended == {"done", "aborted", "crashed"}
PCs   == {"idle", "health", "start_run", "start_commit", "fetch", "record",
          "record_commit", "except", "catastrophe", "finish", "finish_unhealthy",
          "finish_catastrophe", "write"} \cup Ended

TypeOK ==
  /\ runs \in [RunIds -> RunRows]
  /\ rows \in [RunIds -> SUBSET (Ids \X References)]
  /\ clock \in Nat
  /\ pc \in [Crawls -> PCs]
  /\ dry \in [Crawls -> BOOLEAN]
  /\ idx \in [Crawls -> Adapters]
  /\ unhealthy \in [Crawls -> BOOLEAN]
  /\ stamp \in [Crawls -> Nat]
  /\ ref \in [Crawls -> References]
  /\ batch \in [Crawls -> Seq(Ids)]
  /\ found \in [Crawls -> Nat]
  /\ ok \in [Crawls -> Nat]
  /\ failed \in [Crawls -> Nat]
  /\ tx \in [Crawls -> {"none", "open", "aborted"}]
  /\ result \in [Crawls -> [Adapters -> SourceResults]]
  /\ offered \in [RunIds -> SUBSET (References \X Seq(Ids))]

Init ==
  /\ runs = [r \in RunIds |-> Absent]
  /\ rows = [r \in RunIds |-> {}]
  /\ clock = 0
  /\ pc = [c \in Crawls |-> "idle"]
  /\ dry = [c \in Crawls |-> FALSE]
  /\ idx = [c \in Crawls |-> 1]
  /\ unhealthy = [c \in Crawls |-> FALSE]
  /\ stamp = [c \in Crawls |-> 0]
  /\ ref = [c \in Crawls |-> 1]
  /\ batch = [c \in Crawls |-> <<>>]
  /\ found = [c \in Crawls |-> 0]
  /\ ok = [c \in Crawls |-> 0]
  /\ failed = [c \in Crawls |-> 0]
  /\ tx = [c \in Crawls |-> "none"]
  /\ result = [c \in Crawls |-> [a \in Adapters |-> NoResult]]
  /\ offered = [r \in RunIds |-> {}]

----------------------------------------------------------------------------
(* Helpers                                                                 *)

Run(c) == <<c, idx[c]>>

IdsOf(b) == {b[k] : k \in DOMAIN b}

RowIds(r) == {row[1] : row \in rows[r]}

\* Mutant: the row starts out optimistic.
NewRunOptimistic(t) == [status |-> "success", started |-> t, found |-> 0, finished |-> FALSE]

\* The row start_run inserts: failed until it completes cleanly.
NewRun(t) == [status |-> "failed", started |-> t, found |-> 0, finished |-> FALSE]

\* Rows of the INSERT ... ON CONFLICT DO NOTHING of one reference: one per id of
\* the batch the run does not hold yet, whatever reference it came in under.
NewRows(r, k, b) == {<<i, k>> : i \in IdsOf(b) \ RowIds(r)}

\* Mutant: one reference that worked makes a success.
StatusOptimistic(nOk, nFailed) == IF nOk > 0 THEN "success" ELSE "failed"

\* _status
Status(nOk, nFailed) == IF nFailed = 0 THEN "success"
                        ELSE IF nOk = 0 THEN "failed" ELSE "partial"

Outcomes == {"ok", "lost", "unknown"}
Applied(o) == o \in {"ok", "unknown"}

\* The effects of the three commits on the database.
InsertRun(c)      == runs' = [runs EXCEPT ![Run(c)] = NewRun(stamp[c])]
InsertListings(c) == rows' = [rows EXCEPT ![Run(c)] = @ \cup NewRows(Run(c), ref[c], batch[c])]
UpdateRun(c, st, n) ==
  runs' = [runs EXCEPT ![Run(c)] = [status |-> st, started |-> @.started,
                                    found |-> n, finished |-> TRUE]]

Goto(c, label) == pc' = [pc EXCEPT ![c] = label]

\* The rest of run_crawl's loop body: note the result, take the next adapter or
\* leave the loop.  The session, if there was one, is closed.
Return(c, st, n) ==
  /\ result' = [result EXCEPT ![c][idx[c]] = [status |-> st, found |-> n]]
  /\ IF idx[c] < NAdapters
       THEN idx' = [idx EXCEPT ![c] = @ + 1] /\ Goto(c, "health")
       ELSE UNCHANGED idx /\ Goto(c, "write")
  /\ tx' = [tx EXCEPT ![c] = "none"]

\* The for loop of _iterate: the next reference, or out of the loop.
NextReference(c) ==
  IF ref[c] < NReferences
    THEN ref' = [ref EXCEPT ![c] = @ + 1] /\ Goto(c, "fetch")
    ELSE UNCHANGED ref /\ Goto(c, "finish")

\* Mutant: found = len(listings) for found += len(listings).
CountOkLast(c, b) == /\ ok' = [ok EXCEPT ![c] = @ + 1]
                     /\ found' = [found EXCEPT ![c] = Len(b)]

CountOk(c, b) == /\ ok' = [ok EXCEPT ![c] = @ + 1]
                 /\ found' = [found EXCEPT ![c] = @ + Len(b)]

\* The first lines of _iterate.
BeginIterate(c) ==
  /\ ref' = [ref EXCEPT ![c] = 1]
  /\ found' = [found EXCEPT ![c] = 0]
  /\ ok' = [ok EXCEPT ![c] = 0]
  /\ failed' = [failed EXCEPT ![c] = 0]

----------------------------------------------------------------------------
(* Actions of one execution                                                *)

\* The process starts, by schedule or by hand.
Launch(c) ==
  /\ pc[c] = "idle"
  /\ \E d \in BOOLEAN : dry' = [dry EXCEPT ![c] = d]
  /\ Goto(c, "health")
  /\ UNCHANGED <<dbVars, idx, unhealthy, stamp, iterVars, tx, result, offered>>

Skip(c) ==
  /\ pc[c] = "health"
  /\ Return(c, "skipped", 0)
  /\ UNCHANGED <<dbVars, dry, unhealthy, stamp, iterVars, offered>>

\* Mutant: the failure of an unhealthy source is recorded in a dry run too.
UnhealthyAlwaysRecorded(c) ==
  /\ pc[c] = "health"
  /\ unhealthy' = [unhealthy EXCEPT ![c] = TRUE]
  /\ Goto(c, "start_run")
  /\ UNCHANGED <<dbVars, dry, idx, stamp, iterVars, tx, result, offered>>

Unhealthy(c) ==
  /\ pc[c] = "health"
  /\ IF dry[c]
       THEN Return(c, "failed", 0) /\ UNCHANGED unhealthy
       ELSE /\ unhealthy' = [unhealthy EXCEPT ![c] = TRUE]
            /\ Goto(c, "start_run")
            /\ UNCHANGED <<idx, result, tx>>
  /\ UNCHANGED <<dbVars, dry, stamp, iterVars, offered>>

Healthy(c) ==
  /\ pc[c] = "health"
  /\ IF dry[c]
       THEN BeginIterate(c) /\ Goto(c, "fetch") /\ UNCHANGED unhealthy
       ELSE /\ unhealthy' = [unhealthy EXCEPT ![c] = FALSE]
            /\ Goto(c, "start_run")
            /\ UNCHANGED <<ref, found, ok, failed>>
  /\ UNCHANGED <<dbVars, dry, idx, stamp, batch, tx, result, offered>>

\* start_run: the row is stamped before it is committed, so two executions may
\* commit in the other order.
StartRun(c) ==
  /\ pc[c] = "start_run"
  /\ clock' = clock + 1
  /\ stamp' = [stamp EXCEPT ![c] = clock + 1]
  /\ tx' = [tx EXCEPT ![c] = "open"]
  /\ Goto(c, "start_commit")
  /\ UNCHANGED <<runs, rows, dry, idx, unhealthy, iterVars, result, offered>>

\* Nothing catches an error of start_run: run_crawl ends with it.
StartCommit(c) ==
  /\ pc[c] = "start_commit"
  /\ \E o \in Outcomes :
       /\ IF Applied(o) THEN InsertRun(c) ELSE UNCHANGED runs
       /\ IF o = "ok" /\ ~unhealthy[c]
            THEN BeginIterate(c) ELSE UNCHANGED <<ref, found, ok, failed>>
       /\ Goto(c, IF o # "ok" THEN "aborted"
                  ELSE IF unhealthy[c] THEN "finish_unhealthy" ELSE "fetch")
  /\ tx' = [tx EXCEPT ![c] = "none"]
  /\ UNCHANGED <<rows, clock, dry, idx, unhealthy, stamp, batch, result, offered>>

\* adapter.fetch returns.  Without a session, or without listings, there is
\* nothing to record and the reference counts as ok.
Fetch(c) ==
  /\ pc[c] = "fetch"
  /\ \E b \in Batches :
       IF dry[c] \/ b = <<>>
         THEN /\ CountOk(c, b)
              /\ NextReference(c)
              /\ offered' = IF dry[c] THEN offered
                            ELSE [offered EXCEPT ![Run(c)] = @ \cup {<<ref[c], b>>}]
              /\ UNCHANGED batch
         ELSE /\ batch' = [batch EXCEPT ![c] = b]
              /\ offered' = [offered EXCEPT ![Run(c)] = @ \cup {<<ref[c], b>>}]
              /\ Goto(c, "record")
              /\ UNCHANGED <<ref, found, ok>>
  /\ UNCHANGED <<dbVars, dry, idx, unhealthy, stamp, failed, tx, result>>

FetchRaises(c) ==
  /\ pc[c] = "fetch"
  /\ Goto(c, "except")
  /\ UNCHANGED <<dbVars, dry, idx, unhealthy, stamp, iterVars, tx, result, offered>>

\* record_listings up to its INSERT; a statement on an aborted transaction fails.
Record(c) ==
  /\ pc[c] = "record"
  /\ \/ /\ tx[c] # "aborted"
        /\ tx' = [tx EXCEPT ![c] = "open"]
        /\ Goto(c, "record_commit")
     \/ tx' = [tx EXCEPT ![c] = "aborted"] /\ Goto(c, "except")
  /\ UNCHANGED <<dbVars, dry, idx, unhealthy, stamp, iterVars, result, offered>>

\* The commit of record_listings, and the counting after it.
RecordCommit(c) ==
  /\ pc[c] = "record_commit"
  /\ \E o \in Outcomes :
       /\ IF Applied(o) THEN InsertListings(c) ELSE UNCHANGED rows
       /\ IF o = "ok"
            THEN CountOk(c, batch[c]) /\ NextReference(c) /\ tx' = [tx EXCEPT ![c] = "none"]
            ELSE /\ Goto(c, "except")
                 /\ tx' = [tx EXCEPT ![c] = "aborted"]
                 /\ UNCHANGED <<ref, found, ok>>
  /\ UNCHANGED <<runs, clock, dry, idx, unhealthy, stamp, batch, failed, result, offered>>

\* Mutant: no rollback before the next reference.
ExceptNoRollback(c) ==
  /\ pc[c] = "except"
  /\ failed' = [failed EXCEPT ![c] = @ + 1]
  /\ NextReference(c)
  /\ UNCHANGED <<dbVars, dry, idx, unhealthy, stamp, batch, found, ok, tx, result, offered>>

\* Mutant: a failed reference ends the loop.
ExceptBreaks(c) ==
  /\ pc[c] = "except"
  /\ failed' = [failed EXCEPT ![c] = @ + 1]
  /\ tx' = [tx EXCEPT ![c] = "none"] /\ Goto(c, "finish")
  /\ UNCHANGED <<dbVars, dry, idx, unhealthy, stamp, ref, batch, found, ok, result, offered>>

\* Mutant: a failed reference is tried again until it works.
ExceptRetries(c) ==
  /\ pc[c] = "except"
  /\ tx' = [tx EXCEPT ![c] = "none"] /\ Goto(c, "fetch")
  /\ UNCHANGED <<dbVars, dry, idx, unhealthy, stamp, iterVars, result, offered>>

\* The except clause of _iterate: count, roll back, go on with the next
\* reference.  The rollback of a broken transaction may itself raise.
Except(c) ==
  /\ pc[c] = "except"
  /\ failed' = [failed EXCEPT ![c] = @ + 1]
  /\ \/ tx' = [tx EXCEPT ![c] = "none"] /\ NextReference(c)
     \/ tx[c] = "aborted" /\ Goto(c, "catastrophe") /\ UNCHANGED <<tx, ref>>
  /\ UNCHANGED <<dbVars, dry, idx, unhealthy, stamp, batch, found, ok, result, offered>>

\* The except clause of _run_one starts with a rollback too.
Catastrophe(c) ==
  /\ pc[c] = "catastrophe"
  /\ \/ tx' = [tx EXCEPT ![c] = "none"] /\ Goto(c, "finish_catastrophe")
     \/ Goto(c, "aborted") /\ tx' = [tx EXCEPT ![c] = "none"]
  /\ UNCHANGED <<dbVars, dry, idx, unhealthy, stamp, iterVars, result, offered>>

\* Mutant: the last finish_run is inside the try.
FinishInsideTry(c) ==
  /\ pc[c] = "finish"
  /\ IF dry[c]
       THEN Return(c, Status(ok[c], failed[c]), found[c]) /\ UNCHANGED runs
       ELSE \E o \in Outcomes :
              /\ IF Applied(o) THEN UpdateRun(c, Status(ok[c], failed[c]), found[c])
                               ELSE UNCHANGED runs
              /\ IF o = "ok"
                   THEN Return(c, Status(ok[c], failed[c]), found[c])
                   ELSE Goto(c, "catastrophe") /\ UNCHANGED <<idx, tx, result>>
  /\ UNCHANGED <<rows, clock, dry, unhealthy, stamp, iterVars, offered>>

\* finish_run of a clean end: outside the try, so its error ends run_crawl even
\* when the row had been updated.
Finish(c) ==
  /\ pc[c] = "finish"
  /\ IF dry[c]
       THEN Return(c, Status(ok[c], failed[c]), found[c]) /\ UNCHANGED runs
       ELSE \E o \in Outcomes :
              /\ IF Applied(o) THEN UpdateRun(c, Status(ok[c], failed[c]), found[c])
                               ELSE UNCHANGED runs
              /\ IF o = "ok"
                   THEN Return(c, Status(ok[c], failed[c]), found[c])
                   ELSE Goto(c, "aborted") /\ UNCHANGED <<idx, tx, result>>
  /\ UNCHANGED <<rows, clock, dry, unhealthy, stamp, iterVars, offered>>

\* finish_run of an unhealthy source: nothing catches its error either.
FinishUnhealthy(c) ==
  /\ pc[c] = "finish_unhealthy"
  /\ \E o \in Outcomes :
       /\ IF Applied(o) THEN UpdateRun(c, "failed", 0) ELSE UNCHANGED runs
       /\ IF o = "ok" THEN Return(c, "failed", 0)
                      ELSE Goto(c, "aborted") /\ UNCHANGED <<idx, tx, result>>
  /\ UNCHANGED <<rows, clock, dry, unhealthy, stamp, iterVars, offered>>

\* finish_run after a catastrophe: its error is logged and the source returns.
\* On an aborted transaction it cannot succeed.
FinishCatastrophe(c) ==
  /\ pc[c] = "finish_catastrophe"
  /\ \E o \in Outcomes :
       /\ tx[c] = "aborted" => o = "lost"
       /\ IF Applied(o) THEN UpdateRun(c, "failed", 0) ELSE UNCHANGED runs
  /\ Return(c, "failed", 0)
  /\ UNCHANGED <<rows, clock, dry, unhealthy, stamp, iterVars, offered>>

\* metrics.write and the return of run_crawl; writing the file can raise.
Write(c) ==
  /\ pc[c] = "write"
  /\ Goto(c, "done") \/ Goto(c, "aborted")
  /\ UNCHANGED <<dbVars, dry, idx, unhealthy, stamp, iterVars, tx, result, offered>>

\* Mutant: non-zero only when every source failed.
ExitZeroAny(c) == pc[c] = "done" /\ \E a \in Adapters : result[c][a].status # "failed"

\* The exit code of "assay crawl"; an exception or a kill is non-zero too.
ExitZero(c) == pc[c] = "done" /\ \A a \in Adapters : result[c][a].status # "failed"

\* The process is killed.  A commit in flight may be carried out all the same.
Crash(c) ==
  /\ pc[c] \notin {"idle"} \cup Ended
  /\ Goto(c, "crashed")
  /\ \/ UNCHANGED <<runs, rows>>
     \/ pc[c] = "start_commit" /\ InsertRun(c) /\ UNCHANGED rows
     \/ pc[c] = "record_commit" /\ InsertListings(c) /\ UNCHANGED runs
     \/ /\ pc[c] = "finish" /\ ~dry[c]
        /\ UpdateRun(c, Status(ok[c], failed[c]), found[c]) /\ UNCHANGED rows
     \/ /\ pc[c] \in {"finish_unhealthy", "finish_catastrophe"}
        /\ UpdateRun(c, "failed", 0) /\ UNCHANGED rows
  /\ tx' = [tx EXCEPT ![c] = "none"]
  /\ UNCHANGED <<clock, dry, idx, unhealthy, stamp, iterVars, result, offered>>

Step(c) == \/ Skip(c) \/ Unhealthy(c) \/ Healthy(c)
           \/ StartRun(c) \/ StartCommit(c)
           \/ Fetch(c) \/ FetchRaises(c) \/ Record(c) \/ RecordCommit(c)
           \/ Except(c) \/ Catastrophe(c)
           \/ Finish(c) \/ FinishUnhealthy(c) \/ FinishCatastrophe(c)
           \/ Write(c)

Next == \E c \in Crawls : Launch(c) \/ Step(c) \/ Crash(c)

Spec == Init /\ [][Next]_vars

\* A launched process is scheduled and every request it makes times out, so it
\* always takes its next step; nothing obliges anyone to launch one.
FairSpec == Spec /\ \A c \in Crawls : WF_vars(Step(c))

----------------------------------------------------------------------------
(* The promise kept                                                        *)

Phase(r) == IF runs[r].status = "absent" THEN "absent"
            ELSE IF runs[r].status \in Published THEN "published"
            ELSE IF runs[r].finished THEN "closed" ELSE "open"

Log == INSTANCE SnapshotLog WITH
         Runs <- RunIds, Sources <- Adapters, Rows <- Ids \X References,
         SourceOf <- [r \in RunIds |-> r[2]],
         phase <- [r \in RunIds |-> Phase(r)],
         started <- [r \in RunIds |-> runs[r].started],
         rows <- rows

\* Whatever executions overlap, fail and crash, the tables change only as the
\* snapshot log allows.
ImplementsLog == Log!Spec

----------------------------------------------------------------------------
(* Properties                                                              *)

\* Listings the source gave a run, and those of one reference.
OfferedIds(r) == UNION {IdsOf(o[2]) : o \in offered[r]}
Answered(r)   == {o[1] : o \in offered[r]}

\* A success row tells the truth: every enabled reference was answered and every
\* listing of every answer has its row.  A partial row keeps its half of it: some
\* reference was answered and has all its listings.
StatusIsTruthful ==
  \A r \in RunIds :
    /\ runs[r].status = "success" => /\ Answered(r) = References
                                     /\ RowIds(r) = OfferedIds(r)
    /\ runs[r].status = "partial" => \E o \in offered[r] : IdsOf(o[2]) \subseteq RowIds(r)

\* listings_found of a success counts every row of the run at least once (and
\* more when a listing came twice), so it never reads lower than the data.
FoundCoversRows ==
  /\ TypeOK
  /\ \A r \in RunIds : runs[r].status = "success" => Cardinality(rows[r]) <= runs[r].found

\* No transaction is left open across a fetch (Postgres would end the
\* connection), nor an aborted one before the statements that close the run.
SessionIsClean ==
  \A c \in Crawls :
    pc[c] \in {"fetch", "finish", "finish_unhealthy", "finish_catastrophe"} => tx[c] = "none"

\* What the process reports for a source (log, metric, exit code) is what its row
\* in crawl_runs says, for every adapter it has left, except after a failed attempt
\* to record a catastrophe, where both still say failed.
ReportMatchesRow ==
  \A c \in Crawls, a \in Adapters :
    ~dry[c] /\ result[c][a].status \in Statuses
      => /\ runs[<<c, a>>].status = result[c][a].status
         /\ runs[<<c, a>>].found = result[c][a].found

\* An execution that exits 0 leaves no failed row behind.
ExitZeroMeansNoFailedRow ==
  \A c \in Crawls : ExitZero(c) => \A a \in Adapters : runs[<<c, a>>].status # "failed"

\* A dry run writes nothing, whatever the health checks and fetches do.
DryRunWritesNothing ==
  \A c \in Crawls : dry[c] => \A a \in Adapters : /\ runs[<<c, a>>] = Absent
                                                   /\ rows[<<c, a>>] = {}

\* A row of crawl_runs is updated once: after its terminal status it stays.
FinishedRunsFrozen == Log!FinishedRunsFrozen

\* Overlapping executions never move a source's current data backwards.
ReadersMoveForward == Log!ReadersMoveForward

\* A reference that fails does not end the source: as long as the database
\* accepts rollbacks the run reaches its end with every reference tried.
EveryReferenceTried ==
  \A c \in Crawls : pc[c] = "finish" => ok[c] + failed[c] = NReferences

\* A launched execution ends.
Terminates == \A c \in Crawls : pc[c] = "health" ~> pc[c] \in Ended

----------------------------------------------------------------------------
(* The inductive invariant behind the theorems of CrawlProofs              *)

Recording == {"record", "record_commit"}

\* A row of crawl_runs is being worked on.
HasRow == {"fetch", "except", "catastrophe", "finish", "finish_unhealthy",
           "finish_catastrophe"} \cup Recording

Untouched(r) == runs[r] = Absent /\ rows[r] = {} /\ offered[r] = {}

\* Which rows of crawl_runs an execution has inserted, and that the one it works
\* on is still open.
Lifecycle(c) ==
  /\ pc[c] \in HasRow /\ ~dry[c] => /\ runs[Run(c)].status = "failed"
                                    /\ runs[Run(c)].found = 0
                                    /\ ~runs[Run(c)].finished
  /\ pc[c] \in {"idle", "health", "start_run", "start_commit"} \/ dry[c] => Untouched(Run(c))
  /\ pc[c] \notin Ended \cup {"write"} \/ dry[c]
       => \A a \in Adapters : a > idx[c] => Untouched(<<c, a>>)
  /\ dry[c] => \A a \in Adapters : Untouched(<<c, a>>)
  /\ pc[c] \in {"start_run", "start_commit", "catastrophe", "finish_unhealthy",
                "finish_catastrophe"} \cup Recording => ~dry[c]
  /\ pc[c] = "idle" => idx[c] = 1

\* The session: a transaction is open or aborted only between an INSERT and the
\* commit or rollback that follows it.
SessionInv(c) ==
  /\ pc[c] \in {"start_commit", "record_commit", "except", "catastrophe"} \/ tx[c] = "none"
  /\ dry[c] => tx[c] = "none"

\* The results are those of the adapters left, and say what their rows say.
ResultInv(c) ==
  /\ pc[c] \notin Ended \cup {"write"} => \A a \in Adapters : a >= idx[c] => result[c][a] = NoResult
  /\ \A a \in Adapters : ~dry[c] /\ result[c][a].status \in Statuses
        => /\ runs[<<c, a>>].status = result[c][a].status
           /\ runs[<<c, a>>].found = result[c][a].found

\* What the run holds against what the source returned, reference by reference.
SomeAnswerKept(r) == \E o \in offered[r] : IdsOf(o[2]) \subseteq RowIds(r)
Complete(r, n)    == Answered(r) = 1..n /\ RowIds(r) = OfferedIds(r)

ProgressInv(c) ==
  ~dry[c] =>
    /\ pc[c] = "fetch" /\ failed[c] = 0 => Complete(Run(c), ref[c] - 1)
    /\ pc[c] \in Recording => /\ <<ref[c], batch[c]>> \in offered[Run(c)]
                              /\ failed[c] = 0 =>
                                   /\ Answered(Run(c)) = 1..ref[c]
                                   /\ OfferedIds(Run(c)) = RowIds(Run(c)) \cup IdsOf(batch[c])
    /\ pc[c] = "finish" /\ failed[c] = 0 => Complete(Run(c), NReferences)
    /\ pc[c] \in Recording \cup {"fetch", "except", "finish"} /\ ok[c] > 0
         => SomeAnswerKept(Run(c))

IInv == /\ TypeOK
        /\ StatusIsTruthful
        /\ \A c \in Crawls : Lifecycle(c) /\ SessionInv(c) /\ ResultInv(c) /\ ProgressInv(c)
=============================================================================
