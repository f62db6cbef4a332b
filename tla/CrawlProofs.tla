---------------------------- MODULE CrawlProofs ----------------------------
(* Theorems about Crawl, for every number of executions, adapters,         *)
(* references and listings.                                                *)
EXTENDS Crawl, FiniteSetTheorems, TLAPS

USE NAdaptersAssumption, NReferencesAssumption, BatchesAssumption

----------------------------------------------------------------------------
(* Type correctness                                                        *)

LEMMA StatusType == \A m, n : Status(m, n) \in Statuses
  BY DEF Status, Statuses

\* The continuation of run_crawl's loop keeps the types of what it changes.
LEMMA ReturnType ==
  ASSUME TypeOK, NEW c \in Crawls, NEW st \in Statuses \cup {"skipped"}, NEW n \in Nat,
         Return(c, st, n)
  PROVE  /\ pc' \in [Crawls -> PCs]
         /\ idx' \in [Crawls -> Adapters]
         /\ tx' \in [Crawls -> {"none", "open", "aborted"}]
         /\ result' \in [Crawls -> [Adapters -> SourceResults]]
<1>1. pc' \in [Crawls -> PCs]
  BY DEF TypeOK, Return, Goto, PCs
<1>2. idx' \in [Crawls -> Adapters]
  <2>1. idx \in [Crawls -> Adapters]
    BY DEF TypeOK
  <2> QED
    BY <2>1 DEF Return, Adapters
<1>3. tx' \in [Crawls -> {"none", "open", "aborted"}]
  BY DEF TypeOK, Return
<1>4. result' \in [Crawls -> [Adapters -> SourceResults]]
  <2>1. [status |-> st, found |-> n] \in SourceResults
    BY DEF SourceResults
  <2>2. result \in [Crawls -> [Adapters -> SourceResults]]
    BY DEF TypeOK
  <2>3. result' = [result EXCEPT ![c][idx[c]] = [status |-> st, found |-> n]]
    BY DEF Return
  <2> QED
    BY <2>1, <2>2, <2>3
<1> QED
  BY <1>1, <1>2, <1>3, <1>4

LEMMA NextReferenceType ==
  ASSUME TypeOK, NEW c \in Crawls, NextReference(c)
  PROVE  ref' \in [Crawls -> References] /\ pc' \in [Crawls -> PCs]
<1>1. ref \in [Crawls -> References] /\ pc \in [Crawls -> PCs]
  BY DEF TypeOK
<1>2. ref' \in [Crawls -> References]
  BY <1>1 DEF NextReference, References
<1>3. pc' \in [Crawls -> PCs]
  BY <1>1 DEF NextReference, Goto, PCs
<1> QED
  BY <1>2, <1>3

LEMMA BeginIterateType ==
  ASSUME TypeOK, NEW c \in Crawls, BeginIterate(c)
  PROVE  /\ ref' \in [Crawls -> References] /\ found' \in [Crawls -> Nat]
         /\ ok' \in [Crawls -> Nat] /\ failed' \in [Crawls -> Nat]
<1>1. 1 \in References
  BY DEF References
<1> QED
  BY <1>1 DEF TypeOK, BeginIterate

LEMMA UpdateRunType ==
  ASSUME TypeOK, NEW c \in Crawls, NEW st \in Statuses, NEW n \in Nat, UpdateRun(c, st, n)
  PROVE  runs' \in [RunIds -> RunRows]
<1>1. ASSUME Run(c) \in RunIds
      PROVE  [status |-> st, started |-> runs[Run(c)].started, found |-> n, finished |-> TRUE]
               \in RunRows
  BY <1>1 DEF TypeOK, RunRows
<1> QED
  BY <1>1 DEF TypeOK, UpdateRun

LEMMA InsertRunType ==
  ASSUME TypeOK, NEW c \in Crawls, InsertRun(c)
  PROVE  runs' \in [RunIds -> RunRows]
<1>1. NewRun(stamp[c]) \in RunRows
  BY DEF TypeOK, NewRun, RunRows, Statuses
<1> QED
  BY <1>1 DEF TypeOK, InsertRun

LEMMA InsertListingsType ==
  ASSUME TypeOK, NEW c \in Crawls, InsertListings(c)
  PROVE  rows' \in [RunIds -> SUBSET (Ids \X References)]
<1>1. IdsOf(batch[c]) \subseteq Ids
  BY DEF TypeOK, IdsOf
<1>2. NewRows(Run(c), ref[c], batch[c]) \subseteq Ids \X References
  BY <1>1 DEF TypeOK, NewRows
<1> QED
  BY <1>2 DEF TypeOK, InsertListings, Run, RunIds

LEMMA CountOkType ==
  ASSUME TypeOK, NEW c \in Crawls, NEW b \in Seq(Ids), CountOk(c, b)
  PROVE  ok' \in [Crawls -> Nat] /\ found' \in [Crawls -> Nat]
BY DEF TypeOK, CountOk

LEMMA OfferedType ==
  ASSUME TypeOK, NEW c \in Crawls, NEW b \in Seq(Ids),
         offered' = [offered EXCEPT ![Run(c)] = @ \cup {<<ref[c], b>>}]
  PROVE  offered' \in [RunIds -> SUBSET (References \X Seq(Ids))]
BY DEF TypeOK, Run, RunIds

LEMMA TypeInit == Init => TypeOK
<1> SUFFICES ASSUME Init PROVE TypeOK
  OBVIOUS
<1>1. Absent \in RunRows /\ NoResult \in SourceResults
  BY DEF Absent, NoResult, RunRows, SourceResults
<1>2. 1 \in Adapters /\ 1 \in References
  BY DEF Adapters, References
<1> QED
  BY <1>1, <1>2 DEF Init, TypeOK, PCs

LEMMA TypeStep == TypeOK /\ [Next]_vars => TypeOK'
<1> SUFFICES ASSUME TypeOK, [Next]_vars PROVE TypeOK'
  OBVIOUS
<1> USE DEF dbVars, iterVars
<1>0. CASE UNCHANGED vars
  BY <1>0 DEF TypeOK, vars
<1> SUFFICES ASSUME NEW c \in Crawls, Launch(c) \/ Step(c) \/ Crash(c) PROVE TypeOK'
  BY <1>0 DEF Next
<1>1. CASE Launch(c)
  BY <1>1 DEF Launch, TypeOK, Goto, PCs
<1>2. CASE Skip(c)
  BY <1>2, ReturnType DEF Skip, TypeOK
<1>3. CASE Unhealthy(c)
  <2>1. CASE dry[c]
    BY <1>3, <2>1, ReturnType DEF Unhealthy, TypeOK, Statuses
  <2>2. CASE ~dry[c]
    BY <1>3, <2>2 DEF Unhealthy, TypeOK, Goto, PCs
  <2> QED
    BY <2>1, <2>2
<1>4. CASE Healthy(c)
  <2>1. pc' \in [Crawls -> PCs] /\ unhealthy' \in [Crawls -> BOOLEAN]
    BY <1>4 DEF Healthy, TypeOK, Goto, PCs
  <2>2. BeginIterate(c) \/ UNCHANGED <<ref, found, ok, failed>>
    BY <1>4 DEF Healthy
  <2> QED
    BY <1>4, <2>1, <2>2, BeginIterateType DEF Healthy, TypeOK
<1>5. CASE StartRun(c)
  BY <1>5 DEF StartRun, TypeOK, Goto, PCs
<1>6. CASE StartCommit(c)
  <2>1. runs' \in [RunIds -> RunRows]
    <3>1. runs' = runs \/ InsertRun(c)
      BY <1>6 DEF StartCommit
    <3> QED
      BY <3>1, InsertRunType DEF TypeOK
  <2>2. /\ ref' \in [Crawls -> References] /\ found' \in [Crawls -> Nat]
        /\ ok' \in [Crawls -> Nat] /\ failed' \in [Crawls -> Nat]
    <3>1. BeginIterate(c) \/ UNCHANGED <<ref, found, ok, failed>>
      BY <1>6 DEF StartCommit
    <3> QED
      BY <3>1, BeginIterateType DEF TypeOK
  <2>3. pc' \in [Crawls -> PCs] /\ tx' \in [Crawls -> {"none", "open", "aborted"}]
    <3>1. PICK l \in PCs : Goto(c, l)
      BY <1>6 DEF StartCommit, PCs, Ended
    <3> QED
      BY <1>6, <3>1 DEF StartCommit, TypeOK, Goto
  <2> QED
    BY <1>6, <2>1, <2>2, <2>3 DEF StartCommit, TypeOK
<1>7. CASE Fetch(c)
  <2> PICK b \in Batches :
       IF dry[c] \/ b = <<>>
         THEN /\ CountOk(c, b)
              /\ NextReference(c)
              /\ offered' = IF dry[c] THEN offered
                            ELSE [offered EXCEPT ![Run(c)] = @ \cup {<<ref[c], b>>}]
              /\ UNCHANGED batch
         ELSE /\ batch' = [batch EXCEPT ![c] = b]
              /\ offered' = [offered EXCEPT ![Run(c)] = @ \cup {<<ref[c], b>>}]
              /\ Goto(c, "record")
              /\ UNCHANGED <<ref, found, ok>>
    BY <1>7 DEF Fetch
  <2>1. b \in Seq(Ids)
    OBVIOUS
  <2>2. offered' \in [RunIds -> SUBSET (References \X Seq(Ids))]
    BY <2>1, OfferedType DEF TypeOK
  <2>3. CASE dry[c] \/ b = <<>>
    BY <1>7, <2>1, <2>2, <2>3, CountOkType, NextReferenceType DEF Fetch, TypeOK
  <2>4. CASE ~(dry[c] \/ b = <<>>)
    <3>1. batch' = [batch EXCEPT ![c] = b] /\ Goto(c, "record") /\ UNCHANGED <<ref, found, ok>>
      BY <2>4
    <3>2. batch' \in [Crawls -> Seq(Ids)]
      BY <2>1, <3>1 DEF TypeOK
    <3>3. pc' \in [Crawls -> PCs]
      BY <3>1 DEF TypeOK, Goto, PCs
    <3> QED
      BY <1>7, <2>2, <3>1, <3>2, <3>3 DEF Fetch, TypeOK
  <2> QED
    BY <2>3, <2>4
<1>8. CASE FetchRaises(c)
  BY <1>8 DEF FetchRaises, TypeOK, Goto, PCs
<1>9. CASE Record(c)
  BY <1>9 DEF Record, TypeOK, Goto, PCs
<1>10. CASE RecordCommit(c)
  <2>1. rows' \in [RunIds -> SUBSET (Ids \X References)]
    <3>1. rows' = rows \/ InsertListings(c)
      BY <1>10 DEF RecordCommit
    <3> QED
      BY <3>1, InsertListingsType DEF TypeOK
  <2>2. tx' \in [Crawls -> {"none", "open", "aborted"}]
    BY <1>10 DEF RecordCommit, TypeOK
  <2>3. batch[c] \in Seq(Ids)
    BY DEF TypeOK
  <2>4. CASE CountOk(c, batch[c]) /\ NextReference(c)
    BY <1>10, <2>1, <2>2, <2>3, <2>4, CountOkType, NextReferenceType DEF RecordCommit, TypeOK
  <2>5. CASE Goto(c, "except") /\ UNCHANGED <<ref, found, ok>>
    BY <1>10, <2>1, <2>2, <2>5 DEF RecordCommit, TypeOK, Goto, PCs
  <2> QED
    BY <1>10, <2>4, <2>5 DEF RecordCommit
<1>11. CASE Except(c)
  <2>1. failed' \in [Crawls -> Nat] /\ tx' \in [Crawls -> {"none", "open", "aborted"}]
    <3>1. failed' = [failed EXCEPT ![c] = @ + 1]
      BY <1>11 DEF Except
    <3>2. tx' = [tx EXCEPT ![c] = "none"] \/ tx' = tx
      BY <1>11 DEF Except
    <3>3. tx' \in [Crawls -> {"none", "open", "aborted"}]
      BY <3>2 DEF TypeOK
    <3>4. failed' \in [Crawls -> Nat]
      BY <3>1 DEF TypeOK
    <3> QED
      BY <3>3, <3>4
  <2>2. CASE NextReference(c)
    BY <1>11, <2>1, <2>2, NextReferenceType DEF Except, TypeOK
  <2>3. CASE Goto(c, "catastrophe") /\ UNCHANGED <<tx, ref>>
    BY <1>11, <2>1, <2>3 DEF Except, TypeOK, Goto, PCs
  <2> QED
    BY <1>11, <2>2, <2>3 DEF Except
<1>12. CASE Catastrophe(c)
  BY <1>12 DEF Catastrophe, TypeOK, Goto, PCs, Ended
<1>13. CASE Finish(c)
  <2> DEFINE st == Status(ok[c], failed[c])
  <2>1. st \in Statuses /\ found[c] \in Nat
    BY StatusType DEF TypeOK
  <2>2. runs' = runs \/ UpdateRun(c, st, found[c])
    BY <1>13 DEF Finish
  <2>3. Return(c, st, found[c]) \/ (Goto(c, "aborted") /\ UNCHANGED <<idx, tx, result>>)
    BY <1>13 DEF Finish
  <2>4. runs' \in [RunIds -> RunRows]
    BY <2>1, <2>2, UpdateRunType DEF TypeOK
  <2>5. CASE Return(c, st, found[c])
    <3> HIDE DEF st
    <3> QED
      BY <1>13, <2>1, <2>4, <2>5, ReturnType DEF Finish, TypeOK
  <2>6. CASE Goto(c, "aborted") /\ UNCHANGED <<idx, tx, result>>
    BY <1>13, <2>4, <2>6 DEF Finish, TypeOK, Goto, PCs, Ended
  <2> QED
    BY <2>3, <2>5, <2>6
<1>14. CASE FinishUnhealthy(c)
  <2>1. runs' = runs \/ UpdateRun(c, "failed", 0)
    BY <1>14 DEF FinishUnhealthy
  <2>2. runs' \in [RunIds -> RunRows]
    BY <2>1, UpdateRunType DEF TypeOK, Statuses
  <2>3. CASE Return(c, "failed", 0)
    BY <1>14, <2>2, <2>3, ReturnType DEF FinishUnhealthy, TypeOK, Statuses
  <2>4. CASE Goto(c, "aborted") /\ UNCHANGED <<idx, tx, result>>
    BY <1>14, <2>2, <2>4 DEF FinishUnhealthy, TypeOK, Goto, PCs, Ended
  <2> QED
    BY <1>14, <2>3, <2>4 DEF FinishUnhealthy
<1>15. CASE FinishCatastrophe(c)
  <2>1. runs' = runs \/ UpdateRun(c, "failed", 0)
    BY <1>15 DEF FinishCatastrophe
  <2>2. runs' \in [RunIds -> RunRows]
    BY <2>1, UpdateRunType DEF TypeOK, Statuses
  <2> QED
    BY <1>15, <2>2, ReturnType DEF FinishCatastrophe, TypeOK, Statuses
<1>16. CASE Write(c)
  BY <1>16 DEF Write, TypeOK, Goto, PCs, Ended
<1>17. CASE Crash(c)
  <2>1. /\ pc' \in [Crawls -> PCs]
        /\ tx' \in [Crawls -> {"none", "open", "aborted"}]
    BY <1>17 DEF Crash, TypeOK, Goto, PCs, Ended
  <2>2. runs' \in [RunIds -> RunRows]
    <3>1. \/ runs' = runs \/ InsertRun(c) \/ UpdateRun(c, "failed", 0)
          \/ UpdateRun(c, Status(ok[c], failed[c]), found[c])
      BY <1>17 DEF Crash
    <3> QED
      <4>1. Status(ok[c], failed[c]) \in Statuses /\ "failed" \in Statuses
        BY StatusType DEF Statuses
      <4>2. found[c] \in Nat /\ runs \in [RunIds -> RunRows]
        BY DEF TypeOK
      <4> QED
        BY <3>1, <4>1, <4>2, InsertRunType, UpdateRunType
  <2>3. rows' \in [RunIds -> SUBSET (Ids \X References)]
    BY <1>17, InsertListingsType DEF Crash, TypeOK
  <2> QED
    BY <1>17, <2>1, <2>2, <2>3 DEF Crash, TypeOK
<1> QED
  BY <1>1, <1>2, <1>3, <1>4, <1>5, <1>6, <1>7, <1>8, <1>9, <1>10, <1>11, <1>12, <1>13,
     <1>14, <1>15, <1>16, <1>17 DEF Step

\* Every variable keeps its type, whatever fails.
THEOREM TypeCorrect == Spec => []TypeOK
BY TypeInit, TypeStep, PTL DEF Spec

----------------------------------------------------------------------------
(* A step of one execution is local to it                                  *)

Act(c) == Launch(c) \/ Step(c) \/ Crash(c)

\* Nothing of another execution and no other run row changes.
Local(c) ==
  /\ pc' = [pc EXCEPT ![c] = pc'[c]]
  /\ dry' = [dry EXCEPT ![c] = dry'[c]]
  /\ idx' = [idx EXCEPT ![c] = idx'[c]]
  /\ ref' = [ref EXCEPT ![c] = ref'[c]]
  /\ batch' = [batch EXCEPT ![c] = batch'[c]]
  /\ ok' = [ok EXCEPT ![c] = ok'[c]]
  /\ failed' = [failed EXCEPT ![c] = failed'[c]]
  /\ tx' = [tx EXCEPT ![c] = tx'[c]]
  /\ result' = [result EXCEPT ![c] = result'[c]]
  /\ runs' = [runs EXCEPT ![Run(c)] = runs'[Run(c)]]
  /\ rows' = [rows EXCEPT ![Run(c)] = rows'[Run(c)]]
  /\ offered' = [offered EXCEPT ![Run(c)] = offered'[Run(c)]]

LEMMA LocalStep == ASSUME TypeOK, NEW c \in Crawls, Act(c) PROVE Local(c)
<1> USE DEF dbVars, iterVars
<1>0. Run(c) \in RunIds
  BY DEF TypeOK, Run, RunIds
<1>1. /\ pc \in [Crawls -> PCs] /\ dry \in [Crawls -> BOOLEAN]
      /\ idx \in [Crawls -> Adapters] /\ ref \in [Crawls -> References]
      /\ batch \in [Crawls -> Seq(Ids)] /\ ok \in [Crawls -> Nat]
      /\ failed \in [Crawls -> Nat] /\ tx \in [Crawls -> {"none", "open", "aborted"}]
      /\ result \in [Crawls -> [Adapters -> SourceResults]]
      /\ runs \in [RunIds -> RunRows]
      /\ rows \in [RunIds -> SUBSET (Ids \X References)]
      /\ offered \in [RunIds -> SUBSET (References \X Seq(Ids))]
  BY DEF TypeOK
<1> USE <1>0, <1>1
<1> USE DEF Act, Step, Launch, Skip, Unhealthy, Healthy, StartRun, StartCommit, Fetch,
            FetchRaises, Record, RecordCommit, Except, Catastrophe, Finish, FinishUnhealthy,
            FinishCatastrophe, Write, Crash
<1>2. pc' = [pc EXCEPT ![c] = pc'[c]]
  <2>1. pc' = pc \/ \E w : pc' = [pc EXCEPT ![c] = w]
    BY DEF Goto, Return, NextReference
  <2> QED
    BY <2>1
<1>3. dry' = [dry EXCEPT ![c] = dry'[c]]
  <2>1. dry' = dry \/ \E w : dry' = [dry EXCEPT ![c] = w]
    OBVIOUS
  <2> QED
    BY <2>1
<1>4. idx' = [idx EXCEPT ![c] = idx'[c]]
  <2>1. idx' = idx \/ \E w : idx' = [idx EXCEPT ![c] = w]
    BY DEF Return
  <2> QED
    BY <2>1
<1>5. ref' = [ref EXCEPT ![c] = ref'[c]]
  <2>1. ref' = ref \/ \E w : ref' = [ref EXCEPT ![c] = w]
    BY DEF NextReference, BeginIterate
  <2> QED
    BY <2>1
<1>6. batch' = [batch EXCEPT ![c] = batch'[c]]
  <2>1. batch' = batch \/ \E w : batch' = [batch EXCEPT ![c] = w]
    OBVIOUS
  <2> QED
    BY <2>1
<1>7. ok' = [ok EXCEPT ![c] = ok'[c]]
  <2>1. ok' = ok \/ \E w : ok' = [ok EXCEPT ![c] = w]
    BY DEF CountOk, BeginIterate
  <2> QED
    BY <2>1
<1>8. failed' = [failed EXCEPT ![c] = failed'[c]]
  <2>1. failed' = failed \/ \E w : failed' = [failed EXCEPT ![c] = w]
    BY DEF BeginIterate
  <2> QED
    BY <2>1
<1>9. tx' = [tx EXCEPT ![c] = tx'[c]]
  <2>1. tx' = tx \/ \E w : tx' = [tx EXCEPT ![c] = w]
    BY DEF Return
  <2> QED
    BY <2>1
<1>10. result' = [result EXCEPT ![c] = result'[c]]
  <2>1. result' = result \/ \E w : result' = [result EXCEPT ![c] = w]
    BY DEF Return
  <2> QED
    BY <2>1
<1>11. runs' = [runs EXCEPT ![Run(c)] = runs'[Run(c)]]
  <2>1. runs' = runs \/ \E w : runs' = [runs EXCEPT ![Run(c)] = w]
    BY DEF InsertRun, UpdateRun
  <2> QED
    BY <2>1
<1>12. rows' = [rows EXCEPT ![Run(c)] = rows'[Run(c)]]
  <2>1. rows' = rows \/ \E w : rows' = [rows EXCEPT ![Run(c)] = w]
    BY DEF InsertListings
  <2> QED
    BY <2>1
<1>13. offered' = [offered EXCEPT ![Run(c)] = offered'[Run(c)]]
  <2>1. offered' = offered \/ \E w : offered' = [offered EXCEPT ![Run(c)] = w]
    OBVIOUS
  <2> QED
    BY <2>1
<1> QED
  BY <1>2, <1>3, <1>4, <1>5, <1>6, <1>7, <1>8, <1>9, <1>10, <1>11, <1>12, <1>13 DEF Local

\* What the invariant says of another execution is not disturbed.
LEMMA OtherSame ==
  ASSUME TypeOK, NEW c \in Crawls, Local(c), NEW d \in Crawls, d # c
  PROVE  /\ pc'[d] = pc[d] /\ dry'[d] = dry[d] /\ idx'[d] = idx[d] /\ ref'[d] = ref[d]
         /\ batch'[d] = batch[d] /\ ok'[d] = ok[d] /\ failed'[d] = failed[d]
         /\ tx'[d] = tx[d] /\ result'[d] = result[d]
         /\ \A a \in Adapters : /\ runs'[<<d, a>>] = runs[<<d, a>>]
                                /\ rows'[<<d, a>>] = rows[<<d, a>>]
                                /\ offered'[<<d, a>>] = offered[<<d, a>>]
         /\ idx[d] \in Adapters /\ Run(d)' = Run(d) /\ Run(d) = <<d, idx[d]>>
<1>1. /\ pc'[d] = pc[d] /\ dry'[d] = dry[d] /\ idx'[d] = idx[d] /\ ref'[d] = ref[d]
      /\ batch'[d] = batch[d] /\ ok'[d] = ok[d] /\ failed'[d] = failed[d]
      /\ tx'[d] = tx[d] /\ result'[d] = result[d]
  BY DEF Local, TypeOK
<1>2. \A a \in Adapters : <<d, a>> \in RunIds /\ <<d, a>> # Run(c)
  BY DEF Run, RunIds
<1>3. \A a \in Adapters : /\ runs'[<<d, a>>] = runs[<<d, a>>]
                          /\ rows'[<<d, a>>] = rows[<<d, a>>]
                          /\ offered'[<<d, a>>] = offered[<<d, a>>]
  BY <1>2 DEF Local, TypeOK
<1>4. idx[d] \in Adapters /\ Run(d)' = Run(d) /\ Run(d) = <<d, idx[d]>>
  BY <1>1 DEF TypeOK, Run
<1> QED
  BY <1>1, <1>3, <1>4

LEMMA OtherLifecycle ==
  ASSUME TypeOK, NEW c \in Crawls, Local(c), NEW d \in Crawls, d # c, Lifecycle(d), SessionInv(d)
  PROVE  Lifecycle(d)' /\ SessionInv(d)'
BY OtherSame DEF Lifecycle, SessionInv, Untouched

LEMMA OtherProgress ==
  ASSUME TypeOK, NEW c \in Crawls, Local(c), NEW d \in Crawls, d # c, ResultInv(d), ProgressInv(d)
  PROVE  ResultInv(d)' /\ ProgressInv(d)'
<1>1. ResultInv(d)'
  BY OtherSame DEF ResultInv
<1>2. ProgressInv(d)'
  <2>1. Run(d)' = Run(d) /\ rows'[Run(d)] = rows[Run(d)] /\ offered'[Run(d)] = offered[Run(d)]
    BY OtherSame
  <2>2. /\ RowIds(Run(d))' = RowIds(Run(d)) /\ OfferedIds(Run(d))' = OfferedIds(Run(d))
        /\ Answered(Run(d))' = Answered(Run(d))
        /\ SomeAnswerKept(Run(d))' <=> SomeAnswerKept(Run(d))
    BY <2>1 DEF SomeAnswerKept, Answered, OfferedIds, RowIds
  <2> QED
    BY <2>1, <2>2, OtherSame DEF ProgressInv, Complete
<1> QED
  BY <1>1, <1>2

----------------------------------------------------------------------------
(* The session                                                             *)

LEMMA SessionStep ==
  ASSUME TypeOK, NEW c \in Crawls, Act(c), Lifecycle(c), SessionInv(c)
  PROVE  SessionInv(c)'
<1> USE DEF dbVars, iterVars
<1>1. /\ pc \in [Crawls -> PCs] /\ dry \in [Crawls -> BOOLEAN]
      /\ tx \in [Crawls -> {"none", "open", "aborted"}]
  BY DEF TypeOK
<1>2. CASE Launch(c)
  BY <1>1, <1>2 DEF Launch, Goto, SessionInv
<1>3. CASE Skip(c) \/ Unhealthy(c) \/ Finish(c) \/ FinishUnhealthy(c) \/ FinishCatastrophe(c)
  BY <1>1, <1>3 DEF Skip, Unhealthy, Finish, FinishUnhealthy, FinishCatastrophe, Return, Goto,
     SessionInv
<1>4. CASE Healthy(c) \/ StartRun(c) \/ StartCommit(c)
  BY <1>1, <1>4 DEF Healthy, StartRun, StartCommit, Goto, SessionInv, Lifecycle
<1>5. CASE Fetch(c) \/ FetchRaises(c)
  BY <1>1, <1>5 DEF Fetch, FetchRaises, Goto, NextReference, SessionInv
<1>6. CASE Record(c) \/ RecordCommit(c)
  BY <1>1, <1>6 DEF Record, RecordCommit, Goto, NextReference, SessionInv, Lifecycle, Recording
<1>7. CASE Except(c) \/ Catastrophe(c)
  BY <1>1, <1>7 DEF Except, Catastrophe, Goto, NextReference, SessionInv, Lifecycle
<1>8. CASE Write(c) \/ Crash(c)
  BY <1>1, <1>8 DEF Write, Crash, Goto, SessionInv
<1> QED
  BY <1>2, <1>3, <1>4, <1>5, <1>6, <1>7, <1>8 DEF Act, Step

----------------------------------------------------------------------------
(* What a step does to the tables                                          *)

\* The ways one step may change them.
TablesStep(c) ==
  \/ /\ pc[c] = "start_commit" /\ InsertRun(c) /\ rows' = rows /\ offered' = offered
  \/ /\ pc[c] = "fetch" /\ ~dry[c] /\ runs' = runs /\ rows' = rows
     /\ \E b \in Batches : offered' = [offered EXCEPT ![Run(c)] = @ \cup {<<ref[c], b>>}]
  \/ /\ pc[c] = "record_commit" /\ InsertListings(c) /\ runs' = runs /\ offered' = offered
  \/ /\ pc[c] = "finish" /\ ~dry[c] /\ UpdateRun(c, Status(ok[c], failed[c]), found[c])
     /\ rows' = rows /\ offered' = offered
  \/ /\ pc[c] \in {"finish_unhealthy", "finish_catastrophe"} /\ UpdateRun(c, "failed", 0)
     /\ rows' = rows /\ offered' = offered
  \/ UNCHANGED <<runs, rows, offered>>

LEMMA TablesChange == ASSUME NEW c \in Crawls, Act(c) PROVE TablesStep(c)
<1> USE DEF dbVars, iterVars
<1>1. CASE Launch(c) \/ Skip(c) \/ Unhealthy(c) \/ Healthy(c) \/ StartRun(c) \/ FetchRaises(c)
           \/ Record(c) \/ Except(c) \/ Catastrophe(c) \/ Write(c)
  BY <1>1 DEF Launch, Skip, Unhealthy, Healthy, StartRun, FetchRaises, Record, Except,
     Catastrophe, Write, TablesStep
<1>2. CASE StartCommit(c)
  BY <1>2 DEF StartCommit, TablesStep
<1>3. CASE Fetch(c)
  BY <1>3 DEF Fetch, TablesStep
<1>4. CASE RecordCommit(c)
  BY <1>4 DEF RecordCommit, TablesStep
<1>5. CASE Finish(c) \/ FinishUnhealthy(c) \/ FinishCatastrophe(c)
  BY <1>5 DEF Finish, FinishUnhealthy, FinishCatastrophe, TablesStep
<1>6. CASE Crash(c)
  BY <1>6 DEF Crash, TablesStep
<1> QED
  BY <1>1, <1>2, <1>3, <1>4, <1>5, <1>6 DEF Act, Step

----------------------------------------------------------------------------
(* The life of a run row                                                   *)

\* Rows of the execution's other adapters do not change.
LEMMA OtherRows ==
  ASSUME TypeOK, NEW c \in Crawls, Local(c), NEW r \in RunIds, r # Run(c)
  PROVE  runs'[r] = runs[r] /\ rows'[r] = rows[r] /\ offered'[r] = offered[r]
BY DEF Local, TypeOK

\* The row being worked on, after a step that stays with its adapter.
LEMMA OwnRow ==
  ASSUME TypeOK, NEW c \in Crawls
  PROVE  /\ Run(c) \in RunIds
         /\ \A a \in Adapters : <<c, a>> \in RunIds /\ (<<c, a>> = Run(c) <=> a = idx[c])
BY DEF TypeOK, Run, RunIds

LEMMA LifecycleStep ==
  ASSUME TypeOK, NEW c \in Crawls, Act(c), Lifecycle(c), SessionInv(c)
  PROVE  Lifecycle(c)'
<1> USE DEF dbVars, iterVars
<1>0. Local(c) /\ Run(c) \in RunIds
  BY LocalStep, OwnRow
<1>1. /\ pc \in [Crawls -> PCs] /\ dry \in [Crawls -> BOOLEAN] /\ idx \in [Crawls -> Adapters]
      /\ runs \in [RunIds -> RunRows] /\ rows \in [RunIds -> SUBSET (Ids \X References)]
      /\ offered \in [RunIds -> SUBSET (References \X Seq(Ids))]
  BY DEF TypeOK
<1>2. \A a \in Adapters : a # idx[c] => (Untouched(<<c, a>>)' <=> Untouched(<<c, a>>))
  BY <1>0, OtherRows, OwnRow DEF Untouched
<1>3. Run(c) = <<c, idx[c]>> /\ Run(c)' = <<c, idx'[c]>> /\ idx[c] \in Adapters
  BY <1>1 DEF Run
<1>4. CASE Launch(c)
  <2>1. /\ pc[c] = "idle" /\ pc'[c] = "health" /\ idx' = idx
        /\ runs' = runs /\ rows' = rows /\ offered' = offered
    BY <1>1, <1>4 DEF Launch, Goto
  <2>2. \A a \in Adapters : Untouched(<<c, a>>)
    BY <2>1, <1>1, <1>3 DEF Lifecycle, Adapters, Ended
  <2> QED
    BY <2>1, <2>2, <1>1, <1>3 DEF Lifecycle, Untouched, HasRow, Recording, Ended
<1>5. ASSUME NEW st, NEW n, Return(c, st, n), dry' = dry,
             pc[c] \in {"health", "finish", "finish_unhealthy", "finish_catastrophe"},
             pc[c] = "health" \/ dry[c] => UNCHANGED <<runs, rows, offered>>
      PROVE  Lifecycle(c)'
  <2>1. \/ idx'[c] = idx[c] + 1 /\ pc'[c] = "health"
        \/ idx'[c] = idx[c] /\ pc'[c] = "write"
    BY <1>1, <1>5 DEF Return, Goto
  <2>2. pc[c] \notin Ended \cup {"write", "idle"}
    BY <1>5 DEF Ended
  <2>3. \A a \in Adapters : a > idx[c] => Untouched(<<c, a>>)'
    BY <1>1, <1>2, <2>2 DEF Lifecycle, Adapters
  <2>4. dry[c] => \A a \in Adapters : Untouched(<<c, a>>)'
    BY <1>5 DEF Lifecycle, Untouched
  <2>5. idx'[c] \in Adapters
    BY <1>1, <1>5 DEF Return, Adapters
  <2> QED
    BY <1>1, <1>3, <1>5, <2>1, <2>3, <2>4, <2>5 DEF Lifecycle, HasRow, Recording, Ended, Adapters
<1>6. CASE Skip(c)
  BY <1>5, <1>6 DEF Skip
<1>7. ASSUME UNCHANGED <<runs, rows, offered, dry, idx>>, pc[c] # "idle",
             pc[c] \in {"health", "start_run"} => pc'[c] \in {"start_run", "start_commit", "fetch"} \cup Ended,
             pc[c] \in {"health", "start_run"} /\ pc'[c] = "fetch" => dry[c],
             pc'[c] \in HasRow /\ ~dry[c] => pc[c] \in HasRow,
             pc'[c] \in {"start_run", "start_commit"} => pc[c] \in {"health", "start_run"},
             pc'[c] \in {"start_run", "start_commit", "catastrophe", "finish_unhealthy",
                         "finish_catastrophe"} \cup Recording => ~dry[c],
             pc[c] \notin Ended \cup {"write"} \/ pc'[c] \in Ended \cup {"write"},
             pc'[c] \notin {"idle", "health"}
      PROVE  Lifecycle(c)'
  BY <1>1, <1>3, <1>7 DEF Lifecycle, Untouched, HasRow, Recording, Ended
<1>8. CASE Unhealthy(c)
  <2>1. CASE dry[c]
    BY <1>5, <1>8, <2>1 DEF Unhealthy
  <2>2. CASE ~dry[c]
    BY <1>1, <1>7, <1>8, <2>2 DEF Unhealthy, Goto, HasRow, Recording, Ended
  <2> QED
    BY <2>1, <2>2
<1>9. CASE Healthy(c) \/ StartRun(c) \/ FetchRaises(c) \/ Record(c) \/ Catastrophe(c) \/ Write(c)
  BY <1>1, <1>7, <1>9 DEF Healthy, StartRun, FetchRaises, Record, Catastrophe, Write, Goto,
     HasRow, Recording, Ended, Lifecycle
<1>10. CASE Except(c)
  <2>1. pc'[c] \in {"fetch", "finish", "catastrophe"}
    BY <1>1, <1>10 DEF Except, NextReference, Goto
  <2>2. pc'[c] = "catastrophe" => tx[c] = "aborted"
    BY <1>1, <1>10 DEF Except, NextReference, Goto
  <2> QED
    BY <1>1, <1>7, <1>10, <2>1, <2>2 DEF Except, HasRow, Recording, Ended, SessionInv
<1>11. CASE StartCommit(c)
  <2>1. pc[c] = "start_commit" /\ ~dry[c] /\ dry' = dry /\ idx' = idx
    BY <1>11 DEF StartCommit, Lifecycle
  <2>2. pc'[c] \in {"fetch", "finish_unhealthy", "aborted"}
    BY <1>1, <1>11 DEF StartCommit, Goto
  <2>3. pc'[c] # "aborted" => InsertRun(c)
    BY <1>1, <1>11 DEF StartCommit, Goto, Applied
  <2>4. pc'[c] # "aborted" => /\ runs'[Run(c)].status = "failed"
                              /\ runs'[Run(c)].found = 0
                              /\ ~runs'[Run(c)].finished
    BY <1>0, <1>1, <2>3 DEF InsertRun, NewRun
  <2>5. \A a \in Adapters : a > idx[c] => Untouched(<<c, a>>)'
    BY <1>1, <1>2, <2>1 DEF Lifecycle, Ended, Adapters
  <2> QED
    BY <1>1, <1>3, <2>1, <2>2, <2>4, <2>5 DEF Lifecycle, HasRow, Recording, Ended
<1>12. ASSUME UNCHANGED <<runs, dry, idx>>, ~dry[c], pc[c] \in HasRow,
              pc'[c] \in HasRow \cup Ended
       PROVE  Lifecycle(c)'
  <2>1. \A a \in Adapters : a > idx[c] => Untouched(<<c, a>>)'
    BY <1>1, <1>2, <1>12 DEF Lifecycle, HasRow, Recording, Ended, Adapters
  <2> QED
    BY <1>1, <1>3, <1>12, <2>1 DEF Lifecycle, HasRow, Recording, Ended
<1>13. CASE Fetch(c)
  <2>1. pc[c] = "fetch" /\ pc'[c] \in {"fetch", "finish", "record"} /\ UNCHANGED <<runs, rows, dry, idx>>
    BY <1>1, <1>13 DEF Fetch, NextReference, Goto
  <2>2. CASE dry[c]
    <3>1. offered' = offered /\ pc'[c] \in {"fetch", "finish"}
      BY <1>1, <1>13, <2>2 DEF Fetch, NextReference, Goto
    <3> QED
      BY <1>7, <2>1, <2>2, <3>1 DEF HasRow, Recording, Ended
  <2>3. CASE ~dry[c]
    BY <1>12, <2>1, <2>3 DEF HasRow, Recording
  <2> QED
    BY <2>2, <2>3
<1>14. CASE RecordCommit(c)
  <2>1. pc[c] = "record_commit" /\ pc'[c] \in {"fetch", "finish", "except"} /\ UNCHANGED <<runs, dry, idx>>
    BY <1>1, <1>14 DEF RecordCommit, NextReference, Goto
  <2> QED
    BY <1>12, <2>1 DEF HasRow, Recording, Lifecycle
<1>15. ASSUME pc[c] \in HasRow, pc'[c] \in Ended, UNCHANGED <<dry, idx>>,
              ~dry[c]
       PROVE  Lifecycle(c)'
  BY <1>1, <1>2, <1>3, <1>15 DEF Lifecycle, HasRow, Recording, Ended, Adapters
<1>16. CASE Finish(c)
  <2>1. pc[c] = "finish" /\ UNCHANGED <<rows, dry, offered>>
    BY <1>16 DEF Finish
  <2>2. CASE Goto(c, "aborted") /\ ~dry[c] /\ UNCHANGED idx
    BY <1>1, <1>15, <2>1, <2>2 DEF Goto, HasRow, Ended
  <2>3. CASE /\ dry[c] => runs' = runs
             /\ Return(c, Status(ok[c], failed[c]), found[c])
    BY <1>5, <2>1, <2>3
  <2> QED
    BY <1>16, <2>2, <2>3 DEF Finish
<1>17. CASE FinishUnhealthy(c)
  <2>1. pc[c] = "finish_unhealthy" /\ ~dry[c] /\ UNCHANGED <<rows, dry, offered>>
    BY <1>17 DEF FinishUnhealthy, Lifecycle
  <2>2. CASE Goto(c, "aborted") /\ UNCHANGED idx
    BY <1>1, <1>15, <2>1, <2>2 DEF Goto, HasRow, Ended
  <2>3. CASE Return(c, "failed", 0)
    BY <1>5, <2>1, <2>3
  <2> QED
    BY <1>17, <2>2, <2>3 DEF FinishUnhealthy
<1>18. CASE FinishCatastrophe(c)
  <2>1. pc[c] = "finish_catastrophe" /\ ~dry[c] /\ UNCHANGED <<rows, dry, offered>>
    BY <1>18 DEF FinishCatastrophe, Lifecycle
  <2> QED
    BY <1>5, <1>18, <2>1 DEF FinishCatastrophe
<1>19. CASE Crash(c)
  <2>1. pc[c] \notin {"idle"} \cup Ended /\ pc'[c] = "crashed" /\ UNCHANGED <<dry, idx, offered>>
    BY <1>1, <1>19 DEF Crash, Goto
  <2>2. dry[c] => UNCHANGED <<runs, rows>>
    BY <1>1, <1>19 DEF Crash, Lifecycle, Recording
  <2>3. dry[c] => \A a \in Adapters : Untouched(<<c, a>>)'
    BY <2>1, <2>2 DEF Lifecycle, Untouched
  <2> QED
    BY <1>1, <1>3, <2>1, <2>3 DEF Lifecycle, HasRow, Recording, Ended
<1> QED
  BY <1>4, <1>6, <1>8, <1>9, <1>10, <1>11, <1>13, <1>14, <1>16, <1>17, <1>18, <1>19 DEF Act, Step

----------------------------------------------------------------------------
(* The crawl implements the snapshot log                                   *)

Base == TypeOK /\ \A c \in Crawls : Lifecycle(c) /\ SessionInv(c)

LEMMA BaseInit == Init => Base
<1> SUFFICES ASSUME Init PROVE Base
  OBVIOUS
<1>1. TypeOK
  BY TypeInit
<1>2. \A c \in Crawls, a \in Adapters : Untouched(<<c, a>>)
  BY DEF Init, Untouched, RunIds
<1>3. \A c \in Crawls : Lifecycle(c) /\ SessionInv(c)
  BY <1>1, <1>2 DEF Init, Lifecycle, SessionInv, HasRow, Recording, Ended, Run, TypeOK
<1> QED
  BY <1>1, <1>3 DEF Base

LEMMA BaseStep == Base /\ [Next]_vars => Base'
<1> SUFFICES ASSUME Base, [Next]_vars PROVE Base'
  OBVIOUS
<1>1. TypeOK'
  BY TypeStep DEF Base
<1>2. CASE UNCHANGED vars
  BY <1>1, <1>2 DEF Base, vars, Lifecycle, SessionInv, Untouched, Run
<1>3. ASSUME NEW c \in Crawls, Act(c) PROVE Base'
  <2>1. Lifecycle(c)' /\ SessionInv(c)'
    BY <1>3, LifecycleStep, SessionStep DEF Base
  <2>2. ASSUME NEW d \in Crawls, d # c PROVE Lifecycle(d)' /\ SessionInv(d)'
    <3>1. Local(c)
      BY <1>3, LocalStep DEF Base
    <3> QED
      BY <2>2, <3>1, OtherLifecycle DEF Base
  <2> QED
    BY <1>1, <2>1, <2>2 DEF Base
<1> QED
  BY <1>2, <1>3 DEF Next, Act

LEMMA BaseInvariant == Spec => []Base
BY BaseInit, BaseStep, PTL DEF Spec

LEMMA LogInit == Init => Log!Init
BY DEF Init, Log!Init, Phase, Absent

LEMMA LogStep ==
  ASSUME TypeOK, NEW c \in Crawls, Act(c), Lifecycle(c)
  PROVE  Log!Next \/ UNCHANGED Log!vars
<1>r. PICK r \in RunIds : r = Run(c)
  BY OwnRow
<1> DEFINE phase == [q \in RunIds |-> Phase(q)]
           started == [q \in RunIds |-> runs[q].started]
<1>0. r \in RunIds /\ Local(c)
  BY LocalStep
<1>1. /\ runs \in [RunIds -> RunRows] /\ runs' \in [RunIds -> RunRows]
      /\ rows \in [RunIds -> SUBSET (Ids \X References)]
      /\ rows' \in [RunIds -> SUBSET (Ids \X References)]
  BY TypeStep DEF TypeOK, Next, Act
<1>2. \A q \in RunIds : q # r => runs'[q] = runs[q]
  BY <1>0, <1>r, OtherRows
<1>3. ASSUME NEW st \in Statuses, NEW n, pc[c] \in HasRow, ~dry[c], UpdateRun(c, st, n),
             rows' = rows
      PROVE  Log!Finish(r)
  <2>1. runs[r].status = "failed" /\ ~runs[r].finished
    BY <1>r, <1>3 DEF Lifecycle
  <2>2. runs'[r] = [status |-> st, started |-> runs[r].started, found |-> n, finished |-> TRUE]
    BY <1>r, <1>0, <1>1, <1>3 DEF UpdateRun
  <2>3. phase[r] = "open" /\ phase'[r] \in {"published", "closed"}
    BY <1>0, <1>1, <1>3, <2>1, <2>2 DEF Phase, Published, Statuses
  <2>4. phase' = [phase EXCEPT ![r] = phase'[r]]
    BY <1>0, <1>2 DEF Phase
  <2>5. started' = started
    BY <1>0, <1>2, <2>2
  <2> QED
    BY <1>3, <2>3, <2>4, <2>5 DEF Log!Finish
<1>4. CASE pc[c] = "start_commit" /\ InsertRun(c) /\ rows' = rows
  <2>1. runs[r] = Absent
    BY <1>r, <1>4 DEF Lifecycle, Untouched
  <2>2. runs'[r] = NewRun(stamp[c]) /\ stamp[c] \in Nat
    BY <1>r, <1>0, <1>1, <1>4 DEF InsertRun, TypeOK
  <2>3. phase[r] = "absent" /\ phase'[r] = "open" /\ started'[r] \in Nat
    BY <1>0, <2>1, <2>2 DEF Phase, Absent, NewRun, Published
  <2>4. phase' = [phase EXCEPT ![r] = "open"] /\ started' = [started EXCEPT ![r] = started'[r]]
    BY <1>0, <1>2, <2>3 DEF Phase
  <2>5. Log!Open(r)
    BY <1>4, <2>3, <2>4 DEF Log!Open
  <2>6. \E q \in RunIds : Log!Open(q)
    BY <1>0, <2>5
  <2> QED
    BY <2>6 DEF Log!Next
<1>5. CASE pc[c] = "record_commit" /\ InsertListings(c) /\ runs' = runs
  <2>1. runs[r].status = "failed" /\ ~runs[r].finished
    BY <1>r, <1>5 DEF Lifecycle, HasRow, Recording
  <2>2. phase[r] = "open" /\ phase' = phase /\ started' = started
    BY <1>0, <1>5, <2>1 DEF Phase, Published
  <2>3. rows[r] \subseteq rows'[r] /\ rows'[r] \subseteq Ids \X References
    BY <1>r, <1>0, <1>1, <1>5 DEF InsertListings
  <2>4. rows' = [rows EXCEPT ![r] = rows'[r]]
    BY <1>r, <1>0 DEF Local
  <2>5. Log!Add(r)
    BY <2>2, <2>3, <2>4 DEF Log!Add
  <2> QED
    BY <1>0, <2>5 DEF Log!Next
<1>6. CASE UNCHANGED <<runs, rows>>
  BY <1>6 DEF Log!vars, Phase
<1>7. CASE pc[c] = "finish" /\ ~dry[c] /\ UpdateRun(c, Status(ok[c], failed[c]), found[c])
           /\ rows' = rows
  BY <1>0, <1>3, <1>7, StatusType DEF HasRow, Log!Next
<1>8. CASE pc[c] \in {"finish_unhealthy", "finish_catastrophe"} /\ UpdateRun(c, "failed", 0)
           /\ rows' = rows
  BY <1>0, <1>3, <1>8 DEF HasRow, Statuses, Lifecycle, Log!Next
<1> QED
  BY <1>4, <1>5, <1>6, <1>7, <1>8, TablesChange DEF TablesStep

\* Overlapping, failing and crashing executions change crawl_runs and
\* listing_snapshots only in the ways the snapshot log allows.
THEOREM CrawlImplementsLog == Spec => ImplementsLog
<1>1. Base /\ [Next]_vars => [Log!Next]_(Log!vars)
  <2> SUFFICES ASSUME Base, [Next]_vars PROVE Log!Next \/ UNCHANGED Log!vars
    OBVIOUS
  <2>1. CASE UNCHANGED vars
    BY <2>1 DEF vars, Log!vars, Phase
  <2>2. CASE \E c \in Crawls : Act(c)
    BY <2>2, LogStep DEF Base
  <2> QED
    BY <2>1, <2>2 DEF Next, Act
<1> QED
  BY <1>1, LogInit, BaseInvariant, PTL DEF Spec, ImplementsLog, Log!Spec

----------------------------------------------------------------------------
(* What readers and operators may rely on                                  *)

LEMMA FrozenStep ==
  ASSUME Base, [Next]_vars, NEW r \in RunIds, Phase(r) \in {"published", "closed"}
  PROVE  runs'[r] = runs[r] /\ rows'[r] = rows[r]
<1>1. CASE UNCHANGED vars
  BY <1>1 DEF vars
<1>2. ASSUME NEW c \in Crawls, Act(c)
      PROVE  runs'[r] = runs[r] /\ rows'[r] = rows[r]
  <2>1. CASE r # Run(c)
    BY <1>2, <2>1, LocalStep, OtherRows DEF Base
  <2>2. CASE r = Run(c)
    <3>1. ~(runs[r].status = "failed" /\ ~runs[r].finished) /\ runs[r] # Absent
      BY DEF Phase, Published, Absent
    <3>2. pc[c] \notin {"start_commit", "record_commit", "finish_unhealthy", "finish_catastrophe"}
      BY <2>2, <3>1 DEF Base, Lifecycle, HasRow, Recording, Untouched
    <3>3. ~(pc[c] = "finish" /\ ~dry[c])
      BY <2>2, <3>1 DEF Base, Lifecycle, HasRow
    <3> QED
      BY <1>2, <3>2, <3>3, TablesChange DEF TablesStep
  <2> QED
    BY <2>1, <2>2
<1> QED
  BY <1>1, <1>2 DEF Next, Act

\* What every implementation of the log gives its readers: its variables keep their types,
\* listing_snapshots only grows, crawl_runs is updated once per run, and the run a reader
\* takes for a source is never replaced by one that started before it.
LEMMA LogTypeOK == Log!Spec => []Log!TypeOK
<1>1. Log!Init => Log!TypeOK
  BY DEF Log!Init, Log!TypeOK, Log!Phases
<1>2. Log!TypeOK /\ [Log!Next]_(Log!vars) => Log!TypeOK'
  BY DEF Log!TypeOK, Log!Phases, Log!Next, Log!Open, Log!Add, Log!Finish, Log!vars
<1> QED
  BY <1>1, <1>2, PTL DEF Log!Spec

LEMMA LogRowsGrow == Log!Spec => Log!AppendOnly
<1>1. Log!TypeOK /\ [Log!Next]_(Log!vars)
        => [\A r \in RunIds : rows[r] \subseteq rows'[r]]_(Log!vars)
  BY DEF Log!TypeOK, Log!Next, Log!Open, Log!Add, Log!Finish, Log!vars
<1> QED
  BY <1>1, LogTypeOK, PTL DEF Log!Spec, Log!AppendOnly

LEMMA LogFinishedKept == Log!TypeOK /\ [Log!Next]_(Log!vars) => [Log!FinishedKept]_(Log!vars)
  BY DEF Log!TypeOK, Log!Next, Log!Open, Log!Add, Log!Finish, Log!vars, Log!FinishedKept

LEMMA LogRunsFrozen == Log!Spec => Log!FinishedRunsFrozen
  BY LogTypeOK, LogFinishedKept, PTL DEF Log!Spec, Log!FinishedRunsFrozen

LEMMA LogForward == Log!Spec => Log!ReadersMoveForward
<1>1. Log!TypeOK /\ [Log!Next]_(Log!vars) => [Log!MovesForward]_(Log!vars)
  <2> SUFFICES ASSUME Log!TypeOK, [Log!Next]_(Log!vars), Log!FinishedKept,
                      NEW r \in RunIds, NEW q \in RunIds,
                      Log!Visible(r), Log!Visible(q)', r[2] = q[2]
               PROVE  runs[r].started <= runs'[q].started
    BY LogFinishedKept DEF Log!MovesForward
  <2>1. Phase(r) = "published"
    BY DEF Log!Visible
  <2>2. Phase(r)' = "published" /\ runs'[r].started = runs[r].started
    BY <2>1 DEF Log!FinishedKept
  <2>3. runs'[r].started <= runs'[q].started
    BY <2>2 DEF Log!Visible
  <2> QED
    BY <2>2, <2>3
<1> QED
  BY <1>1, LogTypeOK, PTL DEF Log!Spec, Log!ReadersMoveForward

\* No execution takes a snapshot back: listing_snapshots is append-only (storage.py:91-104).
THEOREM CrawlSnapshotsOnlyGrow == Spec => Log!AppendOnly
  BY CrawlImplementsLog, LogRowsGrow, PTL DEF ImplementsLog

\* crawl_runs is updated at most once per run, and a finished run keeps its rows.
THEOREM CrawlFinishedRunsFrozen == Spec => FinishedRunsFrozen
  BY CrawlImplementsLog, LogRunsFrozen, PTL DEF ImplementsLog, FinishedRunsFrozen

\* Whichever executions overlap, a reader never falls back to an older run.
THEOREM CrawlReadersMoveForward == Spec => ReadersMoveForward
  BY CrawlImplementsLog, LogForward, PTL DEF ImplementsLog, ReadersMoveForward

\* No fetch happens inside an open transaction and no run is closed on an
\* aborted one.
THEOREM CrawlSessionIsClean == Spec => []SessionIsClean
<1>1. Base => SessionIsClean
  BY DEF Base, SessionInv, SessionIsClean
<1> QED
  BY <1>1, BaseInvariant, PTL

\* A dry run leaves both tables alone.
THEOREM CrawlDryRunWritesNothing == Spec => []DryRunWritesNothing
<1>1. Base => DryRunWritesNothing
  BY DEF Base, Lifecycle, Untouched, DryRunWritesNothing
<1> QED
  BY <1>1, BaseInvariant, PTL

----------------------------------------------------------------------------
(* Reports                                                                 *)

LEMMA ResultStep ==
  ASSUME TypeOK, NEW c \in Crawls, Act(c), Lifecycle(c), ResultInv(c)
  PROVE  ResultInv(c)'
<1> USE DEF dbVars, iterVars
<1>0. Local(c) /\ Run(c) \in RunIds /\ Run(c) = <<c, idx[c]>>
  BY LocalStep, OwnRow DEF Run
<1>1. /\ pc \in [Crawls -> PCs] /\ dry \in [Crawls -> BOOLEAN] /\ idx \in [Crawls -> Adapters]
      /\ runs \in [RunIds -> RunRows] /\ result \in [Crawls -> [Adapters -> SourceResults]]
  BY DEF TypeOK
<1>2. \A a \in Adapters : a # idx[c] => runs'[<<c, a>>] = runs[<<c, a>>]
  BY <1>0, OtherRows, OwnRow
<1>3. ASSUME result' = result, idx' = idx, dry' = dry,
             pc[c] \notin Ended \cup {"write"} \/ runs' = runs,
             pc[c] \in Ended \cup {"write"} => pc'[c] \in Ended \cup {"write"}
      PROVE  ResultInv(c)'
  <2>1. \A a \in Adapters : ~dry[c] /\ result[c][a].status \in Statuses
          => runs'[<<c, a>>] = runs[<<c, a>>]
    <3>1. pc[c] \notin Ended \cup {"write"} => result[c][idx[c]].status \notin Statuses
      <4>1. idx[c] \in Adapters /\ idx[c] >= idx[c]
        BY <1>1 DEF Adapters
      <4>2. pc[c] \notin Ended \cup {"write"} => result[c][idx[c]] = NoResult
        BY <4>1 DEF ResultInv
      <4> QED
        BY <4>2 DEF NoResult, Statuses
    <3> QED
      BY <1>2, <1>3, <3>1
  <2> QED
    BY <1>3, <2>1 DEF ResultInv
<1>4. ASSUME NEW st, NEW n, Return(c, st, n), dry' = dry, pc[c] \notin Ended \cup {"write"},
             ~dry[c] /\ st \in Statuses => runs'[Run(c)].status = st /\ runs'[Run(c)].found = n
      PROVE  ResultInv(c)'
  <2>1. result'[c] = [result[c] EXCEPT ![idx[c]] = [status |-> st, found |-> n]]
    BY <1>1, <1>4 DEF Return
  <2>2. \/ idx'[c] = idx[c] + 1
        \/ idx'[c] = idx[c] /\ pc'[c] = "write"
    BY <1>1, <1>4 DEF Return, Goto
  <2>3. \A a \in Adapters : a # idx[c] => result'[c][a] = result[c][a]
    BY <1>1, <2>1
  <2>4. result'[c][idx[c]] = [status |-> st, found |-> n]
    BY <1>1, <2>1
  <2>5. pc'[c] \notin Ended \cup {"write"} => \A a \in Adapters : a >= idx'[c] => result'[c][a] = NoResult
    <3>1. ASSUME NEW a \in Adapters, pc'[c] \notin Ended \cup {"write"}, a >= idx'[c]
          PROVE  result'[c][a] = NoResult
      <4>1. a >= idx[c] /\ a # idx[c]
        BY <1>1, <2>2, <3>1 DEF Adapters
      <4> QED
        BY <1>4, <2>3, <4>1 DEF ResultInv
    <3> QED
      BY <3>1
  <2>6. ASSUME NEW a \in Adapters, ~dry[c], result'[c][a].status \in Statuses
        PROVE  runs'[<<c, a>>].status = result'[c][a].status
               /\ runs'[<<c, a>>].found = result'[c][a].found
    <3>1. CASE a = idx[c]
      BY <1>0, <1>4, <2>4, <2>6, <3>1
    <3>2. CASE a # idx[c]
      BY <1>2, <2>3, <2>6, <3>2 DEF ResultInv
    <3> QED
      BY <3>1, <3>2
  <2> QED
    BY <1>4, <2>5, <2>6 DEF ResultInv
<1>5. CASE Launch(c)
  <2>1. pc[c] = "idle" /\ pc'[c] = "health" /\ UNCHANGED <<idx, result, runs>> /\ idx[c] = 1
    BY <1>1, <1>5 DEF Launch, Goto, Lifecycle
  <2>2. \A a \in Adapters : result[c][a] = NoResult
    BY <2>1 DEF ResultInv, Ended, Adapters
  <2> QED
    BY <2>1, <2>2 DEF ResultInv, NoResult, Statuses
<1>6. CASE Skip(c)
  BY <1>4, <1>6 DEF Skip, Statuses, Ended
<1>7. CASE Unhealthy(c)
  <2>1. CASE dry[c]
    BY <1>4, <1>7, <2>1 DEF Unhealthy, Ended
  <2>2. CASE ~dry[c]
    BY <1>1, <1>3, <1>7, <2>2 DEF Unhealthy, Goto, Ended
  <2> QED
    BY <2>1, <2>2
<1>8. CASE Healthy(c) \/ StartRun(c) \/ StartCommit(c) \/ Fetch(c) \/ FetchRaises(c) \/ Record(c)
           \/ RecordCommit(c) \/ Except(c) \/ Catastrophe(c)
  BY <1>1, <1>3, <1>8 DEF Healthy, StartRun, StartCommit, Fetch, FetchRaises, Record,
     RecordCommit, Except, Catastrophe, Ended
<1>9. CASE Finish(c)
  <2>1. pc[c] = "finish" /\ dry' = dry
    BY <1>9 DEF Finish
  <2>2. CASE UNCHANGED <<idx, result>>
    BY <1>3, <2>1, <2>2 DEF Ended
  <2>3. CASE dry[c] /\ Return(c, Status(ok[c], failed[c]), found[c])
    BY <1>4, <2>1, <2>3 DEF Ended
  <2>4. CASE UpdateRun(c, Status(ok[c], failed[c]), found[c])
             /\ Return(c, Status(ok[c], failed[c]), found[c])
    <3>1. runs'[Run(c)].status = Status(ok[c], failed[c]) /\ runs'[Run(c)].found = found[c]
      BY <1>0, <1>1, <2>4 DEF UpdateRun
    <3> QED
      BY <1>4, <2>1, <2>4, <3>1 DEF Ended
  <2> QED
    BY <1>9, <2>2, <2>3, <2>4 DEF Finish, Applied
<1>10. CASE FinishUnhealthy(c)
  <2>1. pc[c] = "finish_unhealthy" /\ dry' = dry
    BY <1>10 DEF FinishUnhealthy
  <2>2. CASE UNCHANGED <<idx, result>>
    BY <1>3, <2>1, <2>2 DEF Ended
  <2>3. CASE UpdateRun(c, "failed", 0) /\ Return(c, "failed", 0)
    <3>1. runs'[Run(c)].status = "failed" /\ runs'[Run(c)].found = 0
      BY <1>0, <1>1, <2>3 DEF UpdateRun
    <3> QED
      BY <1>4, <2>1, <2>3, <3>1 DEF Ended
  <2> QED
    BY <1>10, <2>2, <2>3 DEF FinishUnhealthy, Applied
<1>11. CASE FinishCatastrophe(c)
  <2>1. pc[c] = "finish_catastrophe" /\ dry' = dry /\ ~dry[c] /\ Return(c, "failed", 0)
    BY <1>11 DEF FinishCatastrophe, Lifecycle
  <2>2. runs[Run(c)].status = "failed" /\ runs[Run(c)].found = 0
    BY <2>1 DEF Lifecycle, HasRow
  <2>3. runs'[Run(c)].status = "failed" /\ runs'[Run(c)].found = 0
    BY <1>0, <1>1, <1>11, <2>2 DEF FinishCatastrophe, UpdateRun
  <2> QED
    BY <1>4, <2>1, <2>3 DEF Ended
<1>12. CASE Write(c)
  BY <1>1, <1>3, <1>12 DEF Write, Goto, Ended
<1>13. CASE Crash(c)
  <2>1. /\ pc[c] \notin Ended /\ pc'[c] = "crashed" /\ UNCHANGED <<result, idx, dry>>
        /\ pc[c] = "write" => runs' = runs
    BY <1>1, <1>13 DEF Crash, Goto
  <2> QED
    BY <1>3, <2>1 DEF Ended
<1> QED
  BY <1>5, <1>6, <1>7, <1>8, <1>9, <1>10, <1>11, <1>12, <1>13 DEF Act, Step

----------------------------------------------------------------------------
(* Statuses tell the truth                                                 *)

\* record_listings leaves the run with every id of the batch.
LEMMA InsertListingsIds ==
  ASSUME TypeOK, NEW c \in Crawls, InsertListings(c)
  PROVE  /\ rows[Run(c)] \subseteq rows'[Run(c)]
         /\ RowIds(Run(c))' = RowIds(Run(c)) \cup IdsOf(batch[c]) \/ Run(c)' # Run(c)
<1>1. Run(c) \in RunIds
  BY OwnRow
<1>2. rows'[Run(c)] = rows[Run(c)] \cup NewRows(Run(c), ref[c], batch[c])
  BY <1>1 DEF InsertListings, TypeOK
<1>3. {row[1] : row \in NewRows(Run(c), ref[c], batch[c])} = IdsOf(batch[c]) \ RowIds(Run(c))
  <2> DEFINE new == IdsOf(batch[c]) \ RowIds(Run(c))
  <2>1. NewRows(Run(c), ref[c], batch[c]) = {<<i, ref[c]>> : i \in new}
    BY DEF NewRows
  <2> HIDE DEF new
  <2>2. ASSUME NEW i \in new PROVE \E row \in {<<j, ref[c]>> : j \in new} : row[1] = i
    <3>1. <<i, ref[c]>>[1] = i
      OBVIOUS
    <3> QED
      BY <2>2, <3>1
  <2>3. ASSUME NEW row \in {<<j, ref[c]>> : j \in new} PROVE row[1] \in new
    OBVIOUS
  <2>4. {row[1] : row \in {<<j, ref[c]>> : j \in new}} = new
    BY <2>2, <2>3
  <2> QED
    BY <2>1, <2>4 DEF new
<1> QED
  BY <1>2, <1>3 DEF RowIds

\* An answer of the source adds its listings and its reference.
LEMMA OfferedMore ==
  ASSUME TypeOK, NEW c \in Crawls, NEW b, Run(c)' = Run(c),
         offered' = [offered EXCEPT ![Run(c)] = @ \cup {<<ref[c], b>>}]
  PROVE  /\ offered'[Run(c)] = offered[Run(c)] \cup {<<ref[c], b>>}
         /\ OfferedIds(Run(c))' = OfferedIds(Run(c)) \cup IdsOf(b)
         /\ Answered(Run(c))' = Answered(Run(c)) \cup {ref[c]}
<1>1. Run(c) \in RunIds
  BY OwnRow
<1>2. offered'[Run(c)] = offered[Run(c)] \cup {<<ref[c], b>>}
  BY <1>1 DEF TypeOK
<1>3. OfferedIds(Run(c))' = OfferedIds(Run(c)) \cup IdsOf(b)
  <2>1. OfferedIds(Run(c))' = UNION {IdsOf(o[2]) : o \in offered[Run(c)] \cup {<<ref[c], b>>}}
    BY <1>2 DEF OfferedIds
  <2>2. \A i : i \in OfferedIds(Run(c))' <=> \E o \in offered[Run(c)] \cup {<<ref[c], b>>} : i \in IdsOf(o[2])
    BY <2>1
  <2>3. \A i : i \in OfferedIds(Run(c)) <=> \E o \in offered[Run(c)] : i \in IdsOf(o[2])
    BY DEF OfferedIds
  <2>4. <<ref[c], b>>[2] = b
    OBVIOUS
  <2>5. \A i : i \in OfferedIds(Run(c))' <=> i \in OfferedIds(Run(c)) \/ i \in IdsOf(b)
    BY <2>2, <2>3, <2>4
  <2> QED
    BY <2>5
<1>4. Answered(Run(c))' = Answered(Run(c)) \cup {ref[c]}
  <2>1. Answered(Run(c))' = {o[1] : o \in offered[Run(c)] \cup {<<ref[c], b>>}}
    BY <1>2 DEF Answered
  <2>2. \A k : k \in Answered(Run(c))' <=> \E o \in offered[Run(c)] \cup {<<ref[c], b>>} : k = o[1]
    BY <2>1
  <2>3. \A k : k \in Answered(Run(c)) <=> \E o \in offered[Run(c)] : k = o[1]
    BY DEF Answered
  <2>4. <<ref[c], b>>[1] = ref[c]
    OBVIOUS
  <2>5. \A k : k \in Answered(Run(c))' <=> k \in Answered(Run(c)) \/ k = ref[c]
    BY <2>2, <2>3, <2>4
  <2> QED
    BY <2>5
<1> QED
  BY <1>2, <1>3, <1>4

\* An answer kept stays kept: rows and answers only accumulate.
LEMMA KeptStays ==
  ASSUME NEW r, SomeAnswerKept(r), rows[r] \subseteq rows'[r], offered[r] \subseteq offered'[r]
  PROVE  \E o \in offered'[r] : IdsOf(o[2]) \subseteq {row[1] : row \in rows'[r]}
BY DEF SomeAnswerKept, RowIds

LEMMA ProgressStep ==
  ASSUME TypeOK, NEW c \in Crawls, Act(c), Lifecycle(c), ProgressInv(c)
  PROVE  ProgressInv(c)'
<1> USE DEF dbVars, iterVars
<1>0. Run(c) \in RunIds /\ Run(c) = <<c, idx[c]>> /\ Run(c)' = <<c, idx'[c]>>
  BY OwnRow DEF Run
<1>1. /\ pc \in [Crawls -> PCs] /\ dry \in [Crawls -> BOOLEAN] /\ idx \in [Crawls -> Adapters]
      /\ ref \in [Crawls -> References] /\ batch \in [Crawls -> Seq(Ids)]
      /\ ok \in [Crawls -> Nat] /\ failed \in [Crawls -> Nat]
  BY DEF TypeOK
<1> DEFINE Loop == Recording \cup {"fetch", "except", "finish"}
<1>2. ASSUME pc'[c] \notin Loop PROVE ProgressInv(c)'
  BY <1>2 DEF ProgressInv, Recording
<1>3. ASSUME dry'[c] PROVE ProgressInv(c)'
  BY <1>3 DEF ProgressInv
\* The end of the loop body for a reference that worked.
<1>4. ASSUME NextReference(c), pc[c] \in {"fetch", "record_commit"}, UNCHANGED <<idx, failed>>,
             failed[c] = 0 => /\ Answered(Run(c))' = 1..ref[c]
                              /\ RowIds(Run(c))' = OfferedIds(Run(c))',
             SomeAnswerKept(Run(c))'
      PROVE  ProgressInv(c)'
  <2>1. \/ pc'[c] = "fetch" /\ ref'[c] = ref[c] + 1
        \/ pc'[c] = "finish" /\ ref[c] = NReferences
    BY <1>1, <1>4 DEF NextReference, Goto, References
  <2>2. ref[c] \in Nat
    BY <1>1 DEF References
  <2> QED
    BY <1>4, <2>1, <2>2 DEF ProgressInv, Complete, Recording
\* A step that stays in the loop with a failure on its way to be counted.
<1>5. ASSUME pc'[c] = "except" \/ failed'[c] > 0, pc'[c] \notin Recording,
             pc[c] \in Loop, UNCHANGED <<idx, dry, ok, offered>>, rows[Run(c)] \subseteq rows'[Run(c)]
      PROVE  ProgressInv(c)'
  <2>1. Run(c)' = Run(c)
    BY <1>0, <1>5
  <2>2. ASSUME ~dry[c], ok[c] > 0 PROVE SomeAnswerKept(Run(c))'
    <3>1. SomeAnswerKept(Run(c))
      BY <1>5, <2>2 DEF ProgressInv
    <3> QED
      BY <1>5, <2>1, <3>1, KeptStays DEF SomeAnswerKept, RowIds
  <2> QED
    BY <1>5, <2>2 DEF ProgressInv
<1>6. CASE Launch(c) \/ Skip(c) \/ Unhealthy(c) \/ StartRun(c) \/ Catastrophe(c) \/ Finish(c)
           \/ FinishUnhealthy(c) \/ FinishCatastrophe(c) \/ Write(c) \/ Crash(c)
  <2>1. pc'[c] \notin Loop
    BY <1>1, <1>6 DEF Launch, Skip, Unhealthy, StartRun, Catastrophe, Finish, FinishUnhealthy,
       FinishCatastrophe, Write, Crash, Return, Goto, Recording
  <2> QED
    BY <1>2, <2>1
<1>7. CASE Healthy(c)
  <2>1. CASE dry[c]
    BY <1>3, <1>7, <2>1 DEF Healthy
  <2>2. CASE ~dry[c]
    BY <1>1, <1>2, <1>7, <2>2 DEF Healthy, Goto, Recording
  <2> QED
    BY <2>1, <2>2
<1>8. CASE StartCommit(c)
  <2>1. CASE pc'[c] # "fetch"
    BY <1>1, <1>2, <1>8, <2>1 DEF StartCommit, Goto, Recording
  <2>2. CASE pc'[c] = "fetch"
    <3>1. BeginIterate(c) /\ UNCHANGED <<rows, offered, idx>>
      BY <1>1, <1>8, <2>2 DEF StartCommit, Goto
    <3>2. rows[Run(c)] = {} /\ offered[Run(c)] = {} /\ Run(c)' = Run(c)
      BY <1>0, <1>8, <3>1 DEF StartCommit, Lifecycle, Untouched
    <3>3. RowIds(Run(c))' = {} /\ OfferedIds(Run(c))' = {} /\ Answered(Run(c))' = {}
      BY <3>1, <3>2 DEF RowIds, OfferedIds, Answered
    <3>4. ref'[c] = 1 /\ ok'[c] = 0
      BY <1>1, <3>1 DEF BeginIterate
    <3> QED
      BY <2>2, <3>3, <3>4 DEF ProgressInv, Complete, Recording
  <2> QED
    BY <2>1, <2>2
<1>9. CASE Fetch(c) /\ ~dry[c]
  <2>0. pc[c] = "fetch" /\ UNCHANGED <<rows, idx, failed, dry>> /\ Run(c)' = Run(c)
    BY <1>0, <1>9 DEF Fetch
  <2>1. PICK b \in Batches :
          /\ offered' = [offered EXCEPT ![Run(c)] = @ \cup {<<ref[c], b>>}]
          /\ \/ b = <<>> /\ NextReference(c)
             \/ batch' = [batch EXCEPT ![c] = b] /\ Goto(c, "record") /\ UNCHANGED <<ref, ok>>
    BY <1>9 DEF Fetch
  <2>2. /\ offered'[Run(c)] = offered[Run(c)] \cup {<<ref[c], b>>}
        /\ OfferedIds(Run(c))' = OfferedIds(Run(c)) \cup IdsOf(b)
        /\ Answered(Run(c))' = Answered(Run(c)) \cup {ref[c]}
    BY <2>0, <2>1, OfferedMore
  <2>3. RowIds(Run(c))' = RowIds(Run(c))
    BY <2>0 DEF RowIds
  <2>4. failed[c] = 0 => Complete(Run(c), ref[c] - 1)
    BY <1>9, <2>0 DEF ProgressInv
  <2>5. 1..(ref[c] - 1) \cup {ref[c]} = 1..ref[c]
    BY <1>1 DEF References
  <2>6. CASE b = <<>> /\ NextReference(c)
    <3>1. IdsOf(b) = {}
      BY <2>6 DEF IdsOf
    <3>2. SomeAnswerKept(Run(c))'
      <4>1. <<ref[c], b>>[2] = b /\ IdsOf(b) \subseteq RowIds(Run(c))'
        BY <3>1
      <4>2. \E o \in offered'[Run(c)] : IdsOf(o[2]) \subseteq RowIds(Run(c))'
        BY <2>2, <4>1
      <4> QED
        BY <2>0, <4>2 DEF SomeAnswerKept, RowIds
    <3> QED
      BY <1>4, <2>0, <2>2, <2>3, <2>4, <2>5, <2>6, <3>1, <3>2 DEF Complete
  <2>7. CASE batch' = [batch EXCEPT ![c] = b] /\ Goto(c, "record") /\ UNCHANGED <<ref, ok>>
    <3>1. pc'[c] = "record" /\ batch'[c] = b
      BY <1>1, <2>7 DEF Goto
    <3>2. ok[c] > 0 => SomeAnswerKept(Run(c))'
      BY <1>9, <2>0, <2>2, KeptStays DEF ProgressInv, SomeAnswerKept, RowIds
    <3>3. <<ref'[c], batch'[c]>> \in offered'[Run(c)']
      BY <2>0, <2>2, <2>7, <3>1
    <3> QED
      BY <2>0, <2>2, <2>3, <2>4, <2>5, <2>7, <3>1, <3>2, <3>3 DEF ProgressInv, Complete, Recording
  <2> QED
    BY <2>1, <2>6, <2>7
<1>10. CASE FetchRaises(c)
  BY <1>1, <1>5, <1>10 DEF FetchRaises, Goto, Recording
<1>11. CASE Record(c)
  <2>1. CASE pc'[c] = "except"
    BY <1>5, <1>11, <2>1 DEF Record, Recording
  <2>2. CASE pc'[c] = "record_commit"
    <3>1. pc[c] = "record" /\ Run(c)' = Run(c) /\ UNCHANGED <<rows, offered, ref, batch, ok, failed, dry>>
      BY <1>0, <1>11 DEF Record
    <3>2. /\ RowIds(Run(c))' = RowIds(Run(c)) /\ OfferedIds(Run(c))' = OfferedIds(Run(c))
          /\ Answered(Run(c))' = Answered(Run(c)) /\ (SomeAnswerKept(Run(c))' <=> SomeAnswerKept(Run(c)))
      BY <3>1 DEF RowIds, OfferedIds, Answered, SomeAnswerKept
    <3> QED
      BY <2>2, <3>1, <3>2 DEF ProgressInv, Recording
  <2> QED
    BY <1>1, <1>11, <2>1, <2>2 DEF Record, Goto
<1>12. CASE RecordCommit(c)
  <2>0. /\ pc[c] = "record_commit" /\ UNCHANGED <<idx, dry, failed, offered, batch>>
        /\ Run(c)' = Run(c) /\ ~dry[c]
    BY <1>0, <1>12 DEF RecordCommit, Lifecycle, Recording
  <2>1. CASE Goto(c, "except") /\ UNCHANGED ok
    <3>1. rows[Run(c)] \subseteq rows'[Run(c)]
      BY <1>12, InsertListingsIds DEF RecordCommit
    <3> QED
      BY <1>1, <1>5, <2>0, <2>1, <3>1 DEF Goto, Recording
  <2>2. CASE InsertListings(c) /\ NextReference(c)
    <3>1. RowIds(Run(c))' = RowIds(Run(c)) \cup IdsOf(batch[c])
      BY <2>0, <2>2, InsertListingsIds
    <3>2. <<ref[c], batch[c]>> \in offered'[Run(c)]
      BY <2>0 DEF ProgressInv, Recording
    <3>3. SomeAnswerKept(Run(c))'
      <4>1. <<ref[c], batch[c]>>[2] = batch[c] /\ IdsOf(batch[c]) \subseteq RowIds(Run(c))'
        BY <3>1
      <4>2. \E o \in offered'[Run(c)] : IdsOf(o[2]) \subseteq RowIds(Run(c))'
        BY <3>2, <4>1
      <4> QED
        BY <2>0, <4>2 DEF SomeAnswerKept, RowIds
    <3>4. OfferedIds(Run(c))' = OfferedIds(Run(c)) /\ Answered(Run(c))' = Answered(Run(c))
      BY <2>0 DEF OfferedIds, Answered
    <3> QED
      BY <1>4, <2>0, <2>2, <3>1, <3>3, <3>4 DEF ProgressInv, Recording
  <2> QED
    BY <1>12, <2>1, <2>2 DEF RecordCommit, Applied
<1>13. CASE Except(c)
  <2>1. CASE pc'[c] = "catastrophe"
    BY <1>2, <2>1 DEF Recording
  <2>2. CASE pc'[c] # "catastrophe"
    <3>1. failed'[c] > 0 /\ pc'[c] \in {"fetch", "finish"}
      BY <1>1, <1>13, <2>2 DEF Except, NextReference, Goto
    <3> QED
      BY <1>5, <1>13, <3>1 DEF Except, Recording
  <2> QED
    BY <2>1, <2>2
<1>14. CASE Fetch(c) /\ dry[c]
  BY <1>3, <1>14 DEF Fetch
<1> QED
  BY <1>6, <1>7, <1>8, <1>9, <1>10, <1>11, <1>12, <1>13, <1>14 DEF Act, Step

\* No step makes a published row lie.
LEMMA TruthStep ==
  ASSUME Base, Base', StatusIsTruthful, NEW c \in Crawls, Act(c), ProgressInv(c), [Next]_vars
  PROVE  StatusIsTruthful'
<1> SUFFICES ASSUME NEW r \in RunIds
             PROVE  /\ runs'[r].status = "success" => /\ Answered(r)' = References
                                                      /\ RowIds(r)' = OfferedIds(r)'
                    /\ runs'[r].status = "partial" => SomeAnswerKept(r)'
  BY DEF StatusIsTruthful, SomeAnswerKept, References
<1>0. /\ runs[r].status = "success" => Answered(r) = References /\ RowIds(r) = OfferedIds(r)
      /\ runs[r].status = "partial" => SomeAnswerKept(r)
  BY DEF StatusIsTruthful, SomeAnswerKept
<1>1. CASE UNCHANGED <<runs[r], rows[r], offered[r]>>
  BY <1>0, <1>1 DEF RowIds, OfferedIds, Answered, SomeAnswerKept
<1>2. CASE r # Run(c)
  BY <1>1, <1>2, LocalStep, OtherRows DEF Base
<1>3. CASE r = Run(c) /\ runs'[r] = runs[r]
  <2>1. CASE runs[r].status \in Published
    <3>1. rows'[r] = rows[r]
      BY <2>1, FrozenStep DEF Phase, Published
    <3>2. ~(pc[c] = "fetch" /\ ~dry[c])
      BY <1>3, <2>1 DEF Base, Lifecycle, HasRow, Published
    <3>3. offered'[r] = offered[r]
      BY <3>2, TablesChange DEF TablesStep
    <3> QED
      BY <1>1, <1>3, <3>1, <3>3
  <2> QED
    BY <1>3, <2>1 DEF Published
<1>4. CASE r = Run(c) /\ runs'[r] # runs[r]
  <2>1. \/ pc[c] = "start_commit" /\ InsertRun(c)
        \/ /\ pc[c] = "finish" /\ ~dry[c] /\ UpdateRun(c, Status(ok[c], failed[c]), found[c])
           /\ rows' = rows /\ offered' = offered
        \/ UpdateRun(c, "failed", 0)
    BY <1>4, TablesChange DEF TablesStep
  <2>2. runs \in [RunIds -> RunRows] /\ ok[c] \in Nat /\ failed[c] \in Nat
    BY DEF Base, TypeOK
  <2>3. CASE InsertRun(c) \/ UpdateRun(c, "failed", 0)
    <3>1. runs'[r].status = "failed"
      BY <1>4, <2>2, <2>3 DEF InsertRun, NewRun, UpdateRun
    <3> QED
      BY <3>1
  <2>4. CASE /\ pc[c] = "finish" /\ ~dry[c] /\ UpdateRun(c, Status(ok[c], failed[c]), found[c])
             /\ rows' = rows /\ offered' = offered
    <3>1. runs'[r].status = Status(ok[c], failed[c])
      BY <1>4, <2>2, <2>4 DEF UpdateRun
    <3>2. /\ failed[c] = 0 => Complete(r, NReferences)
          /\ ok[c] > 0 => SomeAnswerKept(r)
      BY <1>4, <2>4 DEF ProgressInv
    <3>3. /\ runs'[r].status = "success" => failed[c] = 0
          /\ runs'[r].status = "partial" => ok[c] > 0
      BY <2>2, <3>1 DEF Status
    <3> QED
      BY <2>4, <3>2, <3>3 DEF Complete, References, RowIds, OfferedIds, Answered, SomeAnswerKept
  <2> QED
    BY <2>1, <2>3, <2>4
<1> QED
  BY <1>2, <1>3, <1>4

LEMMA IInvInit == Init => IInv
<1> SUFFICES ASSUME Init PROVE IInv
  OBVIOUS
<1>1. Base
  BY BaseInit
<1>2. StatusIsTruthful
  BY DEF Init, StatusIsTruthful, Absent
<1>3. \A c \in Crawls : ResultInv(c) /\ ProgressInv(c)
  BY DEF Init, ResultInv, ProgressInv, NoResult, Statuses, Recording
<1> QED
  BY <1>1, <1>2, <1>3 DEF Base, IInv

LEMMA IInvStep == IInv /\ [Next]_vars => IInv'
<1> SUFFICES ASSUME IInv, [Next]_vars PROVE IInv'
  OBVIOUS
<1>1. Base /\ Base'
  BY BaseStep DEF IInv, Base
<1>2. CASE UNCHANGED vars
  BY <1>1, <1>2 DEF IInv, Base, vars, StatusIsTruthful, ResultInv, ProgressInv, Complete,
     SomeAnswerKept, RowIds, OfferedIds, Answered, Run
<1>3. ASSUME NEW c \in Crawls, Act(c) PROVE IInv'
  <2>1. StatusIsTruthful'
    BY <1>1, <1>3, TruthStep DEF IInv
  <2>2. ResultInv(c)' /\ ProgressInv(c)'
    BY <1>3, ResultStep, ProgressStep DEF IInv
  <2>3. ASSUME NEW d \in Crawls, d # c PROVE ResultInv(d)' /\ ProgressInv(d)'
    <3>1. Local(c)
      BY <1>3, LocalStep DEF IInv
    <3> QED
      BY <2>3, <3>1, OtherProgress DEF IInv
  <2> QED
    BY <1>1, <2>1, <2>2, <2>3 DEF IInv, Base
<1> QED
  BY <1>2, <1>3 DEF Next, Act

\* The strengthening the two theorems below follow from: the row an execution works on is
\* open, its session is clean, its counters and rows agree with what the source answered.
THEOREM InductiveInvariant == Spec => []IInv
BY IInvInit, IInvStep, PTL DEF Spec

\* A success row has every listing of every reference, a partial row some
\* reference in full.
THEOREM CrawlStatusIsTruthful == Spec => []StatusIsTruthful
<1>1. IInv => StatusIsTruthful
  BY DEF IInv
<1> QED
  BY <1>1, InductiveInvariant, PTL

\* What the process reports is what the database says.
THEOREM CrawlReportMatchesRow == Spec => []ReportMatchesRow
<1>1. IInv => ReportMatchesRow
  BY DEF IInv, ResultInv, ReportMatchesRow
<1> QED
  BY <1>1, InductiveInvariant, PTL

----------------------------------------------------------------------------
(* Every reference is tried                                                *)

\* The counters say how far the loop over the references is.
CountInv(c) ==
  /\ pc[c] \in Recording \cup {"fetch", "except"} => ok[c] + failed[c] = ref[c] - 1
  /\ pc[c] = "finish" => ok[c] + failed[c] = NReferences

LEMMA CountStep ==
  ASSUME TypeOK, NEW c \in Crawls, Act(c), CountInv(c)
  PROVE  CountInv(c)'
<1> USE DEF dbVars, iterVars
<1>1. /\ pc \in [Crawls -> PCs] /\ ref \in [Crawls -> References]
      /\ ok \in [Crawls -> Nat] /\ failed \in [Crawls -> Nat]
  BY DEF TypeOK
<1> DEFINE Loop == Recording \cup {"fetch", "except"}
<1>2. ASSUME pc'[c] \notin Loop \cup {"finish"} PROVE CountInv(c)'
  BY <1>2 DEF CountInv
<1>3. ASSUME pc[c] \in Loop, pc'[c] \in Loop, UNCHANGED <<ref, ok, failed>> PROVE CountInv(c)'
  BY <1>3 DEF CountInv, Recording
<1>4. ASSUME pc[c] \in Loop, NextReference(c), ok'[c] + failed'[c] = ok[c] + failed[c] + 1
      PROVE  CountInv(c)'
  <2>1. \/ pc'[c] = "fetch" /\ ref'[c] = ref[c] + 1
        \/ pc'[c] = "finish" /\ ref[c] = NReferences
    BY <1>1, <1>4 DEF NextReference, Goto, References
  <2>2. ok[c] + failed[c] = ref[c] - 1 /\ ref[c] \in Nat /\ ok[c] \in Nat /\ failed[c] \in Nat
    BY <1>1, <1>4 DEF CountInv, References
  <2> QED
    BY <1>4, <2>1, <2>2 DEF CountInv, Recording
<1>5. ASSUME pc'[c] = "fetch", BeginIterate(c) PROVE CountInv(c)'
  BY <1>1, <1>5 DEF CountInv, BeginIterate, Recording
<1>6. CASE Launch(c) \/ Skip(c) \/ Unhealthy(c) \/ StartRun(c) \/ Catastrophe(c) \/ Finish(c)
           \/ FinishUnhealthy(c) \/ FinishCatastrophe(c) \/ Write(c) \/ Crash(c)
  <2>1. pc'[c] \notin Loop \cup {"finish"} \/ Finish(c)
    BY <1>1, <1>6 DEF Launch, Skip, Unhealthy, StartRun, Catastrophe,
       FinishUnhealthy, FinishCatastrophe, Write, Crash, Return, Goto, Recording
  <2>2. Finish(c) => pc'[c] \in {"health", "write", "aborted"}
    BY <1>1 DEF Finish, Return, Goto
  <2> QED
    BY <1>2, <2>1, <2>2 DEF Recording
<1>7. CASE Healthy(c)
  BY <1>1, <1>2, <1>5, <1>7 DEF Healthy, Goto, Recording
<1>8. CASE StartCommit(c)
  <2>1. CASE pc'[c] = "fetch"
    BY <1>1, <1>5, <1>8, <2>1 DEF StartCommit, Goto
  <2>2. CASE pc'[c] # "fetch"
    BY <1>1, <1>2, <1>8, <2>2 DEF StartCommit, Goto, Recording
  <2> QED
    BY <2>1, <2>2
<1>9. CASE Fetch(c)
  <2>1. PICK b \in Batches :
          \/ CountOk(c, b) /\ NextReference(c)
          \/ Goto(c, "record") /\ UNCHANGED <<ref, ok>>
    BY <1>9 DEF Fetch
  <2>2. pc[c] = "fetch" /\ failed' = failed
    BY <1>9 DEF Fetch
  <2>3. CASE CountOk(c, b) /\ NextReference(c)
    <3>1. ok'[c] = ok[c] + 1
      BY <1>1, <2>3 DEF CountOk
    <3> QED
      BY <1>1, <1>4, <2>2, <2>3, <3>1
  <2>4. CASE Goto(c, "record") /\ UNCHANGED <<ref, ok>>
    BY <1>1, <1>3, <2>2, <2>4 DEF Goto, Recording
  <2> QED
    BY <2>1, <2>3, <2>4
<1>10. CASE FetchRaises(c)
  BY <1>1, <1>3, <1>10 DEF FetchRaises, Goto
<1>11. CASE Record(c)
  BY <1>1, <1>3, <1>11 DEF Record, Goto, Recording
<1>12. CASE RecordCommit(c)
  <2>1. pc[c] = "record_commit" /\ failed' = failed
    BY <1>12 DEF RecordCommit
  <2>2. CASE CountOk(c, batch[c]) /\ NextReference(c)
    <3>1. ok'[c] = ok[c] + 1
      BY <1>1, <2>2 DEF CountOk
    <3> QED
      BY <1>1, <1>4, <2>1, <2>2, <3>1 DEF Recording
  <2>3. CASE Goto(c, "except") /\ UNCHANGED <<ref, found, ok>>
    BY <1>1, <1>3, <2>1, <2>3 DEF Goto, Recording
  <2> QED
    BY <1>12, <2>2, <2>3 DEF RecordCommit
<1>13. CASE Except(c)
  <2>1. pc[c] = "except" /\ failed'[c] = failed[c] + 1 /\ ok' = ok
    BY <1>1, <1>13 DEF Except
  <2>2. CASE NextReference(c)
    BY <1>1, <1>4, <2>1, <2>2
  <2>3. CASE Goto(c, "catastrophe")
    BY <1>1, <1>2, <2>3 DEF Goto, Recording
  <2> QED
    BY <1>13, <2>2, <2>3 DEF Except
<1> QED
  BY <1>6, <1>7, <1>8, <1>9, <1>10, <1>11, <1>12, <1>13 DEF Act, Step

LEMMA CountInvariant == Spec => [](\A c \in Crawls : CountInv(c))
<1>1. Init => \A c \in Crawls : CountInv(c)
  BY DEF Init, CountInv, Recording
<1>2. TypeOK /\ (\A c \in Crawls : CountInv(c)) /\ [Next]_vars => (\A c \in Crawls : CountInv(c))'
  <2> SUFFICES ASSUME TypeOK, \A c \in Crawls : CountInv(c), [Next]_vars,
                      NEW d \in Crawls
               PROVE  CountInv(d)'
    OBVIOUS
  <2>1. CASE UNCHANGED vars
    BY <2>1 DEF vars, CountInv
  <2>2. ASSUME NEW c \in Crawls, Act(c) PROVE CountInv(d)'
    <3>1. CASE d = c
      BY <2>2, <3>1, CountStep
    <3>2. CASE d # c
      <4>1. Local(c)
        BY <2>2, LocalStep
      <4> QED
        BY <3>2, <4>1, OtherSame DEF CountInv
    <3> QED
      BY <3>1, <3>2
  <2> QED
    BY <2>1, <2>2 DEF Next, Act
<1> QED
  BY <1>1, <1>2, TypeCorrect, PTL DEF Spec

\* A run that comes to its end has counted every reference, as one that worked or failed
\* (runner.py:118-160).
THEOREM CrawlEveryReferenceTried == Spec => []EveryReferenceTried
<1>1. (\A c \in Crawls : CountInv(c)) => EveryReferenceTried
  BY DEF CountInv, EveryReferenceTried
<1> QED
  BY <1>1, CountInvariant, PTL

----------------------------------------------------------------------------
(* The exit code                                                           *)

\* Every adapter the execution has left has a result, and one that was skipped has no row.
ExitInv(c) ==
  /\ \A a \in Adapters : a < idx[c] => result[c][a].status # "none"
  /\ pc[c] \in {"write", "done"} => \A a \in Adapters : result[c][a].status # "none"
  /\ \A a \in Adapters : result[c][a].status = "skipped" => runs[<<c, a>>].status = "absent"

\* A step leaves the results alone, or adds the one of the adapter it leaves.
LEMMA ResultChange ==
  ASSUME TypeOK, NEW c \in Crawls, Act(c)
  PROVE  \/ UNCHANGED <<idx, result>> /\ (pc'[c] \in {"write", "done"} => pc[c] = "write")
         \/ /\ pc[c] \notin Ended \cup {"write"}
            /\ \E st \in Statuses, n \in Nat : Return(c, st, n)
         \/ Skip(c)
<1> USE DEF dbVars, iterVars
<1>1. pc \in [Crawls -> PCs] /\ found[c] \in Nat
  BY DEF TypeOK
<1>2. CASE Launch(c) \/ Healthy(c) \/ StartRun(c) \/ StartCommit(c) \/ FetchRaises(c) \/ Record(c)
           \/ Catastrophe(c) \/ Write(c) \/ Crash(c)
  BY <1>1, <1>2 DEF Launch, Healthy, StartRun, StartCommit, FetchRaises, Record, Catastrophe,
     Write, Crash, Goto
<1>3. CASE Fetch(c) \/ RecordCommit(c) \/ Except(c)
  BY <1>1, <1>3 DEF Fetch, RecordCommit, Except, NextReference, Goto
<1>4. CASE Finish(c)
  <2> DEFINE st == Status(ok[c], failed[c])
  <2>1. st \in Statuses
    BY StatusType
  <2>2. Return(c, st, found[c]) \/ (Goto(c, "aborted") /\ UNCHANGED <<idx, tx, result>>)
    BY <1>4 DEF Finish
  <2> HIDE DEF st
  <2> QED
    BY <1>1, <1>4, <2>1, <2>2 DEF Finish, Goto, Ended
<1>5. CASE Unhealthy(c) \/ FinishUnhealthy(c) \/ FinishCatastrophe(c)
  <2>1. "failed" \in Statuses /\ pc[c] \notin Ended \cup {"write"}
    BY <1>5 DEF Unhealthy, FinishUnhealthy, FinishCatastrophe, Statuses, Ended
  <2>2. \/ Return(c, "failed", 0)
        \/ (Goto(c, "aborted") \/ Goto(c, "start_run")) /\ UNCHANGED <<idx, result>>
    BY <1>5 DEF Unhealthy, FinishUnhealthy, FinishCatastrophe
  <2> QED
    BY <1>1, <2>1, <2>2 DEF Goto
<1> QED
  BY <1>2, <1>3, <1>4, <1>5 DEF Act, Step

LEMMA ExitStep ==
  ASSUME TypeOK, NEW c \in Crawls, Act(c), Lifecycle(c), ResultInv(c), ExitInv(c)
  PROVE  ExitInv(c)'
<1>0. Local(c) /\ Run(c) \in RunIds /\ Run(c) = <<c, idx[c]>>
  BY LocalStep, OwnRow DEF Run
<1>1. /\ pc \in [Crawls -> PCs] /\ idx \in [Crawls -> Adapters]
      /\ runs \in [RunIds -> RunRows] /\ result \in [Crawls -> [Adapters -> SourceResults]]
  BY DEF TypeOK
<1>2. \A a \in Adapters : a # idx[c] => runs'[<<c, a>>] = runs[<<c, a>>]
  BY <1>0, OtherRows, OwnRow
<1>3. pc[c] \notin Ended \cup {"write"} => result[c][idx[c]].status = "none"
  <2>1. idx[c] \in Adapters /\ idx[c] >= idx[c]
    BY <1>1 DEF Adapters
  <2> QED
    BY <2>1 DEF ResultInv, NoResult
<1>4. pc[c] \in Ended \cup {"write"} => runs' = runs
  BY TablesChange DEF TablesStep, Ended
<1>5. CASE UNCHANGED <<idx, result>> /\ (pc'[c] \in {"write", "done"} => pc[c] = "write")
  <2>1. \A a \in Adapters : result[c][a].status = "skipped" => runs'[<<c, a>>] = runs[<<c, a>>]
    BY <1>2, <1>3, <1>4
  <2> QED
    BY <1>5, <2>1 DEF ExitInv
<1>6. ASSUME NEW st \in Statuses \cup {"skipped"}, NEW n, Return(c, st, n),
             st = "skipped" => runs'[Run(c)].status = "absent"
      PROVE  ExitInv(c)'
  <2>1. result'[c] = [result[c] EXCEPT ![idx[c]] = [status |-> st, found |-> n]]
    BY <1>1, <1>6 DEF Return
  <2>2. \A a \in Adapters : result'[c][a] = IF a = idx[c] THEN [status |-> st, found |-> n]
                                            ELSE result[c][a]
    BY <1>1, <2>1
  <2>3. \/ idx'[c] = idx[c] + 1 /\ pc'[c] = "health"
        \/ idx'[c] = idx[c] /\ idx[c] = NAdapters
    BY <1>1, <1>6 DEF Return, Goto, Adapters
  <2>4. st # "none"
    BY DEF Statuses
  <2>5. \A a \in Adapters : a <= idx[c] => result'[c][a].status # "none"
    BY <1>1, <2>2, <2>4 DEF ExitInv, Adapters
  <2>6. \A a \in Adapters : a < idx'[c] => result'[c][a].status # "none"
    BY <1>1, <2>3, <2>5 DEF Adapters
  <2>7. pc'[c] \in {"write", "done"} => \A a \in Adapters : result'[c][a].status # "none"
    BY <1>1, <2>3, <2>5 DEF Adapters
  <2>8. \A a \in Adapters : result'[c][a].status = "skipped" => runs'[<<c, a>>].status = "absent"
    BY <1>0, <1>2, <1>6, <2>2 DEF ExitInv
  <2> QED
    BY <2>6, <2>7, <2>8 DEF ExitInv
<1>7. CASE \E st \in Statuses, n \in Nat : Return(c, st, n)
  BY <1>6, <1>7 DEF Statuses
<1>8. CASE Skip(c)
  <2>1. pc[c] = "health" /\ Return(c, "skipped", 0) /\ runs' = runs
    BY <1>8 DEF Skip, dbVars
  <2>2. runs[Run(c)].status = "absent"
    BY <2>1 DEF Lifecycle, Untouched, Absent
  <2> QED
    BY <1>6, <2>1, <2>2
<1> QED
  BY <1>5, <1>7, <1>8, ResultChange

LEMMA ExitInvariant == Spec => [](\A c \in Crawls : ExitInv(c))
<1>1. Init => \A c \in Crawls : ExitInv(c)
  <2> SUFFICES ASSUME Init, NEW c \in Crawls PROVE ExitInv(c)
    OBVIOUS
  <2>1. idx[c] = 1 /\ pc[c] = "idle" /\ \A a \in Adapters : result[c][a] = NoResult
    BY DEF Init
  <2> QED
    BY <2>1 DEF ExitInv, NoResult, Adapters
<1>2. IInv /\ (\A c \in Crawls : ExitInv(c)) /\ [Next]_vars => (\A c \in Crawls : ExitInv(c))'
  <2> SUFFICES ASSUME IInv, \A c \in Crawls : ExitInv(c), [Next]_vars,
                      NEW d \in Crawls
               PROVE  ExitInv(d)'
    OBVIOUS
  <2>1. CASE UNCHANGED vars
    BY <2>1 DEF vars, ExitInv
  <2>2. ASSUME NEW c \in Crawls, Act(c) PROVE ExitInv(d)'
    <3>1. CASE d = c
      BY <2>2, <3>1, ExitStep DEF IInv
    <3>2. CASE d # c
      <4>1. Local(c)
        BY <2>2, LocalStep DEF IInv
      <4> QED
        BY <3>2, <4>1, OtherSame DEF ExitInv, IInv
    <3> QED
      BY <3>1, <3>2
  <2> QED
    BY <2>1, <2>2 DEF Next, Act
<1> QED
  BY <1>1, <1>2, InductiveInvariant, PTL DEF Spec

\* An execution that exits 0 leaves no failed row behind: what the exit code counts are the
\* reports, and they are what the rows say (cli.py:27-28).
THEOREM CrawlExitZeroMeansNoFailedRow == Spec => []ExitZeroMeansNoFailedRow
<1>1. IInv /\ (\A c \in Crawls : ExitInv(c)) => ExitZeroMeansNoFailedRow
  <2> SUFFICES ASSUME IInv, \A c \in Crawls : ExitInv(c), NEW c \in Crawls, ExitZero(c),
                      NEW a \in Adapters
               PROVE  runs[<<c, a>>].status # "failed"
    BY DEF ExitZeroMeansNoFailedRow
  <2>1. result[c][a].status \in {"success", "partial", "skipped"}
    BY DEF ExitZero, ExitInv, IInv, TypeOK, SourceResults, Statuses
  <2>2. CASE dry[c]
    BY <2>2 DEF IInv, Lifecycle, Untouched, Absent
  <2>3. CASE ~dry[c] /\ result[c][a].status \in {"success", "partial"}
    <3>1. runs[<<c, a>>].status = result[c][a].status
      BY <2>3 DEF IInv, ResultInv, Statuses
    <3> QED
      BY <2>3, <3>1
  <2>4. CASE result[c][a].status = "skipped"
    BY <2>4 DEF ExitInv
  <2> QED
    BY <2>1, <2>2, <2>3, <2>4
<1> QED
  BY <1>1, InductiveInvariant, ExitInvariant, PTL

----------------------------------------------------------------------------
(* listings_found                                                          *)

\* One batch adds no more rows than it has listings.
LEMMA NewRowsBounded ==
  ASSUME NEW r, NEW k, NEW b \in Seq(Ids)
  PROVE  IsFiniteSet(NewRows(r, k, b)) /\ Cardinality(NewRows(r, k, b)) <= Len(b)
<1> DEFINE all == {<<i, k>> : i \in IdsOf(b)}
           f == [n \in 1..Len(b) |-> <<b[n], k>>]
<1>1. Len(b) \in Nat /\ DOMAIN b = 1..Len(b)
  OBVIOUS
<1>2. IsFiniteSet(1..Len(b)) /\ Cardinality(1..Len(b)) = Len(b)
  BY <1>1, FS_Interval
<1>3. f \in Surjection(1..Len(b), all)
  BY <1>1 DEF Surjection, IdsOf
<1>4. IsFiniteSet(all) /\ Cardinality(all) <= Len(b)
  BY <1>2, <1>3, FS_Surjection
<1>5. NewRows(r, k, b) \subseteq all
  BY DEF NewRows
<1>6. /\ IsFiniteSet(NewRows(r, k, b))
      /\ Cardinality(NewRows(r, k, b)) <= Cardinality(all)
  BY <1>4, <1>5, FS_Subset
<1>7. Cardinality(all) \in Nat /\ Cardinality(NewRows(r, k, b)) \in Nat
  BY <1>4, <1>6, FS_CardinalityType
<1> QED
  BY <1>1, <1>4, <1>6, <1>7

Covered(r, n) == IsFiniteSet(rows[r]) /\ Cardinality(rows[r]) <= n

\* With no failure so far, what was counted covers what was inserted.
FoundInv(c) ==
  ~dry[c] /\ pc[c] \in Recording \cup {"fetch", "finish"} /\ failed[c] = 0
    => Covered(Run(c), found[c])

SuccessCovered == \A r \in RunIds : runs[r].status = "success" => Covered(r, runs[r].found)

LEMMA FoundStep ==
  ASSUME TypeOK, NEW c \in Crawls, Act(c), Lifecycle(c), FoundInv(c)
  PROVE  FoundInv(c)'
<1> USE DEF dbVars, iterVars
<1>0. Run(c) \in RunIds /\ Run(c) = <<c, idx[c]>> /\ Run(c)' = <<c, idx'[c]>>
  BY OwnRow DEF Run
<1>1. /\ pc \in [Crawls -> PCs] /\ dry \in [Crawls -> BOOLEAN] /\ batch[c] \in Seq(Ids)
      /\ failed \in [Crawls -> Nat] /\ found \in [Crawls -> Nat] /\ ok \in [Crawls -> Nat]
      /\ rows \in [RunIds -> SUBSET (Ids \X References)]
  BY DEF TypeOK
<1> DEFINE Loop == Recording \cup {"fetch", "finish"}
<1>2. ASSUME pc'[c] \notin Loop \/ dry'[c] \/ failed'[c] > 0 PROVE FoundInv(c)'
  BY <1>2 DEF FoundInv
<1>3. ASSUME pc[c] \in Loop, UNCHANGED <<idx, dry, failed, rows>>, found'[c] = found[c]
      PROVE  FoundInv(c)'
  BY <1>0, <1>3 DEF FoundInv, Covered
<1>4. CASE Launch(c) \/ Skip(c) \/ Unhealthy(c) \/ StartRun(c) \/ Catastrophe(c) \/ Finish(c)
           \/ FinishUnhealthy(c) \/ FinishCatastrophe(c) \/ Write(c) \/ Crash(c)
           \/ FetchRaises(c)
  <2>1. pc'[c] \notin Loop
    BY <1>1, <1>4 DEF Launch, Skip, Unhealthy, StartRun, Catastrophe, Finish, FetchRaises,
       FinishUnhealthy, FinishCatastrophe, Write, Crash, Return, Goto, Recording
  <2> QED
    BY <1>2, <2>1
<1>5. CASE Healthy(c)
  BY <1>1, <1>2, <1>5 DEF Healthy, Goto, Recording
<1>6. CASE StartCommit(c)
  <2>1. CASE pc'[c] # "fetch"
    BY <1>1, <1>2, <1>6, <2>1 DEF StartCommit, Goto, Recording
  <2>2. CASE pc'[c] = "fetch"
    <3>1. BeginIterate(c) /\ UNCHANGED <<rows, idx>>
      BY <1>1, <1>6, <2>2 DEF StartCommit, Goto
    <3>2. rows[Run(c)] = {} /\ Run(c)' = Run(c)
      BY <1>0, <1>6, <3>1 DEF StartCommit, Lifecycle, Untouched
    <3>3. found'[c] = 0
      BY <1>1, <3>1 DEF BeginIterate
    <3> QED
      <4>1. IsFiniteSet({}) /\ Cardinality({}) = 0
        BY FS_EmptySet
      <4>2. rows'[Run(c)'] = {}
        BY <3>1, <3>2
      <4> QED
        BY <3>3, <4>1, <4>2 DEF FoundInv, Covered
  <2> QED
    BY <2>1, <2>2
<1>7. CASE Fetch(c)
  <2>1. pc[c] = "fetch" /\ UNCHANGED <<idx, dry, failed, rows>>
    BY <1>7 DEF Fetch
  <2>2. CASE dry[c]
    BY <1>2, <2>1, <2>2
  <2>3. CASE ~dry[c]
    <3>1. CountOk(c, <<>>) \/ found' = found
      BY <1>7, <2>3 DEF Fetch
    <3>2. CountOk(c, <<>>) => found'[c] = found[c]
      BY <1>1 DEF CountOk
    <3> QED
      BY <1>3, <2>1, <3>1, <3>2 DEF Recording
  <2> QED
    BY <2>2, <2>3
<1>8. CASE Record(c)
  <2>1. pc[c] = "record" /\ UNCHANGED <<idx, dry, failed, rows, found>>
    BY <1>8 DEF Record
  <2> QED
    BY <1>3, <2>1 DEF Recording
<1>9. CASE RecordCommit(c)
  <2>1. pc[c] = "record_commit" /\ UNCHANGED <<idx, dry, failed>> /\ Run(c)' = Run(c)
    BY <1>0, <1>9 DEF RecordCommit
  <2>2. CASE Goto(c, "except")
    BY <1>1, <1>2, <2>2 DEF Goto, Recording
  <2>3. CASE InsertListings(c) /\ CountOk(c, batch[c])
    <3>1. found'[c] = found[c] + Len(batch[c])
      BY <1>1, <2>3 DEF CountOk
    <3> DEFINE new == NewRows(Run(c), ref[c], batch[c])
    <3>2. rows'[Run(c)] = rows[Run(c)] \cup new
      BY <1>0, <1>1, <2>3 DEF InsertListings
    <3>3. IsFiniteSet(new) /\ Cardinality(new) <= Len(batch[c])
      BY <1>1, NewRowsBounded
    <3> HIDE DEF new
    <3>4. SUFFICES ASSUME ~dry[c], failed[c] = 0 PROVE Covered(Run(c), found[c])'
      BY <2>1 DEF FoundInv
    <3>5. IsFiniteSet(rows[Run(c)]) /\ Cardinality(rows[Run(c)]) <= found[c]
      BY <2>1, <3>4 DEF FoundInv, Covered, Recording
    <3>6. /\ IsFiniteSet(rows[Run(c)] \cup new) /\ IsFiniteSet(rows[Run(c)] \cap new)
          /\ Cardinality(rows[Run(c)] \cup new)
               = Cardinality(rows[Run(c)]) + Cardinality(new) - Cardinality(rows[Run(c)] \cap new)
      BY <3>3, <3>5, FS_Union, FS_Intersection
    <3>7. /\ Cardinality(rows[Run(c)]) \in Nat /\ Cardinality(new) \in Nat
          /\ Cardinality(rows[Run(c)] \cap new) \in Nat
      BY <3>3, <3>5, <3>6, FS_CardinalityType
    <3>8. found[c] \in Nat /\ Len(batch[c]) \in Nat
      BY <1>1
    <3>9. Cardinality(rows[Run(c)] \cup new) <= found'[c]
      BY <3>1, <3>3, <3>5, <3>6, <3>7, <3>8
    <3> QED
      BY <2>1, <3>2, <3>6, <3>9 DEF Covered
  <2> QED
    BY <1>9, <2>2, <2>3 DEF RecordCommit, Applied
<1>10. CASE Except(c)
  <2>1. failed'[c] > 0
    BY <1>1, <1>10 DEF Except
  <2> QED
    BY <1>2, <2>1
<1> QED
  BY <1>4, <1>5, <1>6, <1>7, <1>8, <1>9, <1>10 DEF Act, Step

\* A row becomes a success only where nothing failed, and never changes afterwards.
LEMMA CoveredStep ==
  ASSUME Base, Base', [Next]_vars, SuccessCovered, \A c \in Crawls : FoundInv(c)
  PROVE  SuccessCovered'
<1> SUFFICES ASSUME NEW r \in RunIds, runs'[r].status = "success"
             PROVE  Covered(r, runs[r].found)'
  BY DEF SuccessCovered
<1>1. CASE runs[r].status = "success"
  <2>1. runs'[r] = runs[r] /\ rows'[r] = rows[r]
    BY <1>1, FrozenStep DEF Phase, Published
  <2> QED
    BY <1>1, <2>1 DEF SuccessCovered, Covered
<1>2. CASE runs[r].status # "success"
  <2>1. PICK c \in Crawls : Act(c)
    BY <1>2 DEF Next, Act, vars
  <2>2. r = Run(c)
    BY <1>2, <2>1, LocalStep, OtherRows DEF Base
  <2>3. runs \in [RunIds -> RunRows] /\ ok[c] \in Nat /\ failed[c] \in Nat
    BY DEF Base, TypeOK
  <2>4. /\ pc[c] = "finish" /\ ~dry[c] /\ UpdateRun(c, Status(ok[c], failed[c]), found[c])
        /\ rows' = rows
    <3>1. ~InsertRun(c) /\ ~UpdateRun(c, "failed", 0)
      BY <2>2, <2>3 DEF InsertRun, NewRun, UpdateRun
    <3> QED
      BY <1>2, <2>1, <3>1, TablesChange DEF TablesStep
  <2>5. runs'[r].found = found[c] /\ failed[c] = 0
    BY <2>2, <2>3, <2>4 DEF UpdateRun, Status
  <2> QED
    BY <2>2, <2>4, <2>5 DEF FoundInv, Covered
<1> QED
  BY <1>1, <1>2

LEMMA OtherFound ==
  ASSUME TypeOK, NEW c \in Crawls, Act(c), NEW d \in Crawls, d # c
  PROVE  found'[d] = found[d]
<1>1. found' = found \/ \E w : found' = [found EXCEPT ![c] = w]
  BY DEF Act, Step, Launch, Skip, Unhealthy, Healthy, StartRun, StartCommit, Fetch,
     FetchRaises, Record, RecordCommit, Except, Catastrophe, Finish, FinishUnhealthy,
     FinishCatastrophe, Write, Crash, CountOk, BeginIterate, iterVars
<1> QED
  BY <1>1 DEF TypeOK

LEMMA FoundInvariant == Spec => [](SuccessCovered /\ \A c \in Crawls : FoundInv(c))
<1>1. Init => SuccessCovered /\ \A c \in Crawls : FoundInv(c)
  BY DEF Init, SuccessCovered, FoundInv, Recording, Absent
<1>2. Base /\ Base' /\ SuccessCovered /\ (\A c \in Crawls : FoundInv(c)) /\ [Next]_vars
        => (SuccessCovered /\ \A c \in Crawls : FoundInv(c))'
  <2> SUFFICES ASSUME Base, Base', SuccessCovered, \A c \in Crawls : FoundInv(c), [Next]_vars,
                      NEW d \in Crawls
               PROVE  FoundInv(d)'
    BY CoveredStep
  <2>1. CASE UNCHANGED vars
    BY <2>1 DEF vars, FoundInv, Covered, Run
  <2>2. ASSUME NEW c \in Crawls, Act(c) PROVE FoundInv(d)'
    <3>1. CASE d = c
      BY <2>2, <3>1, FoundStep DEF Base
    <3>2. CASE d # c
      <4>1. Local(c) /\ found'[d] = found[d]
        BY <2>2, <3>2, LocalStep, OtherFound DEF Base
      <4>2. Run(d)' = Run(d) /\ rows'[Run(d)] = rows[Run(d)]
        BY <3>2, <4>1, OtherSame DEF Base
      <4> QED
        BY <3>2, <4>1, <4>2, OtherSame DEF Base, FoundInv, Covered
    <3> QED
      BY <3>1, <3>2
  <2> QED
    BY <2>1, <2>2 DEF Next, Act
<1> QED
  BY <1>1, <1>2, BaseInvariant, PTL DEF Spec

\* listings_found of a success row is never lower than the number of its listings, although
\* a listing that came twice is counted twice (runner.py:128-133, storage.py:91-104).
THEOREM CrawlFoundCoversRows == Spec => []FoundCoversRows
<1>1. Base /\ SuccessCovered => FoundCoversRows
  BY DEF Base, SuccessCovered, Covered, FoundCoversRows
<1> QED
  BY <1>1, BaseInvariant, FoundInvariant, PTL
=============================================================================
