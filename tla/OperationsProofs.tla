-------------------------- MODULE OperationsProofs --------------------------
(***************************************************************************)
(* What holds of what operates the system, for any number of builds, of    *)
(* backups and of days, and any retention.                                 *)
(***************************************************************************)
EXTENDS MCOperations, TLAPS

-----------------------------------------------------------------------------
\* A build at a step has done the steps before it, on jobs nobody has changed since.
BuildInv(b) ==
  /\ pc[b] \in {"crawlJob", "migrations", "smoke", "tag"} => migrateImage = b
  /\ pc[b] \in {"migrations", "smoke", "tag"} => crawlImage = b
  /\ pc[b] \in {"smoke", "tag"} => schema = b
  /\ pc[b] = "tag" => b \in passed

\* The job has an image that passed, but from its update to the dry run, and until the
\* rollback is through.
Unsure(b) == pc[b] \in {"migrations", "smoke", "rollback"}

JobInv == Unkilled /\ knownGood # 0 /\ ~stuck /\ (\A b \in Builds : ~Unsure(b))
            => crawlImage \in passed

\* Builds are pushed in order, so the one in progress is the newest.
OrderInv == /\ \A a, b \in Builds : a < b /\ pc[a] = "queued" => pc[b] = "queued"
            /\ \A a, b \in Builds : a < b /\ InProgress(a) => pc[b] = "queued"
            /\ \A b \in Builds : pc[b] = "done" => b <= knownGood

AloneInv == /\ \A a, b \in Builds : InProgress(a) /\ InProgress(b) => a = b
            /\ OrderInv
            /\ \A b \in Builds : BuildInv(b)
            /\ JobInv

CrawlerInv == KnownGoodIsGood /\ (~overlapped => AloneInv)

LEMMA CrawlerInit == Init => CrawlerInv
<1> SUFFICES ASSUME Init PROVE CrawlerInv
  OBVIOUS
<1>1. TypeOK /\ knownGood <= schema
  <2>1. 0 \in 0..LastBuild
    BY LastBuildAssumption
  <2>2. pc \in [Builds -> {"queued", "build", "rollback", "done", "failed", "killed"} \cup Steps]
    BY DEF Init
  <2>3. stuck \in BOOLEAN /\ overlapped \in BOOLEAN
    BY DEF Init
  <2>4. passed \subseteq 0..LastBuild
    BY DEF Init
  <2>5. knownGood <= schema
    BY DEF Init
  <2> QED
    BY <2>1, <2>2, <2>3, <2>4, <2>5 DEF Init, TypeOK
<1>2. AloneInv
  BY DEF Init, AloneInv, OrderInv, BuildInv, JobInv, InProgress, Steps
<1> QED
  BY <1>1, <1>2 DEF Init, CrawlerInv, KnownGoodIsGood, KnownGoodPassed, SchemaAheadByUnfinished

LEMMA CrawlerTypeStep == ASSUME TypeOK, [Next]_vars PROVE TypeOK'
<1> DEFINE Places == {"queued", "build", "rollback", "done", "failed", "killed"} \cup Steps
<1>1. ASSUME NEW b \in Builds, NEW p \in Places, Go(b, p) PROVE pc' \in [Builds -> Places]
  BY <1>1 DEF TypeOK, Go
<1>2. \A p \in {"build", "rollback", "done", "failed", "killed", "migrateJob", "crawlJob",
                "migrations", "smoke", "tag"} : p \in Places
  BY DEF Steps
<1>3. pc' \in [Builds -> Places]
  <2>1. CASE UNCHANGED pc
    BY <2>1 DEF TypeOK
  <2>2. ASSUME NEW b \in Builds, \E p \in Places : Go(b, p) PROVE pc' \in [Builds -> Places]
    BY <1>1, <2>2
  <2> HIDE DEF Places
  <2>3. (\E b \in Builds : \E p \in Places : Go(b, p)) \/ UNCHANGED pc
    BY <1>2 DEF Next, Push, Build, DeployMigrateJob, DeployCrawlJob, ApplyMigrations, SmokeTest,
                Tag, StepFails, Rollback, Kill, vars
  <2> QED
    BY <2>1, <2>2, <2>3
<1>4. \A b \in Builds : b \in 0..LastBuild
  BY LastBuildAssumption DEF Builds
<1>5. /\ migrateImage' \in 0..LastBuild /\ crawlImage' \in 0..LastBuild
      /\ knownGood' \in 0..LastBuild /\ schema' \in 0..LastBuild
  BY <1>4 DEF TypeOK, Next, Push, Build, DeployMigrateJob, DeployCrawlJob, ApplyMigrations,
              SmokeTest, Tag, StepFails, Rollback, Kill, vars, jobs, history
<1>6. stuck' \in BOOLEAN /\ overlapped' \in BOOLEAN
  BY DEF TypeOK, Next, Push, Build, DeployMigrateJob, DeployCrawlJob, ApplyMigrations,
         SmokeTest, Tag, StepFails, Rollback, Kill, vars, jobs, history
<1>7. passed' \subseteq 0..LastBuild
  BY DEF TypeOK, Next, Push, Build, DeployMigrateJob, DeployCrawlJob, ApplyMigrations,
         SmokeTest, Tag, StepFails, Rollback, Kill, vars, jobs, history
<1> QED
  BY <1>3, <1>5, <1>6, <1>7 DEF TypeOK

\* While no build was pushed during another, the one in progress is alone with the jobs.
LEMMA CrawlerStep == ASSUME CrawlerInv, [Next]_vars PROVE CrawlerInv'
<1> USE LastBuildAssumption
<1>1. TypeOK /\ TypeOK'
  BY CrawlerTypeStep DEF CrawlerInv, KnownGoodIsGood
<1>2. SUFFICES ASSUME ~overlapped' PROVE KnownGoodPassed' /\ SchemaAheadByUnfinished' /\ AloneInv'
  BY <1>1 DEF CrawlerInv, KnownGoodIsGood, KnownGoodPassed, SchemaAheadByUnfinished
<1>3. ~overlapped
  BY <1>2 DEF Next, Push, Build, DeployMigrateJob, DeployCrawlJob, ApplyMigrations, SmokeTest,
              Tag, StepFails, Rollback, Kill, history, vars, CrawlerInv, TypeOK
<1>4. AloneInv /\ (knownGood # 0 => knownGood \in passed) /\ knownGood <= schema
  BY <1>3 DEF CrawlerInv, KnownGoodIsGood, KnownGoodPassed, SchemaAheadByUnfinished
<1> DEFINE Goal == /\ knownGood' # 0 => knownGood' \in passed'
                   /\ knownGood' <= schema'
                   /\ AloneInv'
<1> SUFFICES Goal
  BY DEF KnownGoodPassed, SchemaAheadByUnfinished, AloneInv, OrderInv
<1> USE DEF AloneInv, OrderInv, BuildInv, JobInv, Unsure, Unkilled, InProgress, Steps, Go, jobs, history
<1>5. ASSUME NEW b \in Builds, Push(b) PROVE Goal
  <2>1. /\ pc[b] = "queued" /\ \A a \in Builds : ~InProgress(a)
        /\ pc' = [pc EXCEPT ![b] = "build"]
        /\ UNCHANGED <<migrateImage, crawlImage, schema, knownGood, passed, stuck>>
    BY <1>2, <1>5 DEF Push
  <2>2. \A a \in Builds : a < b => pc[a] # "queued"
    BY <1>5 DEF Push
  <2>3. pc'[b] = "build" /\ \A a \in Builds \ {b} : pc'[a] = pc[a]
    BY <1>1, <2>1 DEF TypeOK
  <2>4. OrderInv'
    <3>1. \A a \in Builds \ {b} : ~InProgress(a)'
      BY <2>1, <2>3
    <3>2. \A c \in Builds : b < c => pc'[c] = "queued"
      BY <1>4, <2>1, <2>3 DEF Builds
    <3>3. \A a, c \in Builds : a < c /\ pc'[a] = "queued" => pc'[c] = "queued"
      BY <1>4, <2>2, <2>3 DEF Builds
    <3> QED
      BY <1>4, <2>1, <2>3, <3>1, <3>2, <3>3
  <2>5. (\A a, c \in Builds : InProgress(a) /\ InProgress(c) => a = c)'
    BY <2>1, <2>3
  <2>6. (\A a \in Builds : BuildInv(a))' /\ JobInv'
    BY <1>1, <1>4, <2>1, <2>3 DEF TypeOK
  <2> QED
    BY <1>4, <2>1, <2>4, <2>5, <2>6
<1>6. ASSUME NEW b \in Builds, Build(b) PROVE Goal
  BY <1>1, <1>4, <1>6 DEF Build, TypeOK
<1>7. ASSUME NEW b \in Builds, DeployMigrateJob(b) PROVE Goal
  BY <1>1, <1>4, <1>7 DEF DeployMigrateJob, TypeOK
<1>8. ASSUME NEW b \in Builds, DeployCrawlJob(b) PROVE Goal
  BY <1>1, <1>4, <1>8 DEF DeployCrawlJob, TypeOK
<1>9. ASSUME NEW b \in Builds, ApplyMigrations(b) PROVE Goal
  <2>1. schema <= b /\ schema' = b
    BY <1>4, <1>9 DEF ApplyMigrations
  <2>2. knownGood' <= schema'
    BY <1>1, <1>4, <1>9, <2>1 DEF ApplyMigrations, TypeOK, Builds
  <2> QED
    BY <1>1, <1>4, <1>9, <2>1, <2>2 DEF ApplyMigrations, TypeOK
<1>10. ASSUME NEW b \in Builds, SmokeTest(b) PROVE Goal
  BY <1>1, <1>4, <1>10 DEF SmokeTest, TypeOK
<1>11. ASSUME NEW b \in Builds, Tag(b) PROVE Goal
  <2>1. schema = b /\ crawlImage = b /\ b \in passed
    BY <1>4, <1>11 DEF Tag
  <2>2. knownGood' <= schema'
    BY <1>1, <1>4, <1>11, <2>1 DEF Tag, TypeOK, Builds
  <2> QED
    BY <1>1, <1>4, <1>11, <2>1, <2>2 DEF Tag, TypeOK
<1>12. ASSUME NEW b \in Builds, StepFails(b) PROVE Goal
  BY <1>1, <1>4, <1>12 DEF StepFails, TypeOK
<1>13. ASSUME NEW b \in Builds, Rollback(b) PROVE Goal
  BY <1>1, <1>4, <1>13 DEF Rollback, TypeOK
<1>14. ASSUME NEW b \in Builds, Kill(b) PROVE Goal
  BY <1>1, <1>4, <1>14 DEF Kill, TypeOK
<1>15. CASE UNCHANGED vars
  BY <1>4, <1>15 DEF vars
<1> QED
  BY <1>5, <1>6, <1>7, <1>8, <1>9, <1>10, <1>11, <1>12, <1>13, <1>14, <1>15 DEF Next

\* As long as builds do not overlap, the tag only ever names an image that passed its dry
\* run and whose migrations are applied, however builds failed or were killed
\* (cloudbuild.yaml:61-97).
THEOREM DeployKnownGoodIsGood == Spec => []KnownGoodIsGood
<1>1. CrawlerInv => KnownGoodIsGood
  BY DEF CrawlerInv
<1> QED
  BY <1>1, CrawlerInit, CrawlerStep, PTL DEF Spec

\* Between builds that do not overlap, and of which none was killed and no rollback failed,
\* the job has an image that passed (cloudbuild.yaml:50-60).
THEOREM DeployRestsOnPassed == Spec => []RestsOnPassed
<1>1. CrawlerInv => RestsOnPassed
  BY DEF CrawlerInv, RestsOnPassed, AloneInv, JobInv, Idle, InProgress, Unsure, Steps
<1> QED
  BY <1>1, CrawlerInit, CrawlerStep, PTL DEF Spec

-----------------------------------------------------------------------------
\* What a step of a build's pipelines rests on: the approval, and the test of its pair.
ApprovalInv ==
  /\ Web!ApprovedIsDeployed
  /\ \A b \in Web!Builds :
        /\ webPc[b] \in Web!Promoting \cup {"live"} => b \in approved
        /\ webPc[b] = "pending" => b \in requested

Tested(b) == [mcp |-> b, web |-> b] \in tested

PairInv ==
  /\ \A a, b \in Web!Builds : webPc[a] \in Web!Staging /\ webPc[b] \in Web!Staging => a = b
  /\ \A b \in Web!Builds :
        /\ webPc[b] \in {"web", "smoke"} => staging.mcp = b
        /\ webPc[b] = "smoke" => staging.web = b
        /\ webPc[b] \in {"tagMcp", "tagWeb", "request", "pending", "live"} \cup Web!Promoting
             => Tested(b)
        /\ production.web = b => webPc[b] = "live"

WebInv == ApprovalInv /\ (~webOverlapped => PairInv)

LEMMA WebInit == Web!Init => WebInv
<1> SUFFICES ASSUME Web!Init PROVE WebInv
  OBVIOUS
<1>1. 0 \in 0..LastBuild
  BY LastBuildAssumption
<1>2. webPc \in [Web!Builds -> Web!Staging \cup Web!Promoting
                                \cup {"queued", "pending", "live", "failed", "refused"}]
  BY DEF Web!Init
<1>3. Web!Empty \in Web!Images
  BY <1>1 DEF Web!Empty, Web!Images
<1>4. Web!TypeOK
  BY <1>2, <1>3 DEF Web!Init, Web!TypeOK
<1>5. \A b \in Web!Builds : b # 0
  BY LastBuildAssumption DEF Web!Builds
<1> QED
  BY <1>4, <1>5 DEF Web!Init, Web!Empty, WebInv, ApprovalInv, PairInv, Web!ApprovedIsDeployed,
                    Web!Staging, Web!Promoting

LEMMA WebTypeStep == ASSUME ApprovalInv, [Web!Next]_(Web!vars) PROVE Web!TypeOK'
<1> DEFINE Places == Web!Staging \cup Web!Promoting
                     \cup {"queued", "pending", "live", "failed", "refused"}
<1>1. Web!TypeOK
  BY DEF ApprovalInv, Web!ApprovedIsDeployed
<1>2. ASSUME NEW b \in Web!Builds, NEW p \in Places, Web!Go(b, p)
      PROVE  webPc' \in [Web!Builds -> Places]
  BY <1>1, <1>2 DEF Web!TypeOK, Web!Go
<1>3. \A p \in {"build", "mcp", "web", "smoke", "tagMcp", "tagWeb", "request", "promoteMcp",
                "promoteWeb", "pending", "live", "failed", "refused"} : p \in Places
  BY DEF Web!Staging, Web!Promoting
<1>4. webPc' \in [Web!Builds -> Places]
  <2>1. CASE UNCHANGED webPc
    BY <1>1, <2>1 DEF Web!TypeOK
  <2>2. ASSUME NEW b \in Web!Builds, \E p \in Places : Web!Go(b, p)
        PROVE  webPc' \in [Web!Builds -> Places]
    BY <1>2, <2>2
  <2> HIDE DEF Places
  <2>3. (\E b \in Web!Builds : \E p \in Places : Web!Go(b, p)) \/ UNCHANGED webPc
    BY <1>3 DEF Web!Next, Web!Push, Web!Build, Web!DeployStagingMcp, Web!DeployStagingWeb,
                Web!SmokeTest, Web!TagMcp, Web!TagWeb, Web!RequestPromotion, Web!Approve,
                Web!PromoteMcp, Web!PromoteWeb, Web!StepFails, Web!vars
  <2> QED
    BY <2>1, <2>2, <2>3
<1>5. \A b \in Web!Builds : b \in 0..LastBuild
  BY LastBuildAssumption DEF Web!Builds
<1>6. staging' \in Web!Images /\ verified' \in Web!Images /\ production' \in Web!Images
  BY <1>1, <1>5
     DEF Web!TypeOK, Web!Images, Web!Next, Web!Push, Web!Build, Web!DeployStagingMcp,
         Web!DeployStagingWeb, Web!SmokeTest, Web!TagMcp, Web!TagWeb, Web!RequestPromotion,
         Web!Approve, Web!PromoteMcp, Web!PromoteWeb, Web!Image, Web!StepFails, Web!vars
<1>7. tested' \subseteq Web!Images /\ webOverlapped' \in BOOLEAN
  BY <1>1
     DEF Web!TypeOK, Web!Next, Web!Push, Web!Build, Web!DeployStagingMcp,
         Web!DeployStagingWeb, Web!SmokeTest, Web!TagMcp, Web!TagWeb, Web!RequestPromotion,
         Web!Approve, Web!PromoteMcp, Web!PromoteWeb, Web!StepFails, Web!vars
<1>8. requested' \subseteq Web!Builds /\ approved' \subseteq requested'
  BY <1>1
     DEF ApprovalInv, Web!TypeOK, Web!Next, Web!Push, Web!Build, Web!DeployStagingMcp,
         Web!DeployStagingWeb, Web!SmokeTest, Web!TagMcp, Web!TagWeb, Web!RequestPromotion,
         Web!Approve, Web!PromoteMcp, Web!PromoteWeb, Web!StepFails, Web!vars
<1> QED
  BY <1>4, <1>6, <1>7, <1>8 DEF Web!TypeOK

\* A promotion deploys the images of its own build, which is approved; its web image comes
\* second, on a pair that was tested before the promotion was asked for.
LEMMA WebStep == WebInv /\ [Web!Next]_(Web!vars) => WebInv'
<1> SUFFICES ASSUME WebInv, [Web!Next]_(Web!vars) PROVE WebInv'
  OBVIOUS
<1>1. Web!TypeOK /\ Web!TypeOK' /\ ApprovalInv
  BY WebTypeStep DEF WebInv, ApprovalInv, Web!ApprovedIsDeployed
<1>2. \A b \in Web!Builds : b # 0
  BY LastBuildAssumption DEF Web!Builds
<1>3. ~webOverlapped' => ~webOverlapped /\ PairInv
  BY <1>1 DEF WebInv, Web!TypeOK, Web!Next, Web!Push, Web!Build, Web!DeployStagingMcp,
              Web!DeployStagingWeb, Web!SmokeTest, Web!TagMcp, Web!TagWeb,
              Web!RequestPromotion, Web!Approve, Web!PromoteMcp, Web!PromoteWeb,
              Web!StepFails, Web!vars
<1> SUFFICES ApprovalInv' /\ (~webOverlapped' => PairInv')
  BY DEF WebInv
<1> USE DEF Web!Staging, Web!Promoting, Web!Go, Tested
<1>4. ASSUME NEW b \in Web!Builds, Web!Push(b)
      PROVE  ApprovalInv' /\ (~webOverlapped' => PairInv')
  <2>1. /\ webPc[b] = "queued" /\ webPc' = [webPc EXCEPT ![b] = "build"]
        /\ ~webOverlapped' => \A a \in Web!Builds : webPc[a] \notin Web!Staging
        /\ UNCHANGED <<staging, verified, production, requested, approved, tested>>
    BY <1>4 DEF Web!Push
  <2>2. ApprovalInv'
    BY <1>1, <2>1 DEF ApprovalInv, Web!ApprovedIsDeployed, Web!TypeOK
  <2>3. ~webOverlapped' => PairInv'
    BY <1>1, <1>3, <2>1 DEF PairInv, Web!TypeOK
  <2> QED
    BY <2>2, <2>3
<1>5. ASSUME NEW b \in Web!Builds, Web!Build(b)
      PROVE  ApprovalInv' /\ (~webOverlapped' => PairInv')
  BY <1>1, <1>3, <1>5 DEF Web!Build, ApprovalInv, PairInv, Web!ApprovedIsDeployed, Web!TypeOK
<1>6. ASSUME NEW b \in Web!Builds, Web!DeployStagingMcp(b)
      PROVE  ApprovalInv' /\ (~webOverlapped' => PairInv')
  <2>1. ApprovalInv'
    BY <1>1, <1>6 DEF Web!DeployStagingMcp, ApprovalInv, Web!ApprovedIsDeployed, Web!TypeOK
  <2>2. ~webOverlapped' => PairInv'
    BY <1>1, <1>3, <1>6 DEF Web!DeployStagingMcp, PairInv, Web!TypeOK, Web!Images
  <2> QED
    BY <2>1, <2>2
<1>7. ASSUME NEW b \in Web!Builds, Web!DeployStagingWeb(b)
      PROVE  ApprovalInv' /\ (~webOverlapped' => PairInv')
  <2>1. ApprovalInv'
    BY <1>1, <1>7 DEF Web!DeployStagingWeb, ApprovalInv, Web!ApprovedIsDeployed, Web!TypeOK
  <2>2. ~webOverlapped' => PairInv'
    BY <1>1, <1>3, <1>7 DEF Web!DeployStagingWeb, PairInv, Web!TypeOK, Web!Images
  <2> QED
    BY <2>1, <2>2
<1>8. ASSUME NEW b \in Web!Builds, Web!SmokeTest(b)
      PROVE  ApprovalInv' /\ (~webOverlapped' => PairInv')
  <2>1. ApprovalInv'
    BY <1>1, <1>8 DEF Web!SmokeTest, ApprovalInv, Web!ApprovedIsDeployed, Web!TypeOK
  <2>2. ~webOverlapped' => staging = [mcp |-> b, web |-> b]
    BY <1>1, <1>3, <1>8 DEF Web!SmokeTest, PairInv, Web!TypeOK, Web!Images
  <2>3. ~webOverlapped' => PairInv'
    BY <1>1, <1>3, <1>8, <2>2 DEF Web!SmokeTest, PairInv, Web!TypeOK
  <2> QED
    BY <2>1, <2>3
<1>9. ASSUME NEW b \in Web!Builds, Web!TagMcp(b) \/ Web!TagWeb(b)
      PROVE  ApprovalInv' /\ (~webOverlapped' => PairInv')
  BY <1>1, <1>3, <1>9 DEF Web!TagMcp, Web!TagWeb, ApprovalInv, PairInv,
                          Web!ApprovedIsDeployed, Web!TypeOK
<1>10. ASSUME NEW b \in Web!Builds, Web!RequestPromotion(b)
       PROVE  ApprovalInv' /\ (~webOverlapped' => PairInv')
  BY <1>1, <1>3, <1>10 DEF Web!RequestPromotion, ApprovalInv, PairInv,
                           Web!ApprovedIsDeployed, Web!TypeOK
<1>11. ASSUME NEW b \in Web!Builds, Web!Approve(b)
       PROVE  ApprovalInv' /\ (~webOverlapped' => PairInv')
  <2>1. ApprovalInv'
    BY <1>1, <1>11 DEF Web!Approve, ApprovalInv, Web!ApprovedIsDeployed, Web!TypeOK
  <2>2. ~webOverlapped' => PairInv'
    BY <1>1, <1>3, <1>11 DEF Web!Approve, PairInv, Web!TypeOK
  <2> QED
    BY <2>1, <2>2
<1>12. ASSUME NEW b \in Web!Builds, Web!PromoteMcp(b)
       PROVE  ApprovalInv' /\ (~webOverlapped' => PairInv')
  <2>1. /\ webPc[b] = "promoteMcp" /\ webPc' = [webPc EXCEPT ![b] = "promoteWeb"]
        /\ production'.mcp = b /\ production'.web = production.web
        /\ UNCHANGED <<staging, verified, requested, approved, tested, webOverlapped>>
    BY <1>1, <1>12 DEF Web!PromoteMcp, Web!Image, Web!TypeOK, Web!Images
  <2>2. ApprovalInv'
    BY <1>1, <2>1 DEF ApprovalInv, Web!ApprovedIsDeployed, Web!TypeOK
  <2>3. ~webOverlapped' => PairInv'
    BY <1>1, <1>3, <2>1 DEF PairInv, Web!TypeOK
  <2> QED
    BY <2>2, <2>3
<1>13. ASSUME NEW b \in Web!Builds, Web!PromoteWeb(b)
       PROVE  ApprovalInv' /\ (~webOverlapped' => PairInv')
  <2>1. /\ webPc[b] = "promoteWeb" /\ webPc' = [webPc EXCEPT ![b] = "live"]
        /\ production'.web = b /\ production'.mcp = production.mcp
        /\ UNCHANGED <<staging, verified, requested, approved, tested, webOverlapped>>
    BY <1>1, <1>13 DEF Web!PromoteWeb, Web!Image, Web!TypeOK, Web!Images
  <2>2. ApprovalInv'
    BY <1>1, <2>1 DEF ApprovalInv, Web!ApprovedIsDeployed, Web!TypeOK
  <2>3. ~webOverlapped' => PairInv'
    BY <1>1, <1>3, <2>1 DEF PairInv, Web!TypeOK
  <2> QED
    BY <2>2, <2>3
<1>14. ASSUME NEW b \in Web!Builds, Web!StepFails(b)
       PROVE  ApprovalInv' /\ (~webOverlapped' => PairInv')
  BY <1>1, <1>3, <1>14 DEF Web!StepFails, ApprovalInv, PairInv, Web!ApprovedIsDeployed,
                           Web!TypeOK
<1>15. CASE UNCHANGED Web!vars
  BY <1>1, <1>3, <1>15 DEF Web!vars, ApprovalInv, PairInv, Web!ApprovedIsDeployed, Web!TypeOK
<1> QED
  BY <1>4, <1>5, <1>6, <1>7, <1>8, <1>9, <1>10, <1>11, <1>12, <1>13, <1>14, <1>15
     DEF Web!Next

\* However builds, tags and approvals interleave, what production runs was approved
\* (cloudbuild-web-promote.yaml).
THEOREM WebApprovedIsDeployed == Web!Spec => []ApprovedIsDeployed
<1>1. WebInv => ApprovedIsDeployed
  BY DEF WebInv, ApprovalInv, ApprovedIsDeployed
<1> QED
  BY <1>1, WebInit, WebStep, PTL DEF Web!Spec

\* As long as builds do not overlap on staging, the two images of a build that production
\* runs together were tested with each other (cloudbuild-web.yaml, its smoke test).
THEOREM WebPairWasTested == Web!Spec => []PairWasTested
<1>1. WebInv => PairWasTested
  BY DEF WebInv, PairInv, Tested, PairWasTested, Web!PairWasTested
<1> QED
  BY <1>1, WebInit, WebStep, PTL DEF Web!Spec

-----------------------------------------------------------------------------
\* The constants the theorems are about.
Bounds == LastBackup \in Nat \ {0} /\ Retention \in Nat /\ MaxDays \in Nat

\* Where an execution is and what it has made of its file.
FileInv(b) ==
  /\ dump[b].day <= day
  /\ backupPc[b] = "queued" => dump[b].file = "none"
  /\ backupPc[b] \in {"queued", "dump"} => b \notin completed
  /\ backupPc[b] = "dump" => dump[b].file = "partial" /\ day - dump[b].day <= Retention
  /\ backupPc[b] = "prune" => dump[b].file = "complete" /\ dump[b].day = day
  /\ dump[b].file = "complete" => b \in completed
  /\ b \in completed => dump[b].file \in {"complete", "pruned"}
  /\ dump[b].file = "pruned" =>
       \E a \in Backup!Backups : dump[a].file = "complete" /\ dump[b].day <= dump[a].day

\* What is picked is no older than what was complete then, from the pick to the verdict.
PickedInv ==
  /\ check # "idle" => backupPc[picked] # "queued"
  /\ check = "count" => picked \in completed
  /\ check # "idle" \/ verdict = "verified" =>
       \A b \in before : dump[b].day <= dump[picked].day

BackupInv == /\ Backup!HistoryKept /\ Backup!VerifiedRestores /\ PickedInv
             /\ \A b \in Backup!Backups : FileInv(b)

LEMMA BackupInit == ASSUME Bounds PROVE Backup!Init => BackupInv
<1> SUFFICES ASSUME Backup!Init PROVE BackupInv
  OBVIOUS
<1>1. 1 \in Backup!Backups /\ 0 \in 0..MaxDays
  BY DEF Bounds, Backup!Backups
<1>2. Backup!TypeOK
  BY <1>1 DEF Backup!Init, Backup!TypeOK
<1> QED
  BY <1>2 DEF Backup!Init, BackupInv, Backup!HistoryKept, Backup!VerifiedRestores, PickedInv,
              FileInv

\* Steps that leave the files, the clock and the check alone change nothing it says.
LEMMA BackupStep == ASSUME Bounds PROVE BackupInv /\ [Backup!Next]_(Backup!vars) => BackupInv'
<1> SUFFICES ASSUME BackupInv, [Backup!Next]_(Backup!vars) PROVE BackupInv'
  OBVIOUS
<1> USE DEF Bounds
<1>1. ASSUME NEW b \in Backup!Backups, Backup!Start(b) PROVE BackupInv'
  <2>1. /\ backupPc[b] = "queued" /\ b \notin completed
        /\ dump' = [dump EXCEPT ![b] = [file |-> "partial", day |-> day, tables |-> migrated]]
        /\ backupPc' = [backupPc EXCEPT ![b] = "dump"]
        /\ UNCHANGED <<day, migrated, completed, check, picked, throwaway, verdict, before>>
    BY <1>1 DEF BackupInv, FileInv, Backup!Start, Backup!Begins, Backup!Go, Backup!restore
  <2>2. Backup!TypeOK'
    BY <2>1 DEF BackupInv, Backup!HistoryKept, Backup!TypeOK
  <2>3. \A a \in Backup!Backups : FileInv(a)'
    BY <2>1 DEF BackupInv, Backup!HistoryKept, Backup!TypeOK, FileInv
  <2>4. PickedInv'
    BY <2>1 DEF BackupInv, Backup!HistoryKept, Backup!TypeOK, FileInv, PickedInv,
                Backup!VerifiedRestores
  <2>5. Backup!HistoryKept'
    BY <2>1, <2>2 DEF BackupInv, Backup!HistoryKept, Backup!TypeOK, FileInv
  <2>6. Backup!VerifiedRestores'
    BY <2>1 DEF BackupInv, Backup!HistoryKept, Backup!TypeOK, Backup!VerifiedRestores
  <2> QED
    BY <2>3, <2>4, <2>5, <2>6 DEF BackupInv
<1>2. ASSUME NEW b \in Backup!Backups, Backup!Write(b) PROVE BackupInv'
  <2>1. /\ backupPc[b] = "dump" /\ b \notin completed
        /\ dump' = [dump EXCEPT ![b].day = day]
        /\ UNCHANGED <<backupPc, day, migrated, completed, check, picked, throwaway, verdict,
                       before>>
    BY <1>2 DEF BackupInv, FileInv, Backup!Write, Backup!restore
  <2>2. Backup!TypeOK'
    BY <2>1 DEF BackupInv, Backup!HistoryKept, Backup!TypeOK
  <2>3. \A a \in Backup!Backups : FileInv(a)'
    <3> SUFFICES ASSUME NEW a \in Backup!Backups PROVE FileInv(a)'
      OBVIOUS
    <3>1. dump'[a].file = "pruned" =>
            \E c \in Backup!Backups : dump'[c].file = "complete" /\ dump'[a].day <= dump'[c].day
      BY <2>1 DEF BackupInv, Backup!HistoryKept, Backup!TypeOK, FileInv
    <3> QED
      BY <2>1, <3>1 DEF BackupInv, Backup!HistoryKept, Backup!TypeOK, FileInv
  <2>4. PickedInv'
    BY <2>1 DEF BackupInv, Backup!HistoryKept, Backup!TypeOK, FileInv, PickedInv,
                Backup!VerifiedRestores
  <2>5. Backup!HistoryKept'
    BY <2>1, <2>2 DEF BackupInv, Backup!HistoryKept, Backup!TypeOK, FileInv
  <2>6. Backup!VerifiedRestores'
    BY <2>1 DEF BackupInv, Backup!HistoryKept, Backup!TypeOK, Backup!VerifiedRestores
  <2> QED
    BY <2>3, <2>4, <2>5, <2>6 DEF BackupInv
<1>3. ASSUME NEW b \in Backup!Backups, Backup!DumpDone(b) PROVE BackupInv'
  <2>1. /\ backupPc[b] = "dump" /\ b \notin completed
        /\ dump' = [dump EXCEPT ![b].file = "complete", ![b].day = day]
        /\ backupPc' = [backupPc EXCEPT ![b] = "prune"]
        /\ completed' = completed \cup {b}
        /\ UNCHANGED <<day, migrated, check, picked, throwaway, verdict, before>>
    BY <1>3 DEF BackupInv, FileInv, Backup!DumpDone, Backup!Go, Backup!restore
  <2>2. Backup!TypeOK'
    BY <2>1, ZenonT(30) DEF BackupInv, Backup!HistoryKept, Backup!TypeOK
  <2>3. \A a \in Backup!Backups : FileInv(a)'
    BY <2>1 DEF BackupInv, Backup!HistoryKept, Backup!TypeOK, FileInv
  <2>4. PickedInv'
    BY <2>1 DEF BackupInv, Backup!HistoryKept, Backup!TypeOK, FileInv, PickedInv,
                Backup!VerifiedRestores
  <2>5. Backup!HistoryKept'
    BY <2>1, <2>2 DEF BackupInv, Backup!HistoryKept, Backup!TypeOK, FileInv
  <2>6. Backup!VerifiedRestores'
    BY <2>1 DEF BackupInv, Backup!HistoryKept, Backup!TypeOK, Backup!VerifiedRestores
  <2> QED
    BY <2>3, <2>4, <2>5, <2>6 DEF BackupInv
<1>4. ASSUME NEW b \in Backup!Backups, Backup!Prune(b) PROVE BackupInv'
  <2> PICK gone \in SUBSET Backup!Old :
        dump' = [a \in Backup!Backups |->
                   IF a \in gone THEN [dump[a] EXCEPT !.file = "pruned"] ELSE dump[a]]
    BY <1>4 DEF Backup!Prune
  <2>1. /\ backupPc[b] = "prune"
        /\ backupPc' = [backupPc EXCEPT ![b] = "done"]
        /\ UNCHANGED <<day, migrated, completed, check, picked, throwaway, verdict, before>>
    BY <1>4 DEF Backup!Prune, Backup!Go, Backup!restore
  <2>2. Backup!TypeOK'
    BY <2>1 DEF BackupInv, Backup!HistoryKept, Backup!TypeOK
  \* The pruning dump is itself new, and no older than any other.
  <2>3. /\ dump'[b] = dump[b] /\ dump[b].file = "complete" /\ dump[b].day = day
        /\ b \in completed
    BY <2>1 DEF BackupInv, Backup!HistoryKept, Backup!TypeOK, FileInv, Backup!Old
  <2>4. \A a \in Backup!Backups :
              /\ dump'[a].day = dump[a].day
              /\ dump'[a].tables = dump[a].tables
              /\ dump'[a].file = IF a \in gone THEN "pruned" ELSE dump[a].file
              /\ a \in gone => /\ day - dump[a].day > Retention
                               /\ dump[a].file \in {"partial", "complete"}
    BY <2>1 DEF BackupInv, Backup!HistoryKept, Backup!TypeOK, Backup!Old, Backup!OnDisk
  <2>5. \A a \in Backup!Backups : FileInv(a)'
    <3> SUFFICES ASSUME NEW a \in Backup!Backups PROVE FileInv(a)'
      OBVIOUS
    <3>1. dump'[b].file = "complete" /\ dump'[a].day <= dump'[b].day
      BY <2>3, <2>4 DEF BackupInv, Backup!HistoryKept, Backup!TypeOK, FileInv
    <3> QED
      BY <2>1, <2>3, <2>4, <3>1 DEF BackupInv, Backup!HistoryKept, Backup!TypeOK, FileInv
  <2>6. PickedInv'
    BY <2>1, <2>4 DEF BackupInv, Backup!HistoryKept, Backup!TypeOK, FileInv, PickedInv,
                      Backup!VerifiedRestores
  <2>7. Backup!HistoryKept'
    <3> SUFFICES ASSUME NEW c \in completed,
                        \/ day - dump'[c].day <= Retention
                        \/ \A a \in completed : dump'[a].day <= dump'[c].day
                 PROVE  dump'[c].file = "complete"
      BY <2>1, <2>2 DEF Backup!HistoryKept
    <3>1. dump'[c].day = dump[c].day /\ dump'[b].day = day
      BY <2>3, <2>4 DEF BackupInv, Backup!HistoryKept, Backup!TypeOK
    <3>2. c \notin gone
      <4>1. c \in Backup!Backups /\ dump[c].day \in Nat /\ day \in Nat /\ Retention \in Nat
        BY DEF BackupInv, Backup!HistoryKept, Backup!TypeOK
      <4>2. day - dump[c].day <= Retention
        <5>1. CASE day - dump'[c].day <= Retention
          BY <3>1, <5>1
        <5>2. CASE \A a \in completed : dump'[a].day <= dump'[c].day
          <6>1. day <= dump[c].day
            BY <2>3, <3>1, <5>2
          <6> QED
            BY <4>1, <6>1
        <5> QED
          BY <5>1, <5>2
      <4> QED
        BY <2>4, <4>1, <4>2
    <3>3. dump[c].file = "complete"
      BY <2>3, <2>4, <3>1 DEF BackupInv, Backup!HistoryKept, Backup!TypeOK
    <3> QED
      BY <2>4, <3>2, <3>3 DEF BackupInv, Backup!HistoryKept, Backup!TypeOK
  <2>8. Backup!VerifiedRestores'
    BY <2>1, <2>4 DEF BackupInv, Backup!HistoryKept, Backup!TypeOK, Backup!VerifiedRestores
  <2> QED
    BY <2>5, <2>6, <2>7, <2>8 DEF BackupInv
<1>5. ASSUME NEW b \in Backup!Backups, Backup!Fail(b) PROVE BackupInv'
  <2>1. /\ backupPc[b] \in {"dump", "prune"} /\ backupPc' = [backupPc EXCEPT ![b] = "failed"]
        /\ UNCHANGED <<day, migrated, dump, completed, check, picked, throwaway, verdict,
                       before>>
    BY <1>5 DEF Backup!Fail, Backup!Go, Backup!restore
  <2>2. Backup!TypeOK'
    BY <2>1 DEF BackupInv, Backup!HistoryKept, Backup!TypeOK
  <2> QED
    BY <2>1, <2>2 DEF BackupInv, Backup!HistoryKept, Backup!TypeOK, FileInv, PickedInv,
                      Backup!VerifiedRestores
<1>6. CASE Backup!Migrate
  <2>1. /\ migrated' = TRUE
        /\ UNCHANGED <<day, backupPc, dump, completed, check, picked, throwaway, verdict,
                       before>>
    BY <1>6 DEF Backup!Migrate, Backup!execution, Backup!restore
  <2> QED
    BY <2>1 DEF BackupInv, Backup!HistoryKept, Backup!TypeOK, FileInv, PickedInv,
                Backup!VerifiedRestores
<1>7. CASE Backup!Tick
  <2>1. /\ day < MaxDays /\ day' = day + 1
        /\ \A b \in Backup!Backups :
              /\ backupPc[b] # "prune"
              /\ backupPc[b] = "dump" => day - dump[b].day < Retention
        /\ UNCHANGED <<migrated, backupPc, dump, completed, check, picked, throwaway, verdict,
                       before>>
    BY <1>7 DEF Backup!Tick, Backup!execution, Backup!restore
  <2>2. Backup!TypeOK'
    BY <2>1 DEF BackupInv, Backup!HistoryKept, Backup!TypeOK
  <2>3. \A b \in Backup!Backups : FileInv(b)'
    BY <2>1 DEF BackupInv, Backup!HistoryKept, Backup!TypeOK, FileInv
  <2>4. Backup!HistoryKept'
    BY <2>1, <2>2 DEF BackupInv, Backup!HistoryKept, Backup!TypeOK
  <2> QED
    BY <2>1, <2>3, <2>4 DEF BackupInv, PickedInv, Backup!VerifiedRestores
<1>8. CASE Backup!Pick
  <2>1. UNCHANGED <<day, migrated, backupPc, dump, completed>> /\ before' = completed
    BY <1>8 DEF Backup!Pick, Backup!execution
  <2>2. Backup!HistoryKept'
    BY <1>8, <2>1 DEF BackupInv, Backup!HistoryKept, Backup!TypeOK, Backup!Pick, Backup!Exit,
                      Backup!Newest, Backup!OnDisk
  <2>3. Backup!VerifiedRestores' /\ PickedInv'
    <3>1. CASE Backup!OnDisk = {}
      BY <1>8, <2>1, <3>1 DEF Backup!Pick, Backup!Exit, Backup!VerifiedRestores, PickedInv
    <3>2. CASE Backup!OnDisk # {}
      <4>1. picked' \in Backup!Newest /\ check' = "create" /\ verdict' = "none"
        BY <1>8, <3>2 DEF Backup!Pick
      <4>2. \A b \in completed : dump[b].day <= dump[picked'].day
        <5> SUFFICES ASSUME NEW b \in completed PROVE dump[b].day <= dump[picked'].day
          OBVIOUS
        <5>1. b \in Backup!Backups /\ dump[b].file \in {"complete", "pruned"}
          BY DEF BackupInv, Backup!HistoryKept, Backup!TypeOK, FileInv
        <5>2. CASE dump[b].file = "complete"
          BY <4>1, <5>1, <5>2 DEF Backup!Newest, Backup!OnDisk
        <5>3. CASE dump[b].file = "pruned"
          <6> PICK a \in Backup!Backups : dump[a].file = "complete" /\ dump[b].day <= dump[a].day
            BY <5>1, <5>3 DEF BackupInv, FileInv
          <6>1. dump[a].day <= dump[picked'].day
            BY <4>1 DEF Backup!Newest, Backup!OnDisk
          <6>2. picked' \in Backup!Backups
            BY <4>1 DEF Backup!Newest, Backup!OnDisk
          <6> QED
            BY <5>1, <6>1, <6>2 DEF BackupInv, Backup!HistoryKept, Backup!TypeOK
        <5> QED
          BY <5>1, <5>2, <5>3
      <4>3. backupPc[picked'] # "queued"
        BY <4>1 DEF Backup!Newest, Backup!OnDisk, BackupInv, FileInv
      <4> QED
        BY <2>1, <4>1, <4>2, <4>3 DEF Backup!VerifiedRestores, PickedInv
    <3> QED
      BY <3>1, <3>2
  <2> QED
    BY <2>1, <2>2, <2>3 DEF BackupInv, FileInv
<1>9. CASE Backup!CreateDatabase
  <2>1. /\ check = "create" /\ check' \in {"idle", "restore"}
        /\ verdict' \in {"failed", verdict} /\ throwaway' \in BOOLEAN
        /\ UNCHANGED <<day, migrated, backupPc, dump, completed, picked, before>>
    BY <1>9 DEF Backup!CreateDatabase, Backup!Exit, Backup!execution, BackupInv,
                Backup!HistoryKept, Backup!TypeOK
  <2> QED
    BY <2>1 DEF BackupInv, Backup!HistoryKept, Backup!TypeOK, FileInv, PickedInv,
                Backup!VerifiedRestores
<1>10. CASE Backup!Restore
  <2>1. /\ check = "restore" /\ verdict' \in {"failed", verdict} /\ throwaway' \in BOOLEAN
        /\ \/ check' = "count" /\ dump[picked].file = "complete"
           \/ check' = "idle"
        /\ UNCHANGED <<day, migrated, backupPc, dump, completed, picked, before>>
    BY <1>10 DEF Backup!Restore, Backup!Exit, Backup!execution, BackupInv, Backup!HistoryKept,
                 Backup!TypeOK
  <2> QED
    BY <2>1 DEF BackupInv, Backup!HistoryKept, Backup!TypeOK, FileInv, PickedInv,
                Backup!VerifiedRestores
<1>11. CASE Backup!Count
  <2>1. /\ check = "count" /\ check' = "idle" /\ throwaway' \in BOOLEAN
        /\ (verdict' = "verified" /\ dump[picked].tables) \/ verdict' = "failed"
        /\ UNCHANGED <<day, migrated, backupPc, dump, completed, picked, before>>
    BY <1>11 DEF Backup!Count, Backup!Exit, Backup!execution, BackupInv, Backup!HistoryKept,
                 Backup!TypeOK
  <2> QED
    BY <2>1 DEF BackupInv, Backup!HistoryKept, Backup!TypeOK, FileInv, PickedInv,
                Backup!VerifiedRestores
<1>12. CASE UNCHANGED Backup!vars
  BY <1>12 DEF Backup!vars, Backup!execution, Backup!restore, BackupInv, Backup!HistoryKept,
               Backup!TypeOK, FileInv, PickedInv,
               Backup!VerifiedRestores
<1> QED
  BY <1>1, <1>2, <1>3, <1>4, <1>5, <1>6, <1>7, <1>8, <1>9, <1>10, <1>11, <1>12 DEF Backup!Next

\* However long the backups after it fail, the last dump that was completed stays, and a
\* completed dump stays for the days of the retention (backup.sh:20-25).
THEOREM BackupHistoryKept == ASSUME Bounds PROVE Backup!Spec => []HistoryKept
<1>1. BackupInv => HistoryKept
  BY DEF BackupInv, HistoryKept
<1> QED
  BY <1>1, BackupInit, BackupStep, PTL DEF Backup!Spec

\* A check that verifies has restored a completed dump that is no older than any completed
\* before it began (restore-check.sh:13-40).
THEOREM BackupVerifiedRestores == ASSUME Bounds PROVE Backup!Spec => []VerifiedRestores
<1>1. BackupInv => VerifiedRestores
  BY DEF BackupInv, VerifiedRestores
<1> QED
  BY <1>1, BackupInit, BackupStep, PTL DEF Backup!Spec
-----------------------------------------------------------------------------
\* Each behaviour of what is checked together is one of the crawler's pipeline, of the web
\* pipelines and of the backups: what holds of each of them holds there.
THEOREM OperationsRunEach == OperationsSpec => Spec /\ Web!Spec /\ Backup!Spec
<1>1. OperationsInit => Init /\ Web!Init /\ Backup!Init
  BY DEF OperationsInit
<1>2. ASSUME [OperationsNext]_<<operated, vars, web, backup>>
      PROVE  [Next]_vars /\ [Web!Next]_(Web!vars) /\ [Backup!Next]_(Backup!vars)
  BY <1>2 DEF OperationsNext, web, backup, Web!vars, Backup!vars, Backup!execution,
              Backup!restore
<1> QED
  BY <1>1, <1>2, PTL DEF OperationsSpec, Spec, Web!Spec, Backup!Spec
=============================================================================
