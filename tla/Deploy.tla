------------------------------- MODULE Deploy -------------------------------
(***************************************************************************)
(* The pipeline of the crawler (cloudbuild.yaml): builds that share two    *)
(* Cloud Run jobs, the database and the known-good tag, with the rollback  *)
(* that runs on an error.  Nothing keeps builds from running together.     *)
(* A build, its image and its newest migration have the same number.       *)
(***************************************************************************)
EXTENDS Naturals

CONSTANT LastBuild  \* bound: pushes to main

ASSUME LastBuildAssumption == LastBuild \in Nat

VARIABLES pc,             \* per build: the step it is at
          migrateImage, crawlImage,  \* the images of the two jobs, 0 for none
          schema,         \* the newest migration applied
          knownGood,      \* the image of the known-good tag, 0 for none
          passed,         \* history: images a dry run has passed on
          stuck,          \* history: a rollback that left the job alone
          overlapped      \* history: a build was pushed while another was in progress

vars == <<pc, migrateImage, crawlImage, schema, knownGood, passed, stuck, overlapped>>

Builds == 1..LastBuild
Steps == {"migrateJob", "crawlJob", "migrations", "smoke", "tag"}

TypeOK == /\ pc \in [Builds -> {"queued", "build", "rollback", "done", "failed", "killed"}
                               \cup Steps]
          /\ migrateImage \in 0..LastBuild /\ crawlImage \in 0..LastBuild
          /\ knownGood \in 0..LastBuild /\ schema \in 0..LastBuild
          /\ passed \subseteq 0..LastBuild
          /\ stuck \in BOOLEAN /\ overlapped \in BOOLEAN

Init == /\ pc = [b \in Builds |-> "queued"]
        /\ migrateImage = 0 /\ crawlImage = 0 /\ schema = 0 /\ knownGood = 0
        /\ passed = {} /\ stuck = FALSE /\ overlapped = FALSE

InProgress(b) == pc[b] \in Steps \cup {"build", "rollback"}

Go(b, step) == pc' = [pc EXCEPT ![b] = step]

jobs == <<migrateImage, crawlImage>>
history == <<passed, stuck, overlapped>>

-----------------------------------------------------------------------------
\* A push to main triggers a build.
Push(b) == /\ pc[b] = "queued"
           /\ \A a \in Builds : a < b => pc[a] # "queued"
           /\ overlapped' = (overlapped \/ \E a \in Builds : InProgress(a))
           /\ Go(b, "build")
           /\ UNCHANGED <<jobs, schema, knownGood, passed, stuck>>

\* Build and push of the image: a failure here has touched no job.
Build(b) == /\ pc[b] = "build"
            /\ Go(b, "migrateJob") \/ Go(b, "failed")
            /\ UNCHANGED <<jobs, schema, knownGood, history>>

DeployMigrateJob(b) == /\ pc[b] = "migrateJob"
                       /\ migrateImage' = b
                       /\ Go(b, "crawlJob")
                       /\ UNCHANGED <<crawlImage, schema, knownGood, history>>

DeployCrawlJob(b) == /\ pc[b] = "crawlJob"
                     /\ crawlImage' = b
                     /\ Go(b, "migrations")
                     /\ UNCHANGED <<migrateImage, schema, knownGood, history>>

\* Mutant: the migrations are not executed.
MigrationsSkipped(b) == /\ pc[b] = "migrations"
                        /\ Go(b, "smoke")
                        /\ UNCHANGED <<jobs, schema, knownGood, history>>

\* alembic upgrade head of whatever image the job has; it does not know a
\* migration newer than its own.
ApplyMigrations(b) == /\ pc[b] = "migrations"
                      /\ schema <= migrateImage
                      /\ schema' = migrateImage
                      /\ Go(b, "smoke")
                      /\ UNCHANGED <<jobs, knownGood, history>>

\* The dry run executes the job, on whatever image it has.
SmokeTest(b) == /\ pc[b] = "smoke"
                /\ passed' = passed \cup {crawlImage}
                /\ Go(b, "tag")
                /\ UNCHANGED <<jobs, schema, knownGood, stuck, overlapped>>

\* The trap is off: where the tag cannot be added the build just fails.
Tag(b) == /\ pc[b] = "tag"
          /\ \/ knownGood' = b /\ Go(b, "done")
             \/ Go(b, "failed") /\ UNCHANGED knownGood
          /\ UNCHANGED <<jobs, schema, history>>

\* A command of the guarded steps fails: trap rollback ERR.
StepFails(b) == /\ pc[b] \in Steps \ {"tag"}
                /\ Go(b, "rollback")
                /\ UNCHANGED <<jobs, schema, knownGood, history>>

\* Mutant: the rollback only reports.
RollbackNot(b) == /\ pc[b] = "rollback"
                  /\ Go(b, "failed")
                  /\ UNCHANGED <<jobs, schema, knownGood, history>>

\* The job goes back to the known-good image, if there is one; an update that fails passes
\* ("|| true"), and a describe that fails for another reason than a missing tag counts as
\* no tag: either way the job stays as it is.  The migrations applied stay.
Rollback(b) == /\ pc[b] = "rollback"
               /\ IF knownGood = 0
                  THEN UNCHANGED <<crawlImage, stuck>>
                  ELSE \/ crawlImage' = knownGood /\ UNCHANGED stuck
                       \/ stuck' = TRUE /\ UNCHANGED crawlImage
               /\ Go(b, "failed")
               /\ UNCHANGED <<migrateImage, schema, knownGood, passed, overlapped>>

\* A build that is cancelled or times out runs no trap.
Kill(b) == /\ InProgress(b)
           /\ Go(b, "killed")
           /\ UNCHANGED <<jobs, schema, knownGood, history>>

Next == \E b \in Builds : \/ Push(b) \/ Build(b) \/ DeployMigrateJob(b) \/ DeployCrawlJob(b)
                          \/ ApplyMigrations(b) \/ SmokeTest(b) \/ Tag(b)
                          \/ StepFails(b) \/ Rollback(b) \/ Kill(b)

Spec == Init /\ [][Next]_vars

-----------------------------------------------------------------------------
\* What a failed build is rolled back to has passed the gate itself: the tag never names an
\* image no dry run has passed on, however the builds before ended, as long as no build was
\* pushed while another ran - the dry run is of the image the shared job has.
KnownGoodPassed == ~overlapped /\ knownGood # 0 => knownGood \in passed

\* The database has the migrations of the known-good image, and is ahead of it only by builds
\* that did not complete, as long as no build was pushed while another ran.  That the image
\* also runs on those newer migrations, which no rollback takes back, is the authors' to see to.
SchemaAheadByUnfinished ==
  ~overlapped => /\ knownGood <= schema
                 /\ \A b \in Builds : pc[b] = "done" => b <= knownGood

\* The known-good image passed, and the database has its migrations.
KnownGoodIsGood == TypeOK /\ KnownGoodPassed /\ SchemaAheadByUnfinished

\* Between builds that did not overlap the job has an image that passed the gate, however they
\* ended, unless there never was one, a rollback left the job alone or a build was killed.
Idle == \A b \in Builds : ~InProgress(b)
Unkilled == \A b \in Builds : pc[b] # "killed"
RestsOnPassed ==
  Idle /\ Unkilled /\ knownGood # 0 /\ ~stuck /\ ~overlapped => crawlImage \in passed

\* "Any failure rolls the crawl job back to the last image that passed this same gate"
\* (cloudbuild.yaml:3-4), builds that overlap included.
RollsBackToPassed == \A b \in Builds : pc[b] = "rollback" /\ knownGood # 0 => knownGood \in passed
=============================================================================
