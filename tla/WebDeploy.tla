----------------------------- MODULE WebDeploy -----------------------------
(***************************************************************************)
(* The two pipelines of the web pair: cloudbuild-web.yaml deploys a build  *)
(* to the staging services, tests them and asks for a promotion;           *)
(* cloudbuild-web-promote.yaml, once a person approves it, deploys the two *)
(* images of that build to production.  All builds share the services.     *)
(***************************************************************************)
EXTENDS Naturals

CONSTANT LastBuild  \* bound: pushes to main

VARIABLES pc,          \* per build: its step
          staging,     \* images of the staging services, 0 for none
          verified,    \* images of the staging-verified tags
          production,  \* images of the production services
          requested, approved,  \* history: promotions asked for, and approved
          tested,      \* history: the pairs of images a smoke test passed on
          overlapped   \* history: a build was pushed while another was on staging

vars == <<pc, staging, verified, production, requested, approved, tested, overlapped>>

Builds == 1..LastBuild
Images == [mcp : 0..LastBuild, web : 0..LastBuild]
Staging == {"build", "mcp", "web", "smoke", "tagMcp", "tagWeb", "request"}
Promoting == {"promoteMcp", "promoteWeb"}

TypeOK == /\ pc \in [Builds -> Staging \cup Promoting
                               \cup {"queued", "pending", "live", "failed", "refused"}]
          /\ staging \in Images /\ verified \in Images /\ production \in Images
          /\ requested \subseteq Builds /\ approved \subseteq requested
          /\ tested \subseteq Images /\ overlapped \in BOOLEAN

Empty == [mcp |-> 0, web |-> 0]

Init == /\ pc = [b \in Builds |-> "queued"]
        /\ staging = Empty /\ verified = Empty /\ production = Empty
        /\ requested = {} /\ approved = {} /\ tested = {} /\ overlapped = FALSE

Go(b, step) == pc' = [pc EXCEPT ![b] = step]

-----------------------------------------------------------------------------
Push(b) == /\ pc[b] = "queued"
           /\ \A a \in Builds : a < b => pc[a] # "queued"
           /\ overlapped' = (overlapped \/ \E a \in Builds : pc[a] \in Staging)
           /\ Go(b, "build")
           /\ UNCHANGED <<staging, verified, production, requested, approved, tested>>

Build(b) == /\ pc[b] = "build"
            /\ Go(b, "mcp")
            /\ UNCHANGED <<staging, verified, production, requested, approved, tested, overlapped>>

DeployStagingMcp(b) == /\ pc[b] = "mcp"
                       /\ staging' = [staging EXCEPT !.mcp = b]
                       /\ Go(b, "web")
                       /\ UNCHANGED <<verified, production, requested, approved, tested, overlapped>>

\* Mutant: the web service on staging keeps its image.
StagingWebKept(b) == /\ pc[b] = "web"
                     /\ Go(b, "smoke")
                     /\ UNCHANGED <<staging, verified, production, requested, approved, tested, overlapped>>

DeployStagingWeb(b) == /\ pc[b] = "web"
                       /\ staging' = [staging EXCEPT !.web = b]
                       /\ Go(b, "smoke")
                       /\ UNCHANGED <<verified, production, requested, approved, tested, overlapped>>

\* Reachability, then a search that must resolve: of whatever is on staging.
SmokeTest(b) == /\ pc[b] = "smoke"
                /\ tested' = tested \cup {staging}
                /\ Go(b, "tagMcp")
                /\ UNCHANGED <<staging, verified, production, requested, approved, overlapped>>

TagMcp(b) == /\ pc[b] = "tagMcp"
             /\ verified' = [verified EXCEPT !.mcp = b]
             /\ Go(b, "tagWeb")
             /\ UNCHANGED <<staging, production, requested, approved, tested, overlapped>>

TagWeb(b) == /\ pc[b] = "tagWeb"
             /\ verified' = [verified EXCEPT !.web = b]
             /\ Go(b, "request")
             /\ UNCHANGED <<staging, production, requested, approved, tested, overlapped>>

\* The promotion is asked for with the commit that was tested.
RequestPromotion(b) == /\ pc[b] = "request"
                       /\ requested' = requested \cup {b}
                       /\ Go(b, "pending")
                       /\ UNCHANGED <<staging, verified, production, approved, tested, overlapped>>

-----------------------------------------------------------------------------
\* A person approves or refuses it, in any order and at any time.
Approve(b) == /\ pc[b] = "pending"
              /\ \/ approved' = approved \cup {b} /\ Go(b, "promoteMcp")
                 \/ Go(b, "refused") /\ UNCHANGED approved
              /\ UNCHANGED <<staging, verified, production, requested, tested, overlapped>>

\* Mutant: the image is the one of the staging-verified tag.
ImageFloating(b) == verified

\* The images are named by the commit of the request.
Image(b) == [mcp |-> b, web |-> b]

PromoteMcp(b) == /\ pc[b] = "promoteMcp"
                 /\ production' = [production EXCEPT !.mcp = Image(b).mcp]
                 /\ Go(b, "promoteWeb")
                 /\ UNCHANGED <<staging, verified, requested, approved, tested, overlapped>>

PromoteWeb(b) == /\ pc[b] = "promoteWeb"
                 /\ production' = [production EXCEPT !.web = Image(b).web]
                 /\ Go(b, "live")
                 /\ UNCHANGED <<staging, verified, requested, approved, tested, overlapped>>

\* Any command fails: set -e ends the pipeline where it is.
StepFails(b) == /\ pc[b] \in Staging \cup Promoting
                /\ Go(b, "failed")
                /\ UNCHANGED <<staging, verified, production, requested, approved, tested, overlapped>>

Next == \E b \in Builds :
          \/ Push(b) \/ Build(b) \/ DeployStagingMcp(b) \/ DeployStagingWeb(b) \/ SmokeTest(b)
          \/ TagMcp(b) \/ TagWeb(b) \/ RequestPromotion(b)
          \/ Approve(b) \/ PromoteMcp(b) \/ PromoteWeb(b) \/ StepFails(b)

Spec == Init /\ [][Next]_vars

-----------------------------------------------------------------------------
\* However builds, tags and approvals interleave, production only ever runs the
\* images of builds that asked for it and a person has approved: what is approved is what
\* is deployed.
ApprovedIsDeployed == TypeOK /\ {production.mcp, production.web} \subseteq approved \cup {0}

\* As long as no build was pushed while another was on staging, the two images of a build
\* that are in production together were tested with each other, however builds failed
\* half-way and promotions overlapped.
PairWasTested ==
  ~overlapped =>
    \A b \in Builds : production = [mcp |-> b, web |-> b] => production \in tested
=============================================================================
