---------------------------- MODULE MCOperations ----------------------------
(***************************************************************************)
(* What operates the system, each on its own: the pipeline of the crawler, *)
(* the pipelines of the web pair, and the backups with their restore       *)
(* check.  They share nothing: a behaviour runs one of them.               *)
(***************************************************************************)
EXTENDS Deploy

CONSTANTS LastBackup, Retention, MaxDays

VARIABLES operated,  \* which of the three runs
          webPc, staging, verified, production, requested, approved, tested, webOverlapped,
          day, migrated, backupPc, dump, check, picked, throwaway, verdict, completed, before

web == <<webPc, staging, verified, production, requested, approved, tested, webOverlapped>>
backup == <<day, migrated, backupPc, dump, check, picked, throwaway, verdict, completed, before>>

Web == INSTANCE WebDeploy WITH pc <- webPc, overlapped <- webOverlapped
Backup == INSTANCE Backup WITH pc <- backupPc

OperationsInit == /\ operated \in {"crawler", "web", "backup"}
                  /\ Init /\ Web!Init /\ Backup!Init

OperationsNext ==
  \/ operated = "crawler" /\ Next /\ UNCHANGED <<operated, web, backup>>
  \/ operated = "web" /\ Web!Next /\ UNCHANGED <<operated, vars, backup>>
  \/ operated = "backup" /\ Backup!Next /\ UNCHANGED <<operated, vars, web>>

OperationsSpec == OperationsInit /\ [][OperationsNext]_<<operated, vars, web, backup>>

ApprovedIsDeployed == Web!ApprovedIsDeployed
PairWasTested == Web!PairWasTested
HistoryKept == Backup!HistoryKept
VerifiedRestores == Backup!VerifiedRestores
=============================================================================
