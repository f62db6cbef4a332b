------------------------------- MODULE Backup -------------------------------
(***************************************************************************)
(* scripts/backup.sh, run by a timer and by hand, and restore-check.sh:    *)
(* the dump files in the backup directory, which dumps that fail leave     *)
(* partial and which every successful backup prunes by age, and the dump a *)
(* check picks and restores while backups run.                             *)
(***************************************************************************)
EXTENDS Naturals

CONSTANTS LastBackup, \* bound: executions of backup.sh, numbered as they begin
          Retention,  \* BACKUP_RETENTION, in days
          MaxDays     \* bound: days

VARIABLES day,         \* the clock
          migrated,    \* the database has its tables
          pc,          \* per execution: the command it is at
          dump,        \* per execution: its file, the day of its last write, and
                       \* whether the tables were there when it was begun
          check, picked, throwaway, verdict,  \* the restore check, and its answer
          completed,   \* history: dumps that were completed
          before       \* history: dumps that were completed when the check picked

execution == <<pc, dump, completed>>
restore == <<check, picked, throwaway, verdict, before>>
vars == <<day, migrated, execution, restore>>

Backups == 1..LastBackup

TypeOK == /\ day \in 0..MaxDays /\ migrated \in BOOLEAN
          /\ pc \in [Backups -> {"queued", "dump", "prune", "done", "failed"}]
          /\ dump \in [Backups -> [file : {"none", "partial", "complete", "pruned"},
                                   day : 0..MaxDays, tables : BOOLEAN]]
          /\ check \in {"idle", "create", "restore", "count"}
          /\ picked \in Backups /\ throwaway \in BOOLEAN
          /\ verdict \in {"none", "verified", "failed"}
          /\ completed \subseteq Backups /\ before \subseteq completed

Init == /\ day = 0 /\ migrated = FALSE
        /\ pc = [b \in Backups |-> "queued"]
        /\ dump = [b \in Backups |-> [file |-> "none", day |-> 0, tables |-> FALSE]]
        /\ check = "idle" /\ picked = 1 /\ throwaway = FALSE /\ verdict = "none"
        /\ completed = {} /\ before = {}

OnDisk == {b \in Backups : dump[b].file \in {"partial", "complete"}}

\* find -mtime: whole days since the last write, more than the retention.
Old == {b \in OnDisk : day - dump[b].day > Retention}

Go(b, step) == pc' = [pc EXCEPT ![b] = step]

-----------------------------------------------------------------------------
Begins(b) == pc[b] = "queued" /\ \A a \in Backups : a < b => pc[a] # "queued"

\* Mutant: the old dumps make room before the new one is taken.
StartPrunes(b) ==
  /\ Begins(b)
  /\ dump' = [a \in Backups |->
                IF a = b THEN [file |-> "partial", day |-> day, tables |-> migrated]
                ELSE IF a \in Old THEN [dump[a] EXCEPT !.file = "pruned"] ELSE dump[a]]
  /\ Go(b, "dump")
  /\ UNCHANGED <<day, migrated, completed, restore>>

\* pg_dump dumps the database as it is when it begins.
Start(b) == /\ Begins(b)
            /\ dump' = [dump EXCEPT ![b] =
                          [file |-> "partial", day |-> day, tables |-> migrated]]
            /\ Go(b, "dump")
            /\ UNCHANGED <<day, migrated, completed, restore>>

Write(b) == /\ pc[b] = "dump"
            /\ dump' = [dump EXCEPT ![b].day = day]
            /\ UNCHANGED <<day, migrated, pc, completed, restore>>

DumpDone(b) == /\ pc[b] = "dump"
               /\ dump' = [dump EXCEPT ![b].file = "complete", ![b].day = day]
               /\ completed' = completed \cup {b}
               /\ Go(b, "prune")
               /\ UNCHANGED <<day, migrated, restore>>

\* find deletes the old files, or fails half-way.
Prune(b) == /\ pc[b] = "prune"
            /\ \E gone \in SUBSET Old :
                  dump' = [a \in Backups |->
                             IF a \in gone THEN [dump[a] EXCEPT !.file = "pruned"] ELSE dump[a]]
            /\ Go(b, "done")
            /\ UNCHANGED <<day, migrated, completed, restore>>

\* set -e: a dump that fails or is killed leaves its file, and nothing is pruned.
Fail(b) == /\ pc[b] \in {"dump", "prune"}
           /\ Go(b, "failed")
           /\ UNCHANGED <<day, migrated, dump, completed, restore>>

Migrate == /\ ~migrated /\ migrated' = TRUE
           /\ UNCHANGED <<day, execution, restore>>

\* No dump goes Retention days without a write, and find follows the dump at once.
Tick == /\ day < MaxDays
        /\ \A b \in Backups : /\ pc[b] # "prune"
                              /\ pc[b] = "dump" => day - dump[b].day < Retention
        /\ day' = day + 1
        /\ UNCHANGED <<migrated, execution, restore>>

-----------------------------------------------------------------------------
\* The trap: the drop of the throwaway database may fail, whatever the verdict.
Exit(answer) == /\ check' = "idle" /\ verdict' = answer
                /\ throwaway' \in {FALSE, throwaway}

\* ls -1t: the newest file, whether it is complete or not.
Newest == {b \in OnDisk : \A a \in OnDisk : dump[a].day <= dump[b].day}

Pick == /\ check = "idle"
        /\ before' = completed
        /\ IF OnDisk = {}
           THEN Exit("failed") /\ UNCHANGED picked
           ELSE /\ picked' \in Newest /\ check' = "create" /\ verdict' = "none"
                /\ UNCHANGED throwaway
        /\ UNCHANGED <<day, migrated, execution>>

CreateDatabase == /\ check = "create"
                  /\ \/ check' = "restore" /\ throwaway' = TRUE /\ UNCHANGED verdict
                     \/ Exit("failed")
                  /\ UNCHANGED <<day, migrated, execution, picked, before>>

\* Mutant: pg_restore's errors are let pass.
RestoreLenient == /\ check = "restore"
                  /\ check' = "count" /\ UNCHANGED <<throwaway, verdict>>
                  /\ UNCHANGED <<day, migrated, execution, picked, before>>

\* A file that is partial, or was pruned since it was picked, does not restore.
Restore == /\ check = "restore"
           /\ \/ /\ dump[picked].file = "complete"
                 /\ check' = "count" /\ UNCHANGED <<throwaway, verdict>>
              \/ Exit("failed")
           /\ UNCHANGED <<day, migrated, execution, picked, before>>

Count == /\ check = "count"
         /\ \/ dump[picked].tables /\ Exit("verified")
            \/ Exit("failed")
         /\ UNCHANGED <<day, migrated, execution, picked, before>>

Next == \/ \E b \in Backups : Start(b) \/ Write(b) \/ DumpDone(b) \/ Prune(b) \/ Fail(b)
        \/ Migrate \/ Tick
        \/ Pick \/ CreateDatabase \/ Restore \/ Count

Spec == Init /\ [][Next]_vars

-----------------------------------------------------------------------------
\* The history "cannot be reacquired at any price" (backup.sh:2-3): the last dump that was
\* completed is kept, however long the backups after it fail, and so is every one for the
\* days of the retention.
HistoryKept ==
  /\ TypeOK
  /\ \A b \in completed :
        \/ day - dump[b].day <= Retention
        \/ \A a \in completed : dump[a].day <= dump[b].day
        => dump[b].file = "complete"

\* A check that verifies has restored a dump that was completed, has the tables, and is no
\* older than any that was completed when it began, whatever was written, failed or
\* pruned meanwhile.
VerifiedRestores ==
  verdict = "verified" =>
    /\ picked \in completed /\ dump[picked].tables
    /\ \A b \in before : dump[b].day <= dump[picked].day
=============================================================================
