---------------------------- MODULE SnapshotLog ----------------------------
(***************************************************************************)
(* What the two tables promise to everyone who reads them, whatever the    *)
(* crawl does to keep the promise.  listing_snapshots is append-only;  a   *)
(* run collects rows while it is open;  once it is published (status       *)
(* success or partial) or closed (a finished failed run) neither its rows  *)
(* nor its start time ever change.  Readers (the _CURRENT query of the MCP *)
(* server) look at the published run of a source that started last.        *)
(***************************************************************************)
EXTENDS Naturals

CONSTANTS Runs,      \* run ids
          Sources,   \* adapter names
          SourceOf,  \* the source a run belongs to
          Rows       \* possible snapshot rows

VARIABLES phase,     \* [Runs -> Phases]
          started,   \* [Runs -> Nat], the run's started_at
          rows       \* [Runs -> SUBSET Rows]

vars == <<phase, started, rows>>

Phases == {"absent", "open", "published", "closed"}

TypeOK == /\ phase \in [Runs -> Phases]
          /\ started \in [Runs -> Nat]
          /\ rows \in [Runs -> SUBSET Rows]

Init == /\ phase = [r \in Runs |-> "absent"]
        /\ started = [r \in Runs |-> 0]
        /\ rows = [r \in Runs |-> {}]

Open(r) == /\ phase[r] = "absent"
           /\ phase' = [phase EXCEPT ![r] = "open"]
           /\ started'[r] \in Nat
           /\ started' = [started EXCEPT ![r] = started'[r]]
           /\ UNCHANGED rows

Add(r) == /\ phase[r] = "open"
          /\ rows[r] \subseteq rows'[r] /\ rows'[r] \subseteq Rows
          /\ rows' = [rows EXCEPT ![r] = rows'[r]]
          /\ UNCHANGED <<phase, started>>

Finish(r) == /\ phase[r] = "open"
             /\ \E p \in {"published", "closed"} : phase' = [phase EXCEPT ![r] = p]
             /\ UNCHANGED <<started, rows>>

Next == \E r \in Runs : Open(r) \/ Add(r) \/ Finish(r)

Spec == Init /\ [][Next]_vars

----------------------------------------------------------------------------
\* r is the run a reader takes for its source: published, and no published run
\* of the same source started later.
Visible(r) == /\ phase[r] = "published"
              /\ \A q \in Runs : phase[q] = "published" /\ SourceOf[q] = SourceOf[r]
                                    => started[q] <= started[r]

\* No step removes a snapshot row: listing_snapshots is append-only.
AppendOnly == [][\A r \in Runs : rows[r] \subseteq rows'[r]]_vars

\* A run that has reached its terminal status is never touched again: readers
\* may take the rows of a published run for its final rows.
FinishedKept ==
  \A r \in Runs : phase[r] \in {"published", "closed"}
    => phase'[r] = phase[r] /\ started'[r] = started[r] /\ rows'[r] = rows[r]
FinishedRunsFrozen == [][FinishedKept]_vars

\* What a reader sees for a source only moves forward: no step replaces the run
\* a source shows by one that started before it.
MovesForward ==
  \A r, q \in Runs : Visible(r) /\ Visible(q)' /\ SourceOf[r] = SourceOf[q]
    => started[r] <= started'[q]
ReadersMoveForward == [][MovesForward]_vars
=============================================================================
