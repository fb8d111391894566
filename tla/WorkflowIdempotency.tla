-------------------------- MODULE WorkflowIdempotency --------------------------
(***************************************************************************)
(* The table workflow_operation_runs and the service that guards it        *)
(* (common/workflow-idempotency.service.ts).  Every fit assessment,        *)
(* expanded fit and document generation of the API first calls reserve     *)
(* with a dedupe key (a hash of its inputs) and a fresh run id; a run that *)
(* is accepted does the work and then calls complete or markFailure.       *)
(*                                                                         *)
(* reserve is a read followed by a write: findOne, then save.  The table   *)
(* has a unique index on the key but no compare-and-swap, so each database *)
(* call is an action of its own.  The callers are the most general ones    *)
(* the services allow: any number of runs, any key, and after reserve any  *)
(* sequence of at most MaxUpdates calls of complete and markFailure.       *)
(***************************************************************************)
EXTENDS Naturals, FiniteSets

CONSTANTS
    Keys,        \* the (userId, operationName, dedupeKey) triples
    Runs,        \* the run ids: one per attempt, never used twice
    NoRun,       \* no run: an empty runId, responseBody or reply
    NoKey,       \* the key of a run that has not called reserve
    MaxUpdates,  \* bound: complete and markFailure calls of one run
    MaxFaults    \* bound: process crashes and database errors in a behaviour

ASSUME NoRunAssumption == NoRun \notin Runs
ASSUME NoKeyAssumption == NoKey \notin Keys
ASSUME BoundsAssumption == MaxUpdates \in Nat /\ MaxFaults \in Nat

VARIABLES
    row,        \* row[k]: the row of key k
    pc,         \* pc[r]: where run r stands
    key,        \* key[r]: the key r reserves
    outcome,    \* outcome[r]: what reserve answered
    reply,      \* reply[r]: the response body reserve replayed to r
    updates,    \* updates[r]: complete and markFailure calls since r reserved
    reopened,   \* history: the runs accepted by writing over a failed row
    faults      \* crashes and database errors so far

vars == <<row, pc, key, outcome, reply, updates, reopened, faults>>

\* A response body is identified by the run that computed it.
FailureStatuses == {"FAILED", "STALE", "PERSISTENCE_CONFLICT"}
Statuses == {"ABSENT", "IN_FLIGHT", "COMPLETED"} \cup FailureStatuses
Rows == [status : Statuses, runId : Runs \cup {NoRun}, body : Runs \cup {NoRun}]
NoRow == [status |-> "ABSENT", runId |-> NoRun, body |-> NoRun]

Outcomes == {"none", "accepted_new", "existing_in_flight",
             "existing_completed", "persistence_conflict"}
Phases == {"idle", "finding", "saving", "inserting", "refinding",
           "working", "replied", "ended", "crashed"}

\* The run was told to do the work and owns, or owned, the row of its key.
Accepted(r) == outcome[r] = "accepted_new"

Init ==
    /\ row = [k \in Keys |-> NoRow]
    /\ pc = [r \in Runs |-> "idle"]
    /\ key = [r \in Runs |-> NoKey]
    /\ outcome = [r \in Runs |-> "none"]
    /\ reply = [r \in Runs |-> NoRun]
    /\ updates = [r \in Runs |-> 0]
    /\ reopened = {}
    /\ faults = 0

-----------------------------------------------------------------------------
(* reserve *)

\* A caller calls reserve.  A cover letter run whose key replays an outdated
\* letter calls it again, under a second key and with the same run id.
Reserve(r, k) ==
    /\ \/ pc[r] = "idle"
       \/ pc[r] = "replied" /\ outcome[r] = "existing_completed" /\ key[r] # k
    /\ pc' = [pc EXCEPT ![r] = "finding"]
    /\ key' = [key EXCEPT ![r] = k]
    /\ outcome' = [outcome EXCEPT ![r] = "none"]
    /\ updates' = [updates EXCEPT ![r] = 0]
    /\ UNCHANGED <<row, reply, reopened, faults>>

\* reserve returns o without touching the table.
Replied(r, o) ==
    /\ pc' = [pc EXCEPT ![r] = "replied"]
    /\ outcome' = [outcome EXCEPT ![r] = o]
    /\ UNCHANGED <<row, key, updates, reopened, faults>>

\* What reserve answers when it finds the row settled or held by somebody.
FoundTaken(r) ==
    \/ /\ row[key[r]].status = "COMPLETED"
       /\ Replied(r, "existing_completed")
       /\ reply' = [reply EXCEPT ![r] = row[key[r]].body]
    \/ /\ row[key[r]].status = "IN_FLIGHT"
       /\ Replied(r, "existing_in_flight")
       /\ UNCHANGED reply

GoOn(r, phase) ==
    /\ pc' = [pc EXCEPT ![r] = phase]
    /\ UNCHANGED <<row, key, outcome, reply, updates, reopened, faults>>

\* The first findOne: answer at once, or go on to write the row.
Find(r) ==
    /\ pc[r] = "finding"
    /\ \/ FoundTaken(r)
       \/ row[key[r]].status = "ABSENT" /\ GoOn(r, "inserting")
       \/ row[key[r]].status \in FailureStatuses /\ GoOn(r, "saving")

Accept(r) ==
    /\ pc' = [pc EXCEPT ![r] = "working"]
    /\ outcome' = [outcome EXCEPT ![r] = "accepted_new"]
    /\ row' = [row EXCEPT ![key[r]] =
                  [status |-> "IN_FLIGHT", runId |-> r, body |-> NoRun]]
    /\ UNCHANGED <<key, reply, updates, faults>>

\* save of the failed row that findOne returned.  Nothing checks that the row
\* is still the failed one: the write lands on whatever the row is by now.
SaveExisting(r) ==
    /\ pc[r] = "saving"
    /\ Accept(r)
    /\ reopened' = reopened \cup {r}

InsertRow_NoUniqueIndex(r) ==       \* mutant: the unique index is missing
    /\ pc[r] = "inserting"
    /\ Accept(r)
    /\ UNCHANGED reopened

\* Insert of a new row: the unique index refuses it (23505) when a row is there.
InsertRow(r) ==
    /\ pc[r] = "inserting"
    /\ IF row[key[r]].status = "ABSENT"
       THEN Accept(r) /\ UNCHANGED reopened
       ELSE GoOn(r, "refinding")

\* The findOne after a unique conflict.  A run that finds the row failed by now
\* is told persistence_conflict, and its callers go on and do the work.
Refind(r) ==
    /\ pc[r] = "refinding"
    /\ \/ FoundTaken(r)
       \/ /\ row[key[r]].status \in FailureStatuses
          /\ pc' = [pc EXCEPT ![r] = "working"]
          /\ outcome' = [outcome EXCEPT ![r] = "persistence_conflict"]
          /\ UNCHANGED <<row, key, reply, updates, reopened, faults>>

-----------------------------------------------------------------------------
(* complete and markFailure: one UPDATE each, restricted to the caller's runId *)

SetRow(k, st, b) ==
    row' = [row EXCEPT ![k] = [status |-> st, runId |-> row[k].runId, body |-> b]]

Report(r) ==
    /\ updates[r] < MaxUpdates
    /\ updates' = [updates EXCEPT ![r] = @ + 1]
    /\ UNCHANGED <<pc, key, outcome, reply, reopened, faults>>

Complete_AnyRun(r) ==               \* mutant: the UPDATE matches the key alone
    /\ pc[r] = "working"
    /\ Report(r)
    /\ SetRow(key[r], "COMPLETED", r)

Complete_Upsert(r) ==               \* mutant: complete writes its own runId too
    /\ pc[r] = "working"
    /\ Report(r)
    /\ row' = [row EXCEPT ![key[r]] =
                  [status |-> "COMPLETED", runId |-> r, body |-> r]]

Complete(r) ==
    /\ pc[r] = "working"
    /\ Report(r)
    /\ IF row[key[r]].runId = r THEN SetRow(key[r], "COMPLETED", r)
                               ELSE UNCHANGED row

MarkFailure_FreeText(r, st) ==      \* mutant: the caller's own code as the status
    /\ pc[r] \in {"working", "replied"}
    /\ Report(r)
    /\ IF row[key[r]].runId = r THEN SetRow(key[r], "timed_out", row[key[r]].body)
                               ELSE UNCHANGED row

\* st is the caller's choice among the failure statuses.  The response body stays
\* in the row.  runFitAssessment also reports a failure for a run that reserve
\* turned away; its runId is in no row.
MarkFailure(r, st) ==
    /\ pc[r] \in {"working", "replied"}
    /\ Report(r)
    /\ IF row[key[r]].runId = r THEN SetRow(key[r], st, row[key[r]].body)
                               ELSE UNCHANGED row

\* The handler returns: a run that worked has reported at least once.
End(r) ==
    /\ \/ pc[r] = "working" /\ updates[r] > 0
       \/ pc[r] = "replied"
    /\ GoOn(r, "ended")

\* The process dies, or a database call throws out of reserve: the run writes
\* nothing more.  No lease expires and no job looks for rows left IN_FLIGHT.
Crash(r) ==
    /\ pc[r] \notin {"idle", "ended", "crashed"}
    /\ faults < MaxFaults
    /\ faults' = faults + 1
    /\ pc' = [pc EXCEPT ![r] = "crashed"]
    /\ UNCHANGED <<row, key, outcome, reply, updates, reopened>>

-----------------------------------------------------------------------------
Next ==
    \E r \in Runs :
        \/ \E k \in Keys : Reserve(r, k)
        \/ Find(r) \/ SaveExisting(r) \/ InsertRow(r) \/ Refind(r)
        \/ \E st \in FailureStatuses : MarkFailure(r, st)
        \/ Complete(r) \/ End(r)
        \/ Crash(r)

Spec == Init /\ [][Next]_vars

-----------------------------------------------------------------------------
(* Properties *)

\* Every variable stays in its domain.
TypeOK ==
    /\ row \in [Keys -> Rows]
    /\ pc \in [Runs -> Phases]
    /\ key \in [Runs -> Keys \cup {NoKey}]
    /\ outcome \in [Runs -> Outcomes]
    /\ reply \in [Runs -> Runs \cup {NoRun}]
    /\ updates \in [Runs -> Nat]
    /\ reopened \subseteq Runs
    /\ faults \in Nat

\* A response that reserve replays was computed, for the very same key, by
\* another run that reserve had accepted: never by a run that was turned away or
\* told persistence_conflict, never for other inputs.
ReplayIsAnAcceptedResult ==
    \A r \in Runs :
        outcome[r] = "existing_completed" =>
            /\ reply[r] \in Runs \ {r}
            /\ Accepted(reply[r])
            /\ key[reply[r]] = key[r]

\* Two runs do the work of one key only if one of them wrote over a failed row:
\* however the first attempts race, the unique index lets one of them through.
DuplicateWorkNeedsAFailure ==
    \A r, s \in Runs :
        (r # s /\ Accepted(r) /\ Accepted(s) /\ key[r] = key[s]) =>
            (r \in reopened \/ s \in reopened)

\* A run that lost its row to a later run never gets it back, whatever the two
\* write afterwards and in whatever order: the newest attempt decides the row.
Superseded(r) == Accepted(r) /\ row[key[r]].runId # r
SupersededForever == [][\A r \in Runs : Superseded(r) => Superseded(r)']_vars

InFlight(k) == row[k].status = "IN_FLIGHT"

-----------------------------------------------------------------------------
(* The abstract ledger *)

LedgerResult(k) ==
    CASE row[k].status = "ABSENT" -> "none"
      [] row[k].status = "IN_FLIGHT" -> "open"
      [] row[k].status = "COMPLETED" -> "stored"
      [] OTHER -> "failed"

Ledger == INSTANCE RunLedger WITH
    owner <- [k \in Keys |-> row[k].runId],
    result <- [k \in Keys |-> LedgerResult(k)],
    granted <- {r \in Runs : Accepted(r)},
    delivered <- reply

\* The table and the service keep the promise of RunLedger.
ImplementsLedger == Ledger!LedgerSpec
=============================================================================
