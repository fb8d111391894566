----------------------- MODULE WorkflowIdempotencyProofs -----------------------
(***************************************************************************)
(* What WorkflowIdempotency guarantees for any number of keys, runs,       *)
(* updates and faults.  The argument rests on one inductive invariant:     *)
(* the runId of a row is always an accepted run of that very key, and a    *)
(* response body in a row is always its runId's.                           *)
(***************************************************************************)
EXTENDS WorkflowIdempotency, TLAPS

\* A run past reserve has a key, and an accepted run only works or stops.
PhaseInv ==
    \A r \in Runs :
        /\ pc[r] # "idle" => key[r] \in Keys
        /\ Accepted(r) => pc[r] \in {"working", "ended", "crashed"}
        /\ pc[r] = "idle" => outcome[r] = "none"

\* A row belongs to an accepted run of its key and carries no other run's body.
RowInv ==
    \A k \in Keys :
        /\ row[k].status # "ABSENT" =>
              /\ row[k].runId \in Runs
              /\ Accepted(row[k].runId)
              /\ key[row[k].runId] = k
        /\ row[k].status = "ABSENT" => row[k].runId = NoRun
        /\ row[k].status = "COMPLETED" => row[k].body = row[k].runId

\* The row of an accepted run exists: rows are never deleted.
AcceptedHasRow ==
    \A r \in Runs : Accepted(r) => row[key[r]].status # "ABSENT"

IInv ==
    /\ TypeOK
    /\ PhaseInv
    /\ RowInv
    /\ AcceptedHasRow
    /\ ReplayIsAnAcceptedResult
    /\ DuplicateWorkNeedsAFailure

LEMMA InitIInv == Init => IInv
BY NoRunAssumption, NoKeyAssumption
   DEF Init, IInv, TypeOK, PhaseInv, RowInv, AcceptedHasRow,
       ReplayIsAnAcceptedResult, DuplicateWorkNeedsAFailure, Accepted,
       Rows, NoRow, Statuses, FailureStatuses, Phases, Outcomes

\* Every step keeps the variables in their domains.
LEMMA TypeStep == TypeOK /\ PhaseInv /\ [Next]_vars => TypeOK'
<1> SUFFICES ASSUME TypeOK, PhaseInv, [Next]_vars PROVE TypeOK'
  OBVIOUS
<1> USE DEF TypeOK, Phases, Outcomes, Statuses, FailureStatuses, Rows
<1>1. ASSUME NEW r \in Runs, NEW k \in Keys, Reserve(r, k) PROVE TypeOK'
  BY <1>1 DEF Reserve
<1>2. ASSUME NEW r \in Runs, Find(r) PROVE TypeOK'
  BY <1>2 DEF Find, FoundTaken, Replied, GoOn, PhaseInv
<1>3. ASSUME NEW r \in Runs, SaveExisting(r) PROVE TypeOK'
  BY <1>3 DEF SaveExisting, Accept, PhaseInv
<1>4. ASSUME NEW r \in Runs, InsertRow(r) PROVE TypeOK'
  BY <1>4 DEF InsertRow, Accept, GoOn, PhaseInv
<1>5. ASSUME NEW r \in Runs, Refind(r) PROVE TypeOK'
  BY <1>5 DEF Refind, FoundTaken, Replied, PhaseInv
<1>6. ASSUME NEW r \in Runs, Complete(r) PROVE TypeOK'
  <2>1. key[r] \in Keys
    BY <1>6 DEF Complete, PhaseInv
  <2>2. row' \in [Keys -> Rows]
    <3>1. CASE row[key[r]].runId = r
      BY <1>6, <2>1, <3>1 DEF Complete, SetRow
    <3>2. CASE row[key[r]].runId # r
      BY <1>6, <3>2 DEF Complete
    <3> QED BY <3>1, <3>2
  <2> QED
    BY <1>6, <2>2 DEF Complete, Report
<1>7. ASSUME NEW r \in Runs, NEW st \in FailureStatuses, MarkFailure(r, st)
      PROVE  TypeOK'
  BY <1>7 DEF MarkFailure, Report, SetRow, PhaseInv
<1>8. ASSUME NEW r \in Runs, End(r) PROVE TypeOK'
  BY <1>8 DEF End, GoOn
<1>9. ASSUME NEW r \in Runs, Crash(r) PROVE TypeOK'
  BY <1>9 DEF Crash
<1>10. CASE UNCHANGED vars
  BY <1>10 DEF vars
<1> QED
  BY <1>1, <1>2, <1>3, <1>4, <1>5, <1>6, <1>7, <1>8, <1>9, <1>10 DEF Next

\* The parts of IInv besides TypeOK, written for one step at a time.
RestInv ==
    /\ PhaseInv
    /\ RowInv
    /\ AcceptedHasRow
    /\ ReplayIsAnAcceptedResult
    /\ DuplicateWorkNeedsAFailure

\* A step that leaves the rows, the keys and the set of accepted runs alone, and
\* replays nothing, disturbs no part of the invariant but the phases.
Quiet(r) ==
    /\ UNCHANGED <<row, key, reply, reopened>>
    /\ outcome' = outcome
    /\ \E ph \in Phases \ {"idle"} :
          /\ pc' = [pc EXCEPT ![r] = ph]
          /\ Accepted(r) => ph \in {"working", "ended", "crashed"}
    /\ pc[r] # "idle"

LEMMA QuietStep == ASSUME IInv, NEW r \in Runs, Quiet(r) PROVE RestInv'
<1> USE DEF IInv, TypeOK, Accepted
<1>1. PhaseInv'
  BY DEF Quiet, PhaseInv
<1>2. RowInv'
  BY DEF Quiet, RowInv
<1>3. AcceptedHasRow'
  BY DEF Quiet, AcceptedHasRow
<1>4. ReplayIsAnAcceptedResult'
  BY DEF Quiet, ReplayIsAnAcceptedResult
<1>5. DuplicateWorkNeedsAFailure'
  BY DEF Quiet, DuplicateWorkNeedsAFailure
<1> QED BY <1>1, <1>2, <1>3, <1>4, <1>5 DEF RestInv

\* reserve answers from a row that is completed or in flight.
LEMMA FoundTakenStep ==
  ASSUME IInv, NEW r \in Runs, pc[r] \in {"finding", "refinding"}, FoundTaken(r)
  PROVE  RestInv'
<1> USE DEF IInv, TypeOK, Accepted, FoundTaken, Replied, Outcomes
<1>0. key[r] \in Keys /\ ~Accepted(r)
  BY DEF PhaseInv
<1>1. PhaseInv'
  BY <1>0 DEF PhaseInv
<1>2. RowInv'
  BY <1>0 DEF RowInv
<1>3. AcceptedHasRow'
  BY <1>0 DEF AcceptedHasRow
<1>4. ReplayIsAnAcceptedResult'
  <2>1. CASE row[key[r]].status = "COMPLETED"
    <3>1. /\ row[key[r]].body \in Runs
          /\ Accepted(row[key[r]].body)
          /\ key[row[key[r]].body] = key[r]
      BY <1>0, <2>1 DEF RowInv
    <3>2. row[key[r]].body # r
      BY <1>0, <3>1
    <3>3. /\ reply' = [reply EXCEPT ![r] = row[key[r]].body]
          /\ outcome' = [outcome EXCEPT ![r] = "existing_completed"]
          /\ key' = key
      BY <2>1
    <3> QED
      BY <3>1, <3>2, <3>3, <1>0 DEF ReplayIsAnAcceptedResult
  <2>2. CASE row[key[r]].status = "IN_FLIGHT"
    BY <1>0, <2>2 DEF ReplayIsAnAcceptedResult
  <2> QED BY <2>1, <2>2
<1>5. DuplicateWorkNeedsAFailure'
  BY <1>0 DEF DuplicateWorkNeedsAFailure
<1> QED BY <1>1, <1>2, <1>3, <1>4, <1>5 DEF RestInv

\* A run is accepted: by insertion if the row was absent, otherwise as reopened.
LEMMA AcceptStep ==
  ASSUME IInv, NEW r \in Runs, pc[r] \in {"saving", "inserting"}, Accept(r),
         \/ row[key[r]].status = "ABSENT" /\ reopened' = reopened
         \/ reopened' = reopened \cup {r}
  PROVE  RestInv'
<1> USE DEF IInv, TypeOK, Accepted, Accept
<1>0. key[r] \in Keys /\ ~Accepted(r)
  BY DEF PhaseInv
<1>1. PhaseInv'
  BY <1>0 DEF PhaseInv
<1>2. RowInv'
  BY <1>0 DEF RowInv
<1>3. AcceptedHasRow'
  BY <1>0 DEF AcceptedHasRow, PhaseInv
<1>4. ReplayIsAnAcceptedResult'
  BY <1>0 DEF ReplayIsAnAcceptedResult
<1>5. DuplicateWorkNeedsAFailure'
  <2>1. CASE row[key[r]].status = "ABSENT" /\ reopened' = reopened
    <3>1. \A s \in Runs : Accepted(s) => key[s] # key[r]
      BY <2>1 DEF AcceptedHasRow
    <3> QED
      BY <1>0, <2>1, <3>1 DEF DuplicateWorkNeedsAFailure
  <2>2. CASE reopened' = reopened \cup {r}
    BY <1>0, <2>2 DEF DuplicateWorkNeedsAFailure
  <2> QED BY <2>1, <2>2
<1> QED BY <1>1, <1>2, <1>3, <1>4, <1>5 DEF RestInv

\* complete and markFailure touch the row of their key only if its runId is theirs.
LEMMA SettleStep ==
  ASSUME IInv, NEW r \in Runs, pc[r] \in {"working", "replied"},
         UNCHANGED <<pc, key, outcome, reply, reopened>>,
         \/ UNCHANGED row
         \/ /\ row[key[r]].runId = r
            /\ \/ SetRow(key[r], "COMPLETED", r)
               \/ \E st \in FailureStatuses : SetRow(key[r], st, row[key[r]].body)
  PROVE  RestInv'
<1> USE DEF IInv, TypeOK, Accepted, SetRow, FailureStatuses
<1>0. key[r] \in Keys
  BY DEF PhaseInv
<1>1. PhaseInv'
  BY DEF PhaseInv
<1>2. RowInv'
  <2>1. row[key[r]].runId = r => row[key[r]].status # "ABSENT"
    BY <1>0, NoRunAssumption DEF RowInv
  <2> QED BY <1>0, <2>1 DEF RowInv
<1>3. AcceptedHasRow'
  BY <1>0 DEF AcceptedHasRow, PhaseInv
<1>4. ReplayIsAnAcceptedResult'
  BY DEF ReplayIsAnAcceptedResult
<1>5. DuplicateWorkNeedsAFailure'
  BY DEF DuplicateWorkNeedsAFailure
<1> QED BY <1>1, <1>2, <1>3, <1>4, <1>5 DEF RestInv

LEMMA RestStep == IInv /\ [Next]_vars => RestInv'
<1> SUFFICES ASSUME IInv, [Next]_vars PROVE RestInv'
  OBVIOUS
<1>1. ASSUME NEW r \in Runs, NEW k \in Keys, Reserve(r, k) PROVE RestInv'
  <2> USE <1>1 DEF IInv, TypeOK, Accepted, Reserve
  <2>0. ~Accepted(r)
    BY DEF PhaseInv
  <2>1. PhaseInv'
    BY DEF PhaseInv
  <2>2. RowInv'
    BY <2>0 DEF RowInv
  <2>3. AcceptedHasRow'
    BY <2>0 DEF AcceptedHasRow
  <2>4. ReplayIsAnAcceptedResult'
    BY <2>0 DEF ReplayIsAnAcceptedResult
  <2>5. DuplicateWorkNeedsAFailure'
    BY <2>0 DEF DuplicateWorkNeedsAFailure
  <2> QED BY <2>1, <2>2, <2>3, <2>4, <2>5 DEF RestInv
<1>2. ASSUME NEW r \in Runs, Find(r) PROVE RestInv'
  <2>1. CASE FoundTaken(r)
    BY <1>2, <2>1, FoundTakenStep DEF Find
  <2>2. CASE \E ph \in {"inserting", "saving"} : GoOn(r, ph)
    <3>1. ~Accepted(r)
      BY <1>2 DEF Find, IInv, PhaseInv
    <3> QED
      BY <1>2, <2>2, <3>1, QuietStep DEF Find, GoOn, Quiet, Phases
  <2> QED BY <1>2, <2>1, <2>2 DEF Find
<1>3. ASSUME NEW r \in Runs, SaveExisting(r) PROVE RestInv'
  BY <1>3, AcceptStep DEF SaveExisting
<1>4. ASSUME NEW r \in Runs, InsertRow(r) PROVE RestInv'
  <2>1. CASE row[key[r]].status = "ABSENT"
    BY <1>4, <2>1, AcceptStep DEF InsertRow
  <2>2. CASE row[key[r]].status # "ABSENT"
    <3>1. ~Accepted(r)
      BY <1>4 DEF InsertRow, IInv, PhaseInv
    <3> QED
      BY <1>4, <2>2, <3>1, QuietStep DEF InsertRow, GoOn, Quiet, Phases
  <2> QED BY <2>1, <2>2
<1>5. ASSUME NEW r \in Runs, Refind(r) PROVE RestInv'
  <2>1. CASE FoundTaken(r)
    BY <1>5, <2>1, FoundTakenStep DEF Refind
  <2>2. CASE ~FoundTaken(r)
    <3> USE <1>5, <2>2 DEF IInv, TypeOK, Accepted, Refind
    <3>0. ~Accepted(r)
      BY DEF PhaseInv
    <3>1. PhaseInv'
      BY DEF PhaseInv
    <3>2. RowInv'
      BY <3>0 DEF RowInv
    <3>3. AcceptedHasRow'
      BY <3>0 DEF AcceptedHasRow
    <3>4. ReplayIsAnAcceptedResult'
      BY <3>0 DEF ReplayIsAnAcceptedResult
    <3>5. DuplicateWorkNeedsAFailure'
      BY <3>0 DEF DuplicateWorkNeedsAFailure
    <3> QED BY <3>1, <3>2, <3>3, <3>4, <3>5 DEF RestInv
  <2> QED BY <2>1, <2>2
<1>6. ASSUME NEW r \in Runs, Complete(r) PROVE RestInv'
  BY <1>6, SettleStep DEF Complete, Report
<1>7. ASSUME NEW r \in Runs, NEW st \in FailureStatuses, MarkFailure(r, st)
      PROVE  RestInv'
  BY <1>7, SettleStep DEF MarkFailure, Report
<1>8. ASSUME NEW r \in Runs, End(r) PROVE RestInv'
  BY <1>8, QuietStep DEF End, GoOn, Quiet, Phases
<1>9. ASSUME NEW r \in Runs, Crash(r) PROVE RestInv'
  BY <1>9, QuietStep DEF Crash, Quiet, Phases
<1>10. CASE UNCHANGED vars
  BY <1>10 DEF vars, IInv, RestInv, PhaseInv, RowInv, AcceptedHasRow, Accepted,
               ReplayIsAnAcceptedResult, DuplicateWorkNeedsAFailure
<1> QED
  BY <1>1, <1>2, <1>3, <1>4, <1>5, <1>6, <1>7, <1>8, <1>9, <1>10 DEF Next

\* The invariant holds in every state that the program can reach.
THEOREM Invariance == Spec => []IInv
<1>1. IInv /\ [Next]_vars => IInv'
  BY TypeStep, RestStep DEF IInv, RestInv
<1> QED BY InitIInv, <1>1, PTL DEF Spec

-----------------------------------------------------------------------------
(* The properties *)

\* The variables stay in their domains, for every number of runs and keys.
THEOREM TypeCorrect == Spec => []TypeOK
BY Invariance, PTL DEF IInv

\* A replayed response was computed by an accepted run of the same key.
THEOREM ReplayCorrect == Spec => []ReplayIsAnAcceptedResult
BY Invariance, PTL DEF IInv

\* Only a failed row lets a second run do the work of a key.
THEOREM DuplicateWork == Spec => []DuplicateWorkNeedsAFailure
BY Invariance, PTL DEF IInv

\* The runId of a row is replaced only by that of a run that was not accepted yet.
LEMMA OwnerChange ==
  ASSUME IInv, [Next]_vars, NEW k \in Keys, row'[k].runId # row[k].runId
  PROVE  \E r \in Runs : row'[k].runId = r /\ ~Accepted(r)
<1> USE DEF IInv, TypeOK
<1>1. ASSUME NEW r \in Runs, Accept(r), pc[r] \in {"saving", "inserting"}
      PROVE  row'[k].runId = r /\ ~Accepted(r)
  BY <1>1 DEF Accept, PhaseInv
<1>2. ASSUME NEW r \in Runs, Complete(r) \/ \E st \in FailureStatuses : MarkFailure(r, st)
      PROVE  FALSE
  <2>1. key[r] \in Keys
    BY <1>2 DEF Complete, MarkFailure, PhaseInv
  <2> QED BY <1>2, <2>1 DEF Complete, MarkFailure, SetRow
<1>3. ASSUME NEW r \in Runs, row' = row PROVE FALSE
  BY <1>3
<1>4. CASE UNCHANGED vars
  BY <1>4 DEF vars
<1> QED
  BY <1>1, <1>2, <1>3, <1>4
     DEF Next, Reserve, Find, FoundTaken, Replied, GoOn, SaveExisting, InsertRow,
         Refind, End, Crash

\* An accepted run keeps its outcome and its key.
LEMMA AcceptedStays ==
  ASSUME IInv, [Next]_vars, NEW r \in Runs, Accepted(r)
  PROVE  Accepted(r)' /\ key'[r] = key[r]
<1> USE DEF IInv, TypeOK, Accepted
<1>1. ASSUME NEW s \in Runs, pc[s] \notin {"working", "ended", "crashed"},
             outcome' = outcome \/ \E o \in Outcomes : outcome' = [outcome EXCEPT ![s] = o],
             key' = key \/ \E k \in Keys : key' = [key EXCEPT ![s] = k]
      PROVE  Accepted(r)' /\ key'[r] = key[r]
  <2>1. s # r
    BY <1>1 DEF PhaseInv
  <2> QED BY <1>1, <2>1
<1>2. ASSUME NEW s \in Runs, NEW k \in Keys, Reserve(s, k)
      PROVE  Accepted(r)' /\ key'[r] = key[r]
  BY <1>1, <1>2 DEF Reserve, Outcomes
<1>3. ASSUME NEW s \in Runs,
             Find(s) \/ SaveExisting(s) \/ InsertRow(s) \/ Refind(s)
      PROVE  Accepted(r)' /\ key'[r] = key[r]
  BY <1>1, <1>3 DEF Find, SaveExisting, InsertRow, Refind, FoundTaken, Replied,
                    GoOn, Accept, Outcomes
<1>4. ASSUME NEW s \in Runs, \/ Complete(s) \/ End(s) \/ Crash(s)
             \/ \E st \in FailureStatuses : MarkFailure(s, st)
      PROVE  Accepted(r)' /\ key'[r] = key[r]
  BY <1>4 DEF Complete, MarkFailure, Report, End, GoOn, Crash
<1>5. CASE UNCHANGED vars
  BY <1>5 DEF vars
<1> QED BY <1>2, <1>3, <1>4, <1>5 DEF Next

\* A run that lost its row never gets it back.
THEOREM SupersededStays == Spec => SupersededForever
<1>1. IInv /\ [Next]_vars => \A r \in Runs : Superseded(r) => Superseded(r)'
  <2> SUFFICES ASSUME IInv, [Next]_vars, NEW r \in Runs, Superseded(r)
               PROVE  Superseded(r)'
    OBVIOUS
  <2>1. Accepted(r)' /\ key'[r] = key[r]
    BY AcceptedStays DEF Superseded
  <2>2. key[r] \in Keys
    BY DEF IInv, PhaseInv, Superseded, Accepted
  <2>3. row'[key[r]].runId # r
    <3>1. CASE row'[key[r]].runId = row[key[r]].runId
      BY <3>1 DEF Superseded
    <3>2. CASE row'[key[r]].runId # row[key[r]].runId
      BY <3>2, <2>2, OwnerChange DEF Superseded
    <3> QED BY <3>1, <3>2
  <2> QED BY <2>1, <2>3 DEF Superseded
<1> QED BY <1>1, Invariance, PTL DEF Spec, SupersededForever

-----------------------------------------------------------------------------
(* Refinement of RunLedger *)

LEMMA LedgerInitRefined == Init => Ledger!LedgerInit
BY DEF Init, Ledger!LedgerInit, NoRow, Accepted, LedgerResult

\* A step that changes neither a row, nor an outcome to or from accepted_new, nor
\* a reply is invisible to the ledger.
LEMMA LedgerStutter ==
  ASSUME row' = row, reply' = reply, \A r \in Runs : Accepted(r)' <=> Accepted(r)
  PROVE  UNCHANGED Ledger!ledgerVars
BY DEF Ledger!ledgerVars, LedgerResult

LEMMA LedgerStepRefined == IInv /\ [Next]_vars => [Ledger!LedgerNext]_(Ledger!ledgerVars)
<1> SUFFICES ASSUME IInv, [Next]_vars
             PROVE  Ledger!LedgerNext \/ UNCHANGED Ledger!ledgerVars
  OBVIOUS
<1> USE DEF IInv, TypeOK
<1>1. ASSUME NEW r \in Runs, ~Accepted(r), row' = row, reply' = reply,
             \E o \in Outcomes \ {"accepted_new"} : outcome' = [outcome EXCEPT ![r] = o]
      PROVE  UNCHANGED Ledger!ledgerVars
  BY <1>1, LedgerStutter DEF Accepted
<1>2. ASSUME NEW r \in Runs, pc[r] \in {"finding", "refinding"}, FoundTaken(r)
      PROVE  Ledger!LedgerNext \/ UNCHANGED Ledger!ledgerVars
  <2>1. key[r] \in Keys /\ ~Accepted(r)
    BY <1>2 DEF PhaseInv
  <2>2. CASE row[key[r]].status = "IN_FLIGHT"
    BY <1>1, <1>2, <2>1, <2>2 DEF FoundTaken, Replied, Outcomes
  <2>3. CASE row[key[r]].status = "COMPLETED"
    <3>1. row[key[r]].body = row[key[r]].runId
      BY <2>1, <2>3 DEF RowInv
    <3>2. /\ reply' = [reply EXCEPT ![r] = row[key[r]].runId]
          /\ outcome' = [outcome EXCEPT ![r] = "existing_completed"]
          /\ row' = row
      BY <1>2, <2>3, <3>1 DEF FoundTaken, Replied
    <3>3. {s \in Runs : Accepted(s)}' = {s \in Runs : Accepted(s)}
      BY <3>2, <2>1 DEF Accepted
    <3>4. [k \in Keys |-> LedgerResult(k)][key[r]] = "stored"
      BY <2>1, <2>3 DEF LedgerResult
    <3>5. [k \in Keys |-> LedgerResult(k)]' = [k \in Keys |-> LedgerResult(k)]
      BY <3>2 DEF LedgerResult
    <3>6. Ledger!Deliver(key[r], r)
      BY <2>1, <3>2, <3>3, <3>4, <3>5 DEF Ledger!Deliver
    <3> QED BY <2>1, <3>6 DEF Ledger!LedgerNext
  <2> QED BY <1>2, <2>2, <2>3 DEF FoundTaken
<1>3. ASSUME NEW r \in Runs, pc[r] \in {"saving", "inserting"}, Accept(r)
      PROVE  Ledger!LedgerNext
  <2>1. key[r] \in Keys /\ ~Accepted(r)
    BY <1>3 DEF PhaseInv
  <2>2. [k \in Keys |-> row[k].runId]' = [[k \in Keys |-> row[k].runId] EXCEPT ![key[r]] = r]
    BY <1>3, <2>1 DEF Accept
  <2>3. [k \in Keys |-> LedgerResult(k)]'
          = [[k \in Keys |-> LedgerResult(k)] EXCEPT ![key[r]] = "open"]
    BY <1>3, <2>1 DEF Accept, LedgerResult
  <2>4. {s \in Runs : Accepted(s)}' = {s \in Runs : Accepted(s)} \cup {r}
    BY <1>3 DEF Accept, Accepted
  <2>5. Ledger!Grant(key[r], r)
    BY <1>3, <2>1, <2>2, <2>3, <2>4 DEF Ledger!Grant, Accept
  <2> QED BY <2>1, <2>5 DEF Ledger!LedgerNext
<1>4. ASSUME NEW r \in Runs, NEW st \in FailureStatuses \cup {"COMPLETED"},
             NEW b \in Runs \cup {NoRun}, row[key[r]].runId = r, key[r] \in Keys,
             SetRow(key[r], st, b), outcome' = outcome, reply' = reply
      PROVE  Ledger!LedgerNext
  <2>1. [k \in Keys |-> row[k].runId]' = [k \in Keys |-> row[k].runId]
    BY <1>4 DEF SetRow
  <2>2. \E s \in {"stored", "failed"} :
          [k \in Keys |-> LedgerResult(k)]'
            = [[k \in Keys |-> LedgerResult(k)] EXCEPT ![key[r]] = s]
    <3>1. CASE st = "COMPLETED"
      BY <1>4, <3>1 DEF SetRow, LedgerResult
    <3>2. CASE st \in FailureStatuses
      BY <1>4, <3>2 DEF SetRow, LedgerResult, FailureStatuses
    <3> QED BY <3>1, <3>2
  <2>3. {s \in Runs : Accepted(s)}' = {s \in Runs : Accepted(s)}
    BY <1>4 DEF Accepted
  <2>4. Ledger!Settle(key[r])
    BY <1>4, <2>1, <2>2, <2>3, NoRunAssumption DEF Ledger!Settle
  <2> QED BY <1>4, <2>4 DEF Ledger!LedgerNext
<1>5. ASSUME NEW r \in Runs, NEW k \in Keys, Reserve(r, k)
      PROVE  UNCHANGED Ledger!ledgerVars
  <2>1. ~Accepted(r)
    BY <1>5 DEF Reserve, PhaseInv
  <2> QED BY <1>1, <1>5, <2>1 DEF Reserve, Outcomes
<1>6. ASSUME NEW r \in Runs, Find(r)
      PROVE  Ledger!LedgerNext \/ UNCHANGED Ledger!ledgerVars
  BY <1>2, <1>6, LedgerStutter DEF Find, GoOn, Accepted
<1>7. ASSUME NEW r \in Runs, SaveExisting(r) PROVE Ledger!LedgerNext
  BY <1>3, <1>7 DEF SaveExisting
<1>8. ASSUME NEW r \in Runs, InsertRow(r)
      PROVE  Ledger!LedgerNext \/ UNCHANGED Ledger!ledgerVars
  BY <1>3, <1>8, LedgerStutter DEF InsertRow, GoOn, Accepted
<1>9. ASSUME NEW r \in Runs, Refind(r)
      PROVE  Ledger!LedgerNext \/ UNCHANGED Ledger!ledgerVars
  <2>1. ~Accepted(r)
    BY <1>9 DEF Refind, PhaseInv
  <2> QED BY <1>1, <1>2, <1>9, <2>1 DEF Refind, Outcomes
<1>10. ASSUME NEW r \in Runs, Complete(r) \/ \E st \in FailureStatuses : MarkFailure(r, st)
       PROVE  Ledger!LedgerNext \/ UNCHANGED Ledger!ledgerVars
  <2>1. key[r] \in Keys /\ outcome' = outcome /\ reply' = reply
    BY <1>10 DEF Complete, MarkFailure, Report, PhaseInv
  <2>2. CASE row' = row
    BY <2>1, <2>2, LedgerStutter DEF Accepted
  <2>3. CASE row' # row
    <3>1. row[key[r]].body \in Runs \cup {NoRun}
      BY <2>1 DEF Rows
    <3> QED BY <1>4, <1>10, <2>1, <2>3, <3>1 DEF Complete, MarkFailure
  <2> QED BY <2>2, <2>3
<1>11. ASSUME NEW r \in Runs, End(r) \/ Crash(r) PROVE UNCHANGED Ledger!ledgerVars
  BY <1>11, LedgerStutter DEF End, GoOn, Crash, Accepted
<1>12. CASE UNCHANGED vars
  BY <1>12, LedgerStutter DEF vars, Accepted
<1> QED
  BY <1>5, <1>6, <1>7, <1>8, <1>9, <1>10, <1>11, <1>12 DEF Next

\* The table with its reads and writes implements the abstract ledger.
THEOREM Refinement == Spec => ImplementsLedger
<1>1. Spec => Ledger!LedgerInit /\ [][Ledger!LedgerNext]_(Ledger!ledgerVars)
  BY LedgerInitRefined, LedgerStepRefined, Invariance, PTL DEF Spec
<1> QED BY <1>1 DEF ImplementsLedger, Ledger!LedgerSpec

-----------------------------------------------------------------------------
(* What the handlers that compose the reservations need to know of a step *)

\* The steps of run r.
StepOf(r) ==
    \/ \E k \in Keys : Reserve(r, k)
    \/ Find(r) \/ SaveExisting(r) \/ InsertRow(r) \/ Refind(r)
    \/ \E st \in FailureStatuses : MarkFailure(r, st)
    \/ Complete(r) \/ End(r)
    \/ Crash(r)

LEMMA SomeRun == Next <=> \E r \in Runs : StepOf(r)
BY DEF Next, StepOf

\* A step of one run leaves what belongs to the others.
LEMMA Frame ==
  ASSUME TypeOK, NEW r \in Runs, StepOf(r), NEW s \in Runs \ {r}
  PROVE  /\ pc'[s] = pc[s] /\ key'[s] = key[s] /\ outcome'[s] = outcome[s]
         /\ reply'[s] = reply[s] /\ updates'[s] = updates[s]
         /\ s \in reopened' <=> s \in reopened
<1> USE DEF TypeOK
<1>1. CASE \E k \in Keys : Reserve(r, k)
  BY <1>1 DEF Reserve
<1>2. CASE Find(r) \/ Refind(r)
  BY <1>2 DEF Find, Refind, FoundTaken, Replied, GoOn
<1>3. CASE SaveExisting(r) \/ InsertRow(r)
  BY <1>3 DEF SaveExisting, InsertRow, Accept, GoOn
<1>4. CASE Complete(r) \/ \E st \in FailureStatuses : MarkFailure(r, st)
  BY <1>4 DEF Complete, MarkFailure, Report
<1>5. CASE End(r) \/ Crash(r)
  BY <1>5 DEF End, GoOn, Crash
<1> QED BY <1>1, <1>2, <1>3, <1>4, <1>5 DEF StepOf

\* Rows are written and never removed.
LEMMA RowsRemain ==
  ASSUME IInv, [Next]_vars, NEW k \in Keys, row[k].status # "ABSENT"
  PROVE  row'[k].status # "ABSENT"
<1> USE DEF IInv, TypeOK
<1>1. ASSUME NEW r \in Runs, StepOf(r) PROVE row'[k].status # "ABSENT"
  <2>1. CASE (\E l \in Keys : Reserve(r, l)) \/ Find(r) \/ Refind(r) \/ End(r) \/ Crash(r)
    BY <2>1 DEF Reserve, Find, Refind, FoundTaken, Replied, GoOn, End, Crash
  <2>2. CASE SaveExisting(r) \/ InsertRow(r)
    BY <2>2 DEF SaveExisting, InsertRow, Accept, GoOn, PhaseInv
  <2>3. CASE Complete(r)
    BY <2>3 DEF Complete, SetRow
  <2>4. ASSUME NEW st \in FailureStatuses, MarkFailure(r, st)
        PROVE  row'[k].status # "ABSENT"
    BY <2>4 DEF MarkFailure, SetRow, FailureStatuses
  <2> QED BY <1>1, <2>1, <2>2, <2>3, <2>4 DEF StepOf
<1> QED BY <1>1, SomeRun DEF vars

\* reserve answers what its callers handle: a run that has its answer was told of a
\* result or of another run, one that met a unique conflict finds a row, and only an
\* accepted run has written over a failed one.
AnswerHandled(r) ==
    /\ pc[r] = "replied" => outcome[r] \in {"existing_completed", "existing_in_flight"}
    /\ pc[r] = "working" => outcome[r] \in {"accepted_new", "persistence_conflict"}
    /\ pc[r] \in {"finding", "saving", "inserting", "refinding"} => outcome[r] = "none"
    /\ pc[r] = "refinding" => row[key[r]].status # "ABSENT"
    /\ r \in reopened => Accepted(r)

AnswersAreHandled == \A r \in Runs : AnswerHandled(r)

LEMMA AnswersInit == Init => AnswersAreHandled
BY DEF Init, AnswersAreHandled, AnswerHandled

LEMMA AnswersStep == IInv /\ AnswersAreHandled /\ [Next]_vars => AnswersAreHandled'
<1> SUFFICES ASSUME IInv, AnswersAreHandled, [Next]_vars, NEW s \in Runs
             PROVE  AnswerHandled(s)'
  BY DEF AnswersAreHandled, AnswerHandled
<1>0. TypeOK
  BY DEF IInv
<1>1. \A k \in Keys : row[k].status # "ABSENT" => row'[k].status # "ABSENT"
  BY RowsRemain
<1>2. pc[s] = "refinding" => key[s] \in Keys
  BY DEF IInv, PhaseInv
<1>3. CASE UNCHANGED <<pc[s], key[s], outcome[s], s \in reopened>>
  BY <1>1, <1>2, <1>3 DEF AnswersAreHandled, AnswerHandled, Accepted
<1>4. ASSUME NEW r \in Runs \ {s}, StepOf(r)
      PROVE  UNCHANGED <<pc[s], key[s], outcome[s], s \in reopened>>
  <2>1. /\ pc'[s] = pc[s] /\ key'[s] = key[s] /\ outcome'[s] = outcome[s]
        /\ s \in reopened' <=> s \in reopened
    BY <1>0, <1>4, Frame
  <2> QED BY <2>1
<1>5. ASSUME StepOf(s)
      PROVE  AnswerHandled(s)'
  <2> USE <1>0 DEF TypeOK, AnswersAreHandled, AnswerHandled, Accepted
  <2>1. CASE (\E k \in Keys : Reserve(s, k)) \/ End(s) \/ Crash(s)
    BY <2>1 DEF Reserve, End, GoOn, Crash, IInv, PhaseInv
  <2>2. CASE Find(s) \/ Refind(s)
    BY <2>2 DEF Find, Refind, FoundTaken, Replied, GoOn, IInv, PhaseInv
  <2>3. CASE SaveExisting(s) \/ InsertRow(s)
    BY <2>3 DEF SaveExisting, InsertRow, Accept, GoOn
  <2>4. CASE Complete(s) \/ \E st \in FailureStatuses : MarkFailure(s, st)
    BY <2>4 DEF Complete, MarkFailure, Report
  <2> QED BY <1>5, <2>1, <2>2, <2>3, <2>4 DEF StepOf
<1> QED BY <1>3, <1>4, <1>5, SomeRun DEF vars

\* Whatever happens between the calls, reserve has an answer that its callers handle.
THEOREM Answered == Spec => []AnswersAreHandled
BY AnswersInit, AnswersStep, Invariance, PTL DEF Spec

\* A run learns of a stored result only from the row of its key, which names the
\* run whose result it is.
LEMMA ReplayChange ==
  ASSUME IInv, [Next]_vars, NEW s \in Runs, outcome'[s] = "existing_completed"
  PROVE  /\ key'[s] = key[s] /\ key[s] \in Keys
         /\ \/ outcome[s] = "existing_completed" /\ reply'[s] = reply[s]
            \/ row[key[s]].status = "COMPLETED" /\ reply'[s] = row[key[s]].runId
<1>0. TypeOK /\ (pc[s] # "idle" => key[s] \in Keys) /\ (pc[s] = "idle" => outcome[s] = "none")
  BY DEF IInv, PhaseInv
<1>1. CASE UNCHANGED <<key[s], outcome[s], reply[s]>>
  BY <1>0, <1>1
<1>2. ASSUME NEW r \in Runs \ {s}, StepOf(r) PROVE UNCHANGED <<key[s], outcome[s], reply[s]>>
  <2>1. key'[s] = key[s] /\ outcome'[s] = outcome[s] /\ reply'[s] = reply[s]
    BY <1>0, <1>2, Frame
  <2> QED BY <2>1
<1>3. ASSUME FoundTaken(s), pc[s] \in {"finding", "refinding"}
      PROVE  /\ key'[s] = key[s] /\ key[s] \in Keys
             /\ row[key[s]].status = "COMPLETED" /\ reply'[s] = row[key[s]].runId
  BY <1>0, <1>3 DEF FoundTaken, Replied, IInv, RowInv, TypeOK
<1>4. ASSUME StepOf(s), ~UNCHANGED <<key[s], outcome[s], reply[s]>>
      PROVE  /\ key'[s] = key[s] /\ key[s] \in Keys
             /\ row[key[s]].status = "COMPLETED" /\ reply'[s] = row[key[s]].runId
  <2> USE <1>0 DEF TypeOK
  <2>1. CASE \E k \in Keys : Reserve(s, k)
    BY <2>1 DEF Reserve
  <2>2. CASE Find(s)
    BY <1>3, <1>4, <2>2 DEF Find, GoOn
  <2>3. CASE Refind(s)
    BY <1>3, <2>3 DEF Refind
  <2>4. CASE SaveExisting(s) \/ InsertRow(s)
    BY <1>4, <2>4 DEF SaveExisting, InsertRow, Accept, GoOn
  <2>5. CASE Complete(s) \/ \E st \in FailureStatuses : MarkFailure(s, st)
    BY <1>4, <2>5 DEF Complete, MarkFailure, Report
  <2>6. CASE End(s) \/ Crash(s)
    BY <1>4, <2>6 DEF End, GoOn, Crash
  <2> QED BY <1>4, <2>1, <2>2, <2>3, <2>4, <2>5, <2>6 DEF StepOf
<1> QED BY <1>1, <1>2, <1>3, <1>4, SomeRun DEF vars

\* A run that is to write over a failed row, or has done so, found it failed.
Reopens(r) == pc[r] = "saving" \/ r \in reopened

LEMMA ReopensChange ==
  ASSUME IInv, AnswersAreHandled, [Next]_vars, NEW s \in Runs, Reopens(s)'
  PROVE  /\ key'[s] = key[s] /\ key[s] \in Keys
         /\ \/ Reopens(s)
            \/ row[key[s]].status \in FailureStatuses
<1>0. /\ TypeOK /\ (pc[s] # "idle" => key[s] \in Keys)
      /\ Reopens(s) => pc[s] # "idle"
      /\ Accepted(s) => pc[s] \in {"working", "ended", "crashed"}
  BY DEF IInv, PhaseInv, Reopens, AnswersAreHandled, AnswerHandled
<1>1. CASE UNCHANGED <<key[s], pc[s], s \in reopened>>
  BY <1>0, <1>1 DEF Reopens
<1>2. ASSUME NEW r \in Runs \ {s}, StepOf(r) PROVE UNCHANGED <<key[s], pc[s], s \in reopened>>
  <2>1. key'[s] = key[s] /\ pc'[s] = pc[s] /\ (s \in reopened' <=> s \in reopened)
    BY <1>0, <1>2, Frame
  <2> QED BY <2>1
<1>3. ASSUME StepOf(s), ~UNCHANGED <<key[s], pc[s], s \in reopened>>
      PROVE  /\ key'[s] = key[s] /\ key[s] \in Keys
             /\ Reopens(s) \/ row[key[s]].status \in FailureStatuses
  <2> USE <1>0 DEF TypeOK, Reopens
  <2>1. CASE \E k \in Keys : Reserve(s, k)
    <3>1. ~Accepted(s)
      BY <2>1 DEF Reserve, Accepted, IInv, PhaseInv
    <3> QED BY <2>1, <3>1 DEF Reserve, AnswersAreHandled, AnswerHandled
  <2>2. CASE Find(s)
    BY <2>2 DEF Find, GoOn, FoundTaken, Replied
  <2>3. CASE Refind(s)
    BY <2>3 DEF Refind, FoundTaken, Replied
  <2>4. CASE SaveExisting(s) \/ InsertRow(s)
    BY <2>4 DEF SaveExisting, InsertRow, Accept, GoOn
  <2>5. CASE Complete(s) \/ \E st \in FailureStatuses : MarkFailure(s, st)
    BY <2>5 DEF Complete, MarkFailure, Report
  <2>6. CASE End(s) \/ Crash(s)
    BY <2>6 DEF End, GoOn, Crash
  <2> QED BY <1>3, <2>1, <2>2, <2>3, <2>4, <2>5, <2>6 DEF StepOf
<1> QED BY <1>1, <1>2, <1>3, SomeRun DEF vars

\* Run r writes over the row of k, which it found failed.
WritesOver(r, k) ==
    /\ pc[r] = "saving" /\ key[r] = k
    /\ r \notin reopened /\ r \in reopened'
    /\ row'[k] = [status |-> "IN_FLIGHT", runId |-> r, body |-> NoRun]

\* A stored result changes only when its run reports again, or when a run that had
\* found the row failed writes over it.
LEMMA StoredChange ==
  ASSUME IInv, AnswersAreHandled, [Next]_vars, NEW k \in Keys,
         row[k].status = "COMPLETED", row'[k] # row[k]
  PROVE  \/ \E r \in Runs : WritesOver(r, k)
         \/ row[k].runId \in Runs /\ updates'[row[k].runId] # updates[row[k].runId]
<1>0. TypeOK /\ \A r \in Runs : pc[r] # "idle" => key[r] \in Keys
  BY DEF IInv, PhaseInv
<1> USE <1>0 DEF TypeOK
<1>1. ASSUME NEW r \in Runs, SaveExisting(r) PROVE WritesOver(r, k)
  <2>1. key[r] = k /\ r \notin reopened
    BY <1>1 DEF SaveExisting, Accept, AnswersAreHandled, AnswerHandled, Accepted, IInv, PhaseInv
  <2> QED BY <1>1, <2>1 DEF SaveExisting, Accept, WritesOver
<1>2. ASSUME NEW r \in Runs, Complete(r) \/ \E st \in FailureStatuses : MarkFailure(r, st)
      PROVE  row[k].runId = r /\ updates'[r] # updates[r]
  BY <1>2 DEF Complete, MarkFailure, SetRow, Report
<1>3. ASSUME NEW r \in Runs, StepOf(r), ~SaveExisting(r), ~Complete(r),
             ~\E st \in FailureStatuses : MarkFailure(r, st)
      PROVE  FALSE
  BY <1>3 DEF StepOf, Reserve, Find, Refind, FoundTaken, Replied, GoOn, InsertRow, Accept,
              End, Crash
<1> QED BY <1>1, <1>2, <1>3, SomeRun DEF vars
=============================================================================
