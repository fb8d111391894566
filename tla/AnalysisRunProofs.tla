--------------------------- MODULE AnalysisRunProofs ---------------------------
(***************************************************************************)
(* The theorems about AnalysisRun, for any number of runs and hashes.      *)
(*                                                                         *)
(* A run may report twice, be superseded, or write over the row of another *)
(* run.  RunInv ties a run's place in the handler to its place in the      *)
(* reservations; the invariant of the reservations then says which run a   *)
(* row of the table can be about.                                          *)
(***************************************************************************)
EXTENDS AnalysisRun, TLAPS

\* The theorems about the reservations, here with inputs hashes as keys.
IdemP == INSTANCE WorkflowIdempotencyProofs WITH
    Keys <- Hashes, NoKey <- NoHash, MaxUpdates <- 2, MaxFaults <- MaxUpsets

\* The phases of a run that waits for reserve, or has its answer.
Reserving == {"finding", "saving", "inserting", "refinding", "replied"}
Replaying == {"refreshing", "relinking"}

\* How far a run has come in the handler and in the reservations.
RunInv ==
    \A r \in Runs :
        /\ step[r] = "idle" => pc[r] = "idle"
        /\ step[r] = "reserving" => pc[r] \in Reserving
        /\ step[r] \in Working \ Replaying => pc[r] = "working"
        /\ step[r] \in Replaying => pc[r] = "replied"
        /\ step[r] = "failing" => pc[r] \in {"working", "replied"}
        /\ step[r] = "refreshing" => saved[r] # NoRun
        /\ pc[r] # "idle" => key[r] = inputs[r]
        /\ answer[r] # "none" => step[r] = "ended"

IInv == TypeOK /\ IdemP!IInv /\ RunInv /\ LedgerTellsTheTruth /\ AssessmentsAreThere

-----------------------------------------------------------------------------
(* The reservations *)

LEMMA SameReservations ==
  /\ Idem!Init <=> IdemP!Init
  /\ [Idem!Next]_(Idem!vars) <=> [IdemP!Next]_(IdemP!vars)
<1>1. Idem!Init <=> IdemP!Init
  BY DEF Idem!Init, IdemP!Init, Idem!NoRow, IdemP!NoRow
<1>2. Idem!Next <=> IdemP!Next
  BY DEF Idem!Next, Idem!Reserve, Idem!Find, Idem!SaveExisting, Idem!InsertRow, Idem!Refind,
         Idem!FoundTaken, Idem!Replied, Idem!GoOn, Idem!Accept, Idem!FailureStatuses,
         Idem!Complete, Idem!Report, Idem!SetRow, Idem!MarkFailure, Idem!End, Idem!Crash,
         IdemP!Next, IdemP!Reserve, IdemP!Find, IdemP!SaveExisting, IdemP!InsertRow,
         IdemP!Refind, IdemP!FoundTaken, IdemP!Replied, IdemP!GoOn, IdemP!Accept,
         IdemP!FailureStatuses, IdemP!Complete, IdemP!Report, IdemP!SetRow,
         IdemP!MarkFailure, IdemP!End, IdemP!Crash
<1>3. [Idem!Next]_(Idem!vars) <=> [IdemP!Next]_(IdemP!vars)
  BY <1>2 DEF Idem!vars, IdemP!vars
<1> QED BY <1>1, <1>3

LEMMA ReservationsInit == Idem!Init => IdemP!IInv
<1>1. IdemP!Init => IdemP!IInv
  BY IdemP!InitIInv, NoHashAssumption, NoRunAssumption, UpsetsAssumption
<1> QED BY <1>1, SameReservations

LEMMA ReservationsNext == IdemP!IInv /\ [Idem!Next]_(Idem!vars) => IdemP!IInv'
<1>1. IdemP!IInv /\ [IdemP!Next]_(IdemP!vars) => IdemP!TypeOK'
  BY IdemP!TypeStep, NoHashAssumption, NoRunAssumption, UpsetsAssumption DEF IdemP!IInv
<1>2. IdemP!IInv /\ [IdemP!Next]_(IdemP!vars) => IdemP!RestInv'
  BY IdemP!RestStep, NoHashAssumption, NoRunAssumption, UpsetsAssumption
<1> QED BY <1>1, <1>2, SameReservations DEF IdemP!IInv, IdemP!RestInv

\* Every step of the handler is a step, or a stutter, of WorkflowIdempotency.
LEMMA ReservationsStep ==
  ASSUME TypeOK, [Next]_vars PROVE [Idem!Next]_(Idem!vars)
<1> SUFFICES ASSUME ~UNCHANGED Idem!vars PROVE Idem!Next
  OBVIOUS
<1> USE DEF Idem!vars, idemVars
<1>1. CASE UNCHANGED vars
  BY <1>1 DEF vars
<1>2. ASSUME NEW r \in Runs, Begin(r) PROVE Idem!Next
  BY <1>2 DEF Begin, TypeOK, Idem!Next
<1>3. ASSUME NEW r \in Runs, ServerStep(r) \/ DatabaseError(r) \/ Crash(r) PROVE Idem!Next
  <2>1. ASSUME NEW st \in Idem!FailureStatuses, Idem!MarkFailure(r, st) PROVE Idem!Next
    BY <2>1 DEF Idem!Next
  <2>2. CASE ReserveStep(r)
    BY <2>2 DEF ReserveStep, Idem!Next
  <2>3. CASE Replay(r) \/ Complete(r) \/ Relink(r) \/ Crash(r)
    BY <2>3 DEF Replay, Complete, Relink, Crash, Idem!Next
  <2>4. CASE Recheck(r) \/ Resolve(r) \/ Fail(r) \/ DatabaseError(r)
    BY <2>1, <2>4 DEF Recheck, Resolve, Fail, DatabaseError, Idem!FailureStatuses
  <2> QED
    BY <1>3, <2>2, <2>3, <2>4 DEF ServerStep, TurnAway, Score, Save, Link, Refresh
<1>4. CASE (\E h \in Hashes : ChangeInputs(h)) \/ AssessOtherJob
  BY <1>4 DEF ChangeInputs, AssessOtherJob
<1> QED BY <1>1, <1>2, <1>3, <1>4 DEF Next

\* What the invariant of the reservations says, in the words of this module.
LEMMA Reserved ==
  ASSUME IdemP!IInv
  PROVE  /\ row \in [Hashes -> Idem!Rows] /\ pc \in [Runs -> Idem!Phases]
         /\ key \in [Runs -> Hashes \cup {NoHash}] /\ outcome \in [Runs -> Idem!Outcomes]
         /\ \A h \in Hashes :
               /\ row[h].status # "ABSENT" =>
                     /\ row[h].runId \in Runs
                     /\ outcome[row[h].runId] = "accepted_new"
                     /\ key[row[h].runId] = h
               /\ row[h].status = "ABSENT" => row[h].runId = NoRun
         /\ \A r \in Runs :
               /\ pc[r] # "idle" => key[r] \in Hashes
               /\ outcome[r] = "accepted_new" => pc[r] \in {"working", "ended", "crashed"}
               /\ outcome[r] = "existing_completed" => reply[r] \in Runs
  BY DEF IdemP!IInv, IdemP!TypeOK, IdemP!PhaseInv, IdemP!RowInv, IdemP!Accepted,
         IdemP!ReplayIsAnAcceptedResult, IdemP!Rows, IdemP!Phases, IdemP!Outcomes,
         IdemP!Statuses, IdemP!FailureStatuses, Idem!Statuses, Idem!FailureStatuses,
         Idem!Rows, Idem!Phases, Idem!Outcomes

\* A row that names r is that of the key that r holds.
LEMMA Holder ==
  ASSUME IInv, NEW r \in Runs, NEW h \in Hashes, row[h].runId = r
  PROVE  outcome[r] = "accepted_new" /\ key[r] = h
  BY NoRunAssumption, Reserved DEF IInv

\* A run past reserve has its inputs.
LEMMA HasInputs ==
  ASSUME IInv, NEW r \in Runs, pc[r] # "idle"
  PROVE  inputs[r] \in Hashes /\ key[r] = inputs[r]
  BY Reserved DEF IInv, RunInv

-----------------------------------------------------------------------------
(* One step of one run *)

\* What a step leaves of another run.
Stays(r) ==
    /\ step'[r] = step[r] /\ pc'[r] = pc[r] /\ key'[r] = key[r]
    /\ inputs'[r] = inputs[r] /\ answer'[r] = answer[r] /\ saved'[r] = saved[r]

\* What RunInv says of r after the step.
Moved(r) ==
    /\ step'[r] = "idle" => pc'[r] = "idle"
    /\ step'[r] = "reserving" => pc'[r] \in Reserving
    /\ step'[r] \in Working \ Replaying => pc'[r] = "working"
    /\ step'[r] \in Replaying => pc'[r] = "replied"
    /\ step'[r] = "failing" => pc'[r] \in {"working", "replied"}
    /\ step'[r] = "refreshing" => saved'[r] # NoRun
    /\ pc'[r] # "idle" => key'[r] = inputs'[r]
    /\ answer'[r] # "none" => step'[r] = "ended"

LEMMA RunInvStep ==
  ASSUME RunInv, NEW r \in Runs, Moved(r), \A s \in Runs \ {r} : Stays(s)
  PROVE  RunInv'
<1> SUFFICES ASSUME NEW s \in Runs PROVE Moved(s)
  BY DEF RunInv, Moved
<1>1. CASE s = r
  BY <1>1
<1>2. CASE s # r
  BY <1>2 DEF RunInv, Moved, Stays
<1> QED BY <1>1, <1>2

\* The part of LedgerTellsTheTruth about key h.
Told(h) ==
    LET r == row[h].runId
    IN  /\ row[h].status = "COMPLETED" => answer[r] \in {"ok", "blocked"} /\ inputs[r] = h
        /\ row[h].status \in Idem!FailureStatuses =>
              answer[r] = "error" \/ step[r] \in {"failing", "crashed"}
        /\ row[h].status = "IN_FLIGHT" => Unfinished(r)

LEMMA LedgerIsTold == LedgerTellsTheTruth <=> \A h \in Hashes : Told(h)
  BY DEF LedgerTellsTheTruth, Told

\* A run that goes on, or fails, without a report.
Goes(r) ==
    /\ Unfinished(r) /\ Unfinished(r)'
    /\ step[r] \in {"failing", "crashed"} => step'[r] \in {"failing", "crashed"}

LEMMA ToldStays ==
  ASSUME IInv, NEW h \in Hashes, row'[h] = row[h],
         row[h].status # "ABSENT" => Stays(row[h].runId) \/ Goes(row[h].runId)
  PROVE  Told(h)'
<1> DEFINE o == row[h].runId
<1>1. Told(h)
  BY LedgerIsTold DEF IInv
<1>2. CASE row[h].status = "ABSENT"
  BY <1>2 DEF Told, Idem!FailureStatuses
<1>3. CASE Stays(o)
  BY <1>1, <1>3 DEF Told, Stays, Unfinished
<1>4. CASE row[h].status # "ABSENT" /\ Goes(o)
  <2>1. o \in Runs
    BY <1>4, Reserved DEF IInv
  <2>2. answer[o] = "none"
    BY <1>4, <2>1 DEF Goes, Unfinished, Working, IInv, RunInv
  <2> QED BY <1>1, <1>4, <2>2 DEF Told, Goes
<1> QED BY <1>2, <1>3, <1>4

LEMMA LedgerAside ==
  ASSUME IInv, NEW r \in Runs, row' = row, \A s \in Runs \ {r} : Stays(s),
         outcome[r] # "accepted_new" \/ Goes(r)
  PROVE  LedgerTellsTheTruth'
<1> SUFFICES ASSUME NEW h \in Hashes PROVE Told(h)'
  BY DEF LedgerTellsTheTruth, Told
<1>1. row[h].status # "ABSENT" =>
         /\ row[h].runId \in Runs
         /\ row[h].runId = r => outcome[r] = "accepted_new"
  BY Reserved DEF IInv
<1> QED BY <1>1, ToldStays

LEMMA LedgerWrite ==
  ASSUME IInv, NEW r \in Runs, NEW k \in Hashes, \A s \in Runs \ {r} : Stays(s),
         \A h \in Hashes \ {k} : row'[h] = row[h] /\ row[h].runId # r,
         Told(k)'
  PROVE  LedgerTellsTheTruth'
<1> SUFFICES ASSUME NEW h \in Hashes \ {k} PROVE Told(h)'
  BY DEF LedgerTellsTheTruth, Told
<1>1. row[h].status # "ABSENT" => row[h].runId \in Runs \ {r}
  BY Reserved DEF IInv
<1> QED BY <1>1, ToldStays

\* The step of run r, and what it leaves of the others.
LEMMA OneRun ==
  ASSUME IInv, NEW r \in Runs, NEW next, step' = [step EXCEPT ![r] = next],
         pc' = pc \/ \E ph : pc' = [pc EXCEPT ![r] = ph],
         key' = key \/ \E k : key' = [key EXCEPT ![r] = k],
         inputs' = inputs \/ \E i : inputs' = [inputs EXCEPT ![r] = i],
         answer' = answer \/ \E a : answer' = [answer EXCEPT ![r] = a],
         saved' = saved \/ \E a : saved' = [saved EXCEPT ![r] = a]
  PROVE  step'[r] = next /\ \A s \in Runs \ {r} : Stays(s)
<1>1. step'[r] = next /\ \A s \in Runs \ {r} : step'[s] = step[s]
  <2>1. step \in [Runs -> Steps]
    BY DEF IInv, TypeOK
  <2> QED BY ONLY <2>1, step' = [step EXCEPT ![r] = next], r \in Runs
<1>2. \A s \in Runs \ {r} : pc'[s] = pc[s] /\ key'[s] = key[s]
  <2>1. pc \in [Runs -> Idem!Phases] /\ key \in [Runs -> Hashes \cup {NoHash}]
    BY Reserved DEF IInv
  <2> QED
    BY ONLY <2>1, pc' = pc \/ \E ph : pc' = [pc EXCEPT ![r] = ph],
            key' = key \/ \E k : key' = [key EXCEPT ![r] = k]
<1>3. \A s \in Runs \ {r} : inputs'[s] = inputs[s]
  BY DEF IInv, TypeOK
<1>4. \A s \in Runs \ {r} : answer'[s] = answer[s]
  BY DEF IInv, TypeOK
<1>5. \A s \in Runs \ {r} : saved'[s] = saved[s]
  BY DEF IInv, TypeOK
<1> QED BY <1>1, <1>2, <1>3, <1>4, <1>5 DEF Stays

RestInv == RunInv /\ LedgerTellsTheTruth

\* A step of r that leaves the table alone.
LEMMA AsideRest ==
  ASSUME IInv, NEW r \in Runs, row' = row, \A s \in Runs \ {r} : Stays(s), Moved(r),
         outcome[r] # "accepted_new" \/ Goes(r)
  PROVE  RestInv'
<1>1. RunInv'
  BY RunInvStep DEF IInv
<1>2. LedgerTellsTheTruth'
  BY LedgerAside
<1> QED BY <1>1, <1>2 DEF RestInv

\* Steps that concern no run.
LEMMA NoRunRest ==
  ASSUME IInv, row' = row, \A s \in Runs : Stays(s)
  PROVE  RestInv'
<1>1. RunInv'
  BY DEF IInv, RunInv, Stays
<1>2. ASSUME NEW h \in Hashes PROVE Told(h)'
  <2>1. row[h].status # "ABSENT" => Stays(row[h].runId)
    BY Reserved DEF IInv
  <2> QED BY <2>1, ToldStays
<1>3. LedgerTellsTheTruth'
  BY <1>2 DEF LedgerTellsTheTruth, Told
<1> QED BY <1>1, <1>3 DEF RestInv

-----------------------------------------------------------------------------
(* The handler's steps *)

LEMMA BeginRest == ASSUME IInv, NEW r \in Runs, Begin(r) PROVE RestInv'
<1>0. /\ step[r] = "idle" /\ row' = row
      /\ pc' = [pc EXCEPT ![r] = "finding"] /\ key' = [key EXCEPT ![r] = current]
      /\ step' = [step EXCEPT ![r] = "reserving"]
      /\ inputs' = [inputs EXCEPT ![r] = current]
      /\ answer' = answer /\ saved' = saved
  BY DEF Begin, Idem!Reserve
<1>1. step'[r] = "reserving" /\ \A s \in Runs \ {r} : Stays(s)
  BY <1>0, OneRun
<1>2. pc[r] = "idle" /\ answer[r] = "none" /\ outcome[r] # "accepted_new"
  BY <1>0, Reserved DEF IInv, RunInv
<1>3. pc'[r] = "finding" /\ key'[r] = inputs'[r]
  BY <1>0, Reserved DEF IInv, TypeOK
<1>4. Moved(r)
  BY <1>0, <1>1, <1>2, <1>3 DEF Moved, Working, Replaying, Reserving
<1> QED BY <1>0, <1>1, <1>2, <1>4, AsideRest

\* A run is accepted: its key's row is in flight and the run sets to work.
LEMMA AcceptRest ==
  ASSUME IInv, NEW r \in Runs, step[r] = "reserving", Idem!Accept(r),
         step' = [step EXCEPT ![r] = "scoring"], UNCHANGED <<inputs, answer, saved>>
  PROVE  RestInv'
<1>0. /\ pc[r] \in Reserving /\ answer[r] = "none"
      /\ outcome[r] # "accepted_new" /\ key[r] \in Hashes /\ key[r] = inputs[r]
  BY Reserved DEF IInv, RunInv, Reserving
<1>1. /\ pc' = [pc EXCEPT ![r] = "working"] /\ key' = key
      /\ row' = [row EXCEPT ![key[r]] =
                    [status |-> "IN_FLIGHT", runId |-> r, body |-> NoRun]]
  BY DEF Idem!Accept
<1>2. step'[r] = "scoring" /\ \A s \in Runs \ {r} : Stays(s)
  BY <1>1, OneRun
<1>3. pc'[r] = "working"
  BY <1>1, Reserved DEF IInv
<1>4. Moved(r)
  BY <1>0, <1>1, <1>2, <1>3 DEF Moved, Working, Replaying
<1>5. PICK k \in Hashes : k = key[r]
  BY <1>0
<1>6. row'[k].status = "IN_FLIGHT" /\ row'[k].runId = r
  BY <1>1, <1>5, Reserved DEF IInv
<1>7. \A h \in Hashes \ {k} : row'[h] = row[h] /\ row[h].runId # r
  BY <1>0, <1>1, <1>5, Holder, Reserved DEF IInv
<1>8. Told(k)'
  BY <1>2, <1>6 DEF Told, Unfinished, Working, Idem!FailureStatuses
<1>9. LedgerTellsTheTruth'
  BY <1>2, <1>7, <1>8, LedgerWrite
<1> QED BY <1>2, <1>4, <1>9, RunInvStep DEF RestInv, IInv

LEMMA ReserveRest == ASSUME IInv, NEW r \in Runs, ReserveStep(r) PROVE RestInv'
<1>0. /\ step[r] = "reserving" /\ pc[r] \in Reserving /\ answer[r] = "none"
      /\ key[r] = inputs[r] /\ outcome[r] # "accepted_new"
      /\ UNCHANGED <<inputs, answer, saved>>
      /\ step' = [step EXCEPT ![r] = IF pc'[r] = "working" THEN "scoring" ELSE "reserving"]
  BY Reserved DEF ReserveStep, Goto, IInv, RunInv, Reserving
<1>1. CASE Idem!Accept(r)
  <2>1. pc'[r] = "working"
    BY <1>1, Reserved DEF Idem!Accept, IInv
  <2> QED BY <1>0, <1>1, <2>1, AcceptRest
<1>2. ASSUME NEW ph \in Reserving \cup {"working"}, pc' = [pc EXCEPT ![r] = ph],
             row' = row, key' = key
      PROVE  RestInv'
  <2> DEFINE next == IF ph = "working" THEN "scoring" ELSE "reserving"
  <2>1. pc'[r] = ph
    BY <1>2, Reserved DEF IInv
  <2>2. step' = [step EXCEPT ![r] = next]
    BY <1>0, <2>1
  <2> HIDE DEF next
  <2>3. step'[r] = next /\ \A s \in Runs \ {r} : Stays(s)
    BY <1>0, <1>2, <2>2, OneRun
  <2>4. key'[r] = inputs'[r] /\ answer'[r] = "none"
    BY <1>0, <1>2
  <2>5. Moved(r)
    BY <1>2, <2>1, <2>3, <2>4 DEF Moved, Working, Replaying, Reserving, next
  <2> QED BY <1>0, <1>2, <2>3, <2>5, AsideRest
<1>3. CASE Idem!Find(r)
  BY <1>2, <1>3 DEF Idem!Find, Idem!FoundTaken, Idem!Replied, Idem!GoOn, Reserving
<1>4. CASE Idem!Refind(r)
  BY <1>2, <1>4 DEF Idem!Refind, Idem!FoundTaken, Idem!Replied, Reserving
<1>5. CASE Idem!InsertRow(r)
  BY <1>1, <1>2, <1>5 DEF Idem!InsertRow, Idem!GoOn, Reserving
<1> QED BY <1>1, <1>3, <1>4, <1>5 DEF ReserveStep, Idem!SaveExisting

\* A run that is turned away goes to the catch block; a replayed one is refreshed, or
\* answered at once.
LEMMA DecidedRest ==
  ASSUME IInv, NEW r \in Runs, Replay(r) \/ TurnAway(r)
  PROVE  RestInv'
<1>0. /\ step[r] = "reserving" /\ pc[r] = "replied" /\ answer[r] = "none"
      /\ key[r] = inputs[r] /\ outcome[r] # "accepted_new"
  BY Reserved DEF Replay, TurnAway, Decided, IInv, RunInv
<1>1. CASE TurnAway(r)
  <2>1. /\ step' = [step EXCEPT ![r] = "failing"]
        /\ UNCHANGED <<row, pc, key, inputs, answer, saved>>
    BY <1>1 DEF TurnAway, Goto, idemVars
  <2>2. step'[r] = "failing" /\ \A s \in Runs \ {r} : Stays(s)
    BY <2>1, OneRun
  <2>3. Moved(r)
    BY <1>0, <2>1, <2>2 DEF Moved, Working, Replaying
  <2> QED BY <1>0, <2>1, <2>2, <2>3, AsideRest
<1>2. CASE Replay(r) /\ saved[reply[r]] # NoRun
  <2>1. /\ step' = [step EXCEPT ![r] = "refreshing"]
        /\ saved' = [saved EXCEPT ![r] = saved[reply[r]]]
        /\ UNCHANGED <<row, pc, key, inputs, answer>>
    BY <1>2 DEF Replay, Goto, idemVars
  <2>2. step'[r] = "refreshing" /\ \A s \in Runs \ {r} : Stays(s)
    BY <2>1, OneRun
  <2>3. saved'[r] # NoRun
    BY <1>2, <2>1 DEF IInv, TypeOK
  <2>4. Moved(r)
    BY <1>0, <2>1, <2>2, <2>3 DEF Moved, Working, Replaying
  <2> QED BY <1>0, <2>1, <2>2, <2>4, AsideRest
<1>3. CASE Replay(r) /\ saved[reply[r]] = NoRun
  <2>1. /\ step' = [step EXCEPT ![r] = "ended"] /\ pc' = [pc EXCEPT ![r] = "ended"]
        /\ answer' = [answer EXCEPT ![r] = "blocked"]
        /\ UNCHANGED <<row, key, inputs, saved>>
    BY <1>3 DEF Replay, Answer, Idem!End, Idem!GoOn
  <2>2. step'[r] = "ended" /\ \A s \in Runs \ {r} : Stays(s)
    BY <2>1, OneRun
  <2>3. Moved(r)
    BY <1>0, <2>1, <2>2 DEF Moved, Working, Replaying
  <2> QED BY <1>0, <2>1, <2>2, <2>3, AsideRest
<1> QED BY <1>1, <1>2, <1>3

\* A run that works goes on, and leaves the reservations alone.
LEMMA WorkRest ==
  ASSUME IInv, NEW r \in Runs, step[r] \in Working \ Replaying, UNCHANGED idemVars,
         NEW next \in (Working \ Replaying) \cup {"failing"},
         step' = [step EXCEPT ![r] = next], UNCHANGED <<inputs, answer>>,
         saved' = saved \/ \E a : saved' = [saved EXCEPT ![r] = a]
  PROVE  RestInv'
<1>0. /\ pc[r] = "working" /\ key[r] = inputs[r] /\ answer[r] = "none"
      /\ UNCHANGED <<row, pc, key>>
  BY DEF IInv, RunInv, Working, Replaying, idemVars
<1>1. step'[r] = next /\ \A s \in Runs \ {r} : Stays(s)
  BY <1>0, OneRun
<1>2. Moved(r)
  BY <1>0, <1>1 DEF Moved, Working, Replaying
<1>3. Goes(r)
  BY <1>1 DEF Goes, Unfinished, Working
<1> QED BY <1>0, <1>1, <1>2, <1>3, AsideRest

LEMMA WorkingRest ==
  ASSUME IInv, NEW r \in Runs, Score(r) \/ Save(r) \/ Link(r)
  PROVE  RestInv'
<1>1. CASE Score(r)
  <2>1. step[r] \in Working \ Replaying /\ UNCHANGED idemVars
    BY <1>1 DEF Score, Working, Replaying
  <2>2. PICK next \in {"rechecking", "completing"} : step' = [step EXCEPT ![r] = next]
    BY <1>1 DEF Score, Goto
  <2>3. next \in (Working \ Replaying) \cup {"failing"}
    BY DEF Working, Replaying
  <2> QED BY <1>1, <2>1, <2>2, <2>3, WorkRest DEF Score, Goto
<1>2. CASE Save(r)
  <2>1. step[r] \in Working \ Replaying /\ UNCHANGED idemVars
    BY <1>2 DEF Save, Working, Replaying
  <2>2. PICK next \in {"resolving", "linking"} : step' = [step EXCEPT ![r] = next]
    BY <1>2 DEF Save, Goto
  <2>3. next \in (Working \ Replaying) \cup {"failing"}
    BY DEF Working, Replaying
  <2>4. UNCHANGED <<inputs, answer>>
    BY <1>2 DEF Save, Goto
  <2>5. saved' = saved \/ \E a : saved' = [saved EXCEPT ![r] = a]
    BY <1>2 DEF Save
  <2> QED BY <2>1, <2>2, <2>3, <2>4, <2>5, WorkRest
<1>3. CASE Link(r)
  <2>1. step[r] \in Working \ Replaying /\ "completing" \in (Working \ Replaying) \cup {"failing"}
    BY <1>3 DEF Link, Working, Replaying
  <2> QED BY <1>3, <2>1, WorkRest DEF Link, Goto
<1> QED BY <1>1, <1>2, <1>3

\* A replayed run holds no row.
LEMMA ReplayedRest ==
  ASSUME IInv, NEW r \in Runs, Refresh(r) \/ Relink(r)
  PROVE  RestInv'
<1>0. /\ step[r] \in Replaying /\ pc[r] = "replied" /\ answer[r] = "none"
      /\ key[r] = inputs[r] /\ outcome[r] # "accepted_new"
  BY Reserved DEF Refresh, Relink, Replaying, Working, IInv, RunInv
<1>1. CASE Refresh(r)
  <2>1. PICK next \in {"failing", "relinking"} : step' = [step EXCEPT ![r] = next]
    BY <1>1 DEF Refresh, Goto
  <2>2. UNCHANGED <<row, pc, key, inputs, answer, saved>>
    BY <1>1 DEF Refresh, Goto, idemVars
  <2>3. step'[r] = next /\ \A s \in Runs \ {r} : Stays(s)
    BY <2>1, <2>2, OneRun
  <2>4. Moved(r)
    BY <1>0, <2>2, <2>3 DEF Moved, Working, Replaying
  <2> QED BY <1>0, <2>2, <2>3, <2>4, AsideRest
<1>2. CASE Relink(r)
  <2>1. /\ step' = [step EXCEPT ![r] = "ended"] /\ pc' = [pc EXCEPT ![r] = "ended"]
        /\ answer' = [answer EXCEPT ![r] = "ok"]
        /\ UNCHANGED <<row, key, inputs, saved>>
    BY <1>2 DEF Relink, Answer, Idem!End, Idem!GoOn
  <2>2. step'[r] = "ended" /\ \A s \in Runs \ {r} : Stays(s)
    BY <2>1, OneRun
  <2>3. Moved(r)
    BY <1>0, <2>1, <2>2 DEF Moved, Working, Replaying
  <2> QED BY <1>0, <2>1, <2>2, <2>3, AsideRest
<1> QED BY <1>1, <1>2

\* A run that reports: its row, if it still holds it, tells how it ended, or that it
\* is about to fail.
LEMMA ReportRest ==
  ASSUME IInv, NEW r \in Runs, pc[r] \in {"working", "replied"}, answer[r] = "none",
         NEW st \in Idem!Statuses,
         IF row[key[r]].runId = r THEN \E b : Idem!SetRow(key[r], st, b) ELSE UNCHANGED row,
         UNCHANGED <<pc, key, inputs, saved>>,
         NEW next \in {"failing", "ended"}, step' = [step EXCEPT ![r] = next],
         NEW ans \in Answers, answer' = [answer EXCEPT ![r] = ans],
         \/ st = "COMPLETED" /\ ans \in {"ok", "blocked"} /\ next = "ended"
         \/ st \in Idem!FailureStatuses /\ ans = "error" /\ next = "ended"
         \/ st \in Idem!FailureStatuses /\ ans = "none" /\ next = "failing"
  PROVE  RestInv'
<1>1. step'[r] = next /\ \A s \in Runs \ {r} : Stays(s)
  BY OneRun
<1>2. key[r] \in Hashes /\ key[r] = inputs[r]
  BY HasInputs DEF IInv, RunInv
<1>3. answer'[r] = ans
  BY DEF IInv, TypeOK
<1>4. Moved(r)
  BY <1>1, <1>2, <1>3 DEF Moved, Working, Replaying
<1>5. PICK k \in Hashes : k = key[r]
  BY <1>2
<1>6. \A h \in Hashes \ {k} : row'[h] = row[h] /\ row[h].runId # r
  BY <1>5, Holder, Reserved DEF Idem!SetRow, IInv
<1>7. Told(k)'
  <2>1. CASE row[k].runId = r
    <3>1. row'[k].status = st /\ row'[k].runId = r
      BY <1>5, <2>1, Reserved DEF Idem!SetRow, IInv
    <3>2. inputs'[r] = k
      BY <1>2, <1>5
    <3> QED BY <1>1, <1>3, <3>1, <3>2 DEF Told, Idem!FailureStatuses
  <2>2. CASE row[k].runId # r
    <3>1. row'[k] = row[k]
      BY <1>5, <2>2
    <3>2. row[k].status # "ABSENT" => Stays(row[k].runId)
      BY <1>1, <2>2, Reserved DEF IInv
    <3> QED BY <3>1, <3>2, ToldStays
  <2> QED BY <2>1, <2>2
<1>8. LedgerTellsTheTruth'
  BY <1>1, <1>6, <1>7, LedgerWrite
<1> QED BY <1>1, <1>4, <1>8, RunInvStep DEF RestInv, IInv

\* A report of failure that the handler goes on from, into its catch block.
LEMMA MarkedRest ==
  ASSUME IInv, NEW r \in Runs, step[r] \in Working, NEW st \in Idem!FailureStatuses,
         Idem!MarkFailure(r, st), step' = [step EXCEPT ![r] = "failing"],
         UNCHANGED <<inputs, answer, saved>>
  PROVE  RestInv'
<1>1. pc[r] \in {"working", "replied"} /\ answer[r] = "none"
  BY DEF IInv, RunInv, Working, Idem!MarkFailure
<1>2. answer' = [answer EXCEPT ![r] = "none"]
  BY <1>1 DEF IInv, TypeOK
<1>3. /\ UNCHANGED <<pc, key>>
      /\ IF row[key[r]].runId = r THEN \E b : Idem!SetRow(key[r], st, b) ELSE UNCHANGED row
  BY DEF Idem!MarkFailure, Idem!Report
<1>4. /\ "failing" \in {"failing", "ended"} /\ "none" \in Answers
      /\ st \in Idem!Statuses
  BY DEF Answers, Idem!Statuses
<1> QED BY <1>1, <1>2, <1>3, <1>4, ReportRest

LEMMA EndedRest ==
  ASSUME IInv, NEW r \in Runs, Complete(r) \/ Fail(r)
  PROVE  RestInv'
<1>1. pc[r] \in {"working", "replied"} /\ answer[r] = "none"
  BY DEF Complete, Fail, IInv, RunInv, Working, Replaying
<1>2. PICK next \in {"failing", "ended"} : next = "ended"
  OBVIOUS
<1>3. PICK ans \in {"ok", "blocked", "error"}, st \in {"COMPLETED", "FAILED"} :
         /\ st = "COMPLETED" <=> ans # "error"
         /\ answer' = [answer EXCEPT ![r] = ans]
         /\ IF row[key[r]].runId = r THEN \E b : Idem!SetRow(key[r], st, b)
                                 ELSE UNCHANGED row
  <2>1. CASE Complete(r)
    BY <2>1 DEF Complete, Answer, Idem!Complete
  <2>2. CASE Fail(r)
    BY <2>2 DEF Fail, Answer, Idem!MarkFailure
  <2> QED BY <2>1, <2>2
<1>4. UNCHANGED <<pc, key, inputs, saved>> /\ step' = [step EXCEPT ![r] = next]
  BY <1>2 DEF Complete, Fail, Answer, Idem!Complete, Idem!MarkFailure, Idem!Report
<1>5. \/ st = "COMPLETED" /\ ans \in {"ok", "blocked"} /\ next = "ended"
      \/ st \in Idem!FailureStatuses /\ ans = "error" /\ next = "ended"
      \/ st \in Idem!FailureStatuses /\ ans = "none" /\ next = "failing"
  BY <1>2, <1>3 DEF Idem!FailureStatuses
<1>6. answer' = [answer EXCEPT ![r] = ans]
  BY <1>3
<1>7. IF row[key[r]].runId = r THEN \E d : Idem!SetRow(key[r], st, d) ELSE UNCHANGED row
  BY <1>3
<1>8. ans \in Answers /\ st \in Idem!Statuses
  BY DEF Answers, Idem!Statuses, Idem!FailureStatuses
<1> QED BY <1>8, <1>1, <1>4, <1>5, <1>6, <1>7, ReportRest

LEMMA RecheckRest == ASSUME IInv, NEW r \in Runs, Recheck(r) PROVE RestInv'
<1>1. step[r] \in Working \ Replaying /\ UNCHANGED <<inputs, answer, saved>>
  BY DEF Recheck, Goto, Working, Replaying
<1>2. CASE current = inputs[r]
  <2>1. UNCHANGED idemVars /\ step' = [step EXCEPT ![r] = "saving"]
    BY <1>2 DEF Recheck, Goto
  <2>2. "saving" \in (Working \ Replaying) \cup {"failing"}
    BY DEF Working, Replaying
  <2> QED BY <1>1, <2>1, <2>2, WorkRest
<1>3. CASE current # inputs[r]
  <2>1. Idem!MarkFailure(r, "STALE") /\ step' = [step EXCEPT ![r] = "failing"]
    BY <1>3 DEF Recheck, Goto
  <2>2. "STALE" \in Idem!FailureStatuses
    BY DEF Idem!FailureStatuses
  <2> QED BY <1>1, <2>1, <2>2, MarkedRest
<1> QED BY <1>2, <1>3

LEMMA ResolveRest == ASSUME IInv, NEW r \in Runs, Resolve(r) PROVE RestInv'
<1>1. step[r] \in Working \ Replaying /\ UNCHANGED <<inputs, answer>>
  BY DEF Resolve, Goto, Working, Replaying
<1>2. ASSUME NEW a \in Runs, saved' = [saved EXCEPT ![r] = a], Goto(r, "linking"),
             UNCHANGED idemVars
      PROVE  RestInv'
  <2>1. "linking" \in (Working \ Replaying) \cup {"failing"}
    BY DEF Working, Replaying
  <2>2. step' = [step EXCEPT ![r] = "linking"]
    BY <1>2 DEF Goto
  <2>3. saved' = saved \/ \E b : saved' = [saved EXCEPT ![r] = b]
    BY <1>2
  <2> QED BY <1>1, <1>2, <2>1, <2>2, <2>3, WorkRest
<1>3. ASSUME Goto(r, "failing"), Idem!MarkFailure(r, "PERSISTENCE_CONFLICT"), saved' = saved
      PROVE  RestInv'
  <2>1. "PERSISTENCE_CONFLICT" \in Idem!FailureStatuses
    BY DEF Idem!FailureStatuses
  <2>2. step' = [step EXCEPT ![r] = "failing"] /\ step[r] \in Working
    BY <1>1, <1>3 DEF Goto
  <2> QED BY <1>1, <1>3, <2>1, <2>2, MarkedRest
<1> QED BY <1>2, <1>3 DEF Resolve

LEMMA DatabaseErrorRest == ASSUME IInv, NEW r \in Runs, DatabaseError(r) PROVE RestInv'
<1>1. /\ step[r] \in Working /\ UNCHANGED <<inputs, answer, saved>>
      /\ step' = [step EXCEPT ![r] = "failing"]
  BY DEF DatabaseError, Upset
<1>2. CASE step[r] = "linking"
  <2>1. Idem!MarkFailure(r, "PERSISTENCE_CONFLICT")
    BY <1>2 DEF DatabaseError
  <2>2. "PERSISTENCE_CONFLICT" \in Idem!FailureStatuses
    BY DEF Idem!FailureStatuses
  <2> QED BY <1>1, <2>1, <2>2, MarkedRest
<1>3. CASE step[r] # "linking"
  <2>1. UNCHANGED <<row, pc, key>>
    BY <1>3 DEF DatabaseError, idemVars
  <2>2. /\ pc[r] \in {"working", "replied"} /\ answer[r] = "none" /\ key[r] = inputs[r]
    BY <1>1 DEF IInv, RunInv, Working, Replaying
  <2>3. step'[r] = "failing" /\ \A s \in Runs \ {r} : Stays(s)
    BY <1>1, <2>1, OneRun
  <2>4. Moved(r)
    BY <1>1, <2>1, <2>2, <2>3 DEF Moved, Working, Replaying
  <2>5. Goes(r)
    BY <1>1, <2>3 DEF Goes, Unfinished, Working
  <2> QED BY <2>1, <2>3, <2>4, <2>5, AsideRest
<1> QED BY <1>2, <1>3

LEMMA CrashRest == ASSUME IInv, NEW r \in Runs, Crash(r) PROVE RestInv'
<1>0. /\ step[r] \in Working \cup {"reserving", "failing"}
      /\ step' = [step EXCEPT ![r] = "crashed"] /\ pc' = [pc EXCEPT ![r] = "crashed"]
      /\ UNCHANGED <<row, key, inputs, answer, saved>>
  BY DEF Crash, Upset, Idem!Crash
<1>1. /\ answer[r] = "none" /\ pc[r] # "idle" /\ key[r] = inputs[r]
  BY <1>0 DEF IInv, RunInv, Working, Replaying, Reserving
<1>2. step'[r] = "crashed" /\ \A s \in Runs \ {r} : Stays(s)
  BY <1>0, OneRun
<1>3. Moved(r)
  BY <1>0, <1>1, <1>2 DEF Moved, Working, Replaying
<1>4. outcome[r] # "accepted_new" \/ Goes(r)
  <2>1. step[r] = "reserving" => outcome[r] # "accepted_new"
    BY Reserved DEF IInv, RunInv, Reserving
  <2> QED BY <1>0, <1>2, <2>1 DEF Goes, Unfinished
<1> QED BY <1>0, <1>2, <1>3, <1>4, AsideRest

-----------------------------------------------------------------------------
(* The assessments *)

DataInv == TypeOK /\ AssessmentsAreThere

\* Rows are written, never deleted, and answered or linked only when they are there.
LEMMA RowsStay ==
  ASSUME DataInv,
         \/ assessments' = assessments
         \/ \E a \in Runs, h \in Hashes :
               ~Conflicts(a, h) /\ assessments' = [assessments EXCEPT ![a] = h],
         \/ saved' = saved
         \/ \E r \in Runs, a \in Runs :
               assessments[a] # NoHash /\ saved' = [saved EXCEPT ![r] = a]
         \/ \E r \in Runs, a \in Runs :
               assessments'[a] # NoHash /\ saved' = [saved EXCEPT ![r] = a],
         \/ link'.assessment \in {link.assessment, NoRun}
         \/ link'.assessment \in Runs /\ assessments[link'.assessment] # NoHash
  PROVE  /\ AssessmentsAreThere'
         /\ assessments' \in [Runs -> Hashes \cup {NoHash}]
         /\ saved' \in [Runs -> Runs \cup {NoRun}]
<1>1. /\ assessments' \in [Runs -> Hashes \cup {NoHash}]
      /\ saved' \in [Runs -> Runs \cup {NoRun}]
  BY DEF DataInv, TypeOK
<1>2. \A a \in Runs : assessments[a] # NoHash => assessments'[a] # NoHash
  BY NoHashAssumption DEF DataInv, TypeOK
<1>3. \A a, b \in Runs : a # b /\ assessments'[a] = assessments'[b] => assessments'[a] = NoHash
  <2>1. ASSUME NEW a \in Runs, NEW h \in Hashes, ~Conflicts(a, h),
               assessments' = [assessments EXCEPT ![a] = h],
               NEW c \in Runs, NEW d \in Runs, c # d, assessments'[c] = assessments'[d]
        PROVE  assessments'[c] = NoHash
    BY <2>1 DEF Conflicts, DataInv, TypeOK, AssessmentsAreThere
  <2> QED BY <2>1 DEF DataInv, AssessmentsAreThere
<1>4. \A r \in Runs : saved'[r] # NoRun => assessments'[saved'[r]] # NoHash
  <2> SUFFICES ASSUME NEW r \in Runs, saved'[r] # NoRun
               PROVE  assessments'[saved'[r]] # NoHash
    OBVIOUS
  <2>1. CASE saved'[r] = saved[r]
    BY <1>1, <1>2, <2>1 DEF DataInv, TypeOK, AssessmentsAreThere
  <2>2. CASE saved'[r] # saved[r]
    BY <1>2, <2>2 DEF DataInv, TypeOK
  <2> QED BY <2>1, <2>2
<1>5. link'.assessment # NoRun => assessments'[link'.assessment] # NoHash
  BY <1>2 DEF DataInv, TypeOK, AssessmentsAreThere
<1> QED BY <1>1, <1>3, <1>4, <1>5 DEF AssessmentsAreThere

\* A step of run r that keeps the rows as above and the other variables in their domains.
LEMMA DataStep ==
  ASSUME DataInv, NEW r \in Runs, NEW next \in Steps, step' = [step EXCEPT ![r] = next],
         AssessmentsAreThere', assessments' \in [Runs -> Hashes \cup {NoHash}],
         saved' \in [Runs -> Runs \cup {NoRun}], current' = current,
         link' \in [assessment : Runs \cup {NoRun}, score : Hashes \cup {NoHash}],
         inputs' \in [Runs -> Hashes \cup {NoHash}], seen' \in [Runs -> Runs \cup {NoRun}],
         answer' \in [Runs -> Answers], upsets' \in Nat
  PROVE  DataInv'
<1>1. step' \in [Runs -> Steps]
  BY DEF DataInv, TypeOK
<1> QED BY <1>1 DEF DataInv, TypeOK

LEMMA GotoData ==
  ASSUME DataInv, NEW r \in Runs, NEW next \in Steps, Goto(r, next),
         AssessmentsAreThere', assessments' \in [Runs -> Hashes \cup {NoHash}],
         saved' \in [Runs -> Runs \cup {NoRun}],
         link' \in [assessment : Runs \cup {NoRun}, score : Hashes \cup {NoHash}]
  PROVE  DataInv'
<1>1. /\ step' = [step EXCEPT ![r] = next]
      /\ UNCHANGED <<current, inputs, seen, answer, upsets>>
  BY DEF Goto
<1>2. /\ inputs' \in [Runs -> Hashes \cup {NoHash}] /\ seen' \in [Runs -> Runs \cup {NoRun}]
      /\ answer' \in [Runs -> Answers] /\ upsets' \in Nat
  BY <1>1 DEF DataInv, TypeOK
<1> QED BY <1>1, <1>2, DataStep

LEMMA AnswerData ==
  ASSUME DataInv, NEW r \in Runs, NEW ans \in Answers, Answer(r, ans),
         UNCHANGED <<assessments, saved>>,
         link' \in [assessment : Runs \cup {NoRun}, score : Hashes \cup {NoHash}],
         \/ link'.assessment \in {link.assessment, NoRun}
         \/ link'.assessment \in Runs /\ assessments[link'.assessment] # NoHash
  PROVE  DataInv'
<1>1. /\ step' = [step EXCEPT ![r] = "ended"] /\ answer' = [answer EXCEPT ![r] = ans]
      /\ UNCHANGED <<current, inputs, seen, upsets>>
  BY DEF Answer
<1>2. /\ inputs' \in [Runs -> Hashes \cup {NoHash}] /\ seen' \in [Runs -> Runs \cup {NoRun}]
      /\ answer' \in [Runs -> Answers] /\ upsets' \in Nat
  BY <1>1 DEF DataInv, TypeOK
<1>3. /\ AssessmentsAreThere' /\ assessments' \in [Runs -> Hashes \cup {NoHash}]
      /\ saved' \in [Runs -> Runs \cup {NoRun}]
  BY RowsStay
<1>4. "ended" \in Steps
  BY DEF Steps
<1> QED BY <1>1, <1>2, <1>3, <1>4, DataStep

\* A run that goes on and leaves rows and links alone.
LEMMA GoesOnData ==
  ASSUME DataInv, NEW r \in Runs, NEW next \in Steps, Goto(r, next),
         UNCHANGED <<assessments, link>>,
         \/ saved' = saved
         \/ \E a \in Runs : assessments[a] # NoHash /\ saved' = [saved EXCEPT ![r] = a]
  PROVE  DataInv'
<1>1. /\ AssessmentsAreThere' /\ assessments' \in [Runs -> Hashes \cup {NoHash}]
      /\ saved' \in [Runs -> Runs \cup {NoRun}]
  BY RowsStay
<1>2. link' \in [assessment : Runs \cup {NoRun}, score : Hashes \cup {NoHash}]
  BY DEF DataInv, TypeOK
<1> QED BY <1>1, <1>2, GotoData

LEMMA LinkTyped ==
  ASSUME DataInv
  PROVE  link \in [assessment : Runs \cup {NoRun}, score : Hashes \cup {NoHash}]
  BY DEF DataInv, TypeOK

LEMMA BeginData == ASSUME DataInv, NEW r \in Runs, Begin(r) PROVE DataInv'
<1>1. /\ step' = [step EXCEPT ![r] = "reserving"]
      /\ inputs' = [inputs EXCEPT ![r] = current]
      /\ seen' = [seen EXCEPT ![r] = link.assessment]
      /\ UNCHANGED <<current, assessments, link, saved, answer, upsets>>
  BY DEF Begin
<1>2. /\ inputs' \in [Runs -> Hashes \cup {NoHash}] /\ seen' \in [Runs -> Runs \cup {NoRun}]
      /\ answer' \in [Runs -> Answers] /\ upsets' \in Nat
  BY <1>1 DEF DataInv, TypeOK
<1>3. /\ AssessmentsAreThere' /\ assessments' \in [Runs -> Hashes \cup {NoHash}]
      /\ saved' \in [Runs -> Runs \cup {NoRun}]
  BY <1>1, RowsStay
<1>4. "reserving" \in Steps /\ link' = link
  BY <1>1 DEF Steps
<1> QED BY <1>1, <1>2, <1>3, <1>4, LinkTyped, DataStep

LEMMA ReplayData == ASSUME IInv, DataInv, NEW r \in Runs, Replay(r) PROVE DataInv'
<1>1. CASE saved[reply[r]] = NoRun
  <2>1. "blocked" \in Answers /\ Answer(r, "blocked") /\ UNCHANGED <<assessments, saved, link>>
    BY <1>1 DEF Replay, Answers
  <2> QED BY <2>1, LinkTyped, AnswerData
<1>2. CASE saved[reply[r]] # NoRun
  <2>1. reply[r] \in Runs
    BY Reserved DEF Replay, Decided, IInv
  <2>2. PICK a \in Runs : a = saved[reply[r]] /\ assessments[a] # NoHash
    BY <1>2, <2>1 DEF DataInv, TypeOK, AssessmentsAreThere
  <2>3. /\ saved' = [saved EXCEPT ![r] = a] /\ Goto(r, "refreshing")
        /\ UNCHANGED <<assessments, link>>
    BY <1>2, <2>2 DEF Replay
  <2>4. "refreshing" \in Steps
    BY DEF Steps, Working
  <2> QED BY <2>2, <2>3, <2>4, GoesOnData
<1> QED BY <1>1, <1>2

\* The steps that write no row.
LEMMA QuietData ==
  ASSUME DataInv, NEW r \in Runs,
         ReserveStep(r) \/ TurnAway(r) \/ Score(r) \/ Recheck(r)
  PROVE  DataInv'
<1>1. UNCHANGED <<assessments, link, saved>>
  BY DEF ReserveStep, TurnAway, Score, Recheck
<1>2. PICK next \in {"scoring", "reserving", "failing", "rechecking", "completing", "saving"} :
         Goto(r, next)
  BY DEF ReserveStep, TurnAway, Score, Recheck
<1>3. next \in Steps
  BY DEF Steps, Working
<1> QED BY <1>1, <1>2, <1>3, GoesOnData

\* The row of the inputs h is written as row a: the index has no other of them.
LEMMA WriteData ==
  ASSUME DataInv, NEW r \in Runs, NEW a \in Runs, NEW h \in Hashes, ~Conflicts(a, h),
         assessments' = [assessments EXCEPT ![a] = h],
         saved' \in {saved, [saved EXCEPT ![r] = a]}, link' = link,
         NEW next \in Steps, Goto(r, next)
  PROVE  DataInv'
<1>1. assessments'[a] # NoHash
  BY NoHashAssumption DEF DataInv, TypeOK
<1>2. /\ AssessmentsAreThere' /\ assessments' \in [Runs -> Hashes \cup {NoHash}]
      /\ saved' \in [Runs -> Runs \cup {NoRun}]
  BY <1>1, RowsStay
<1> QED BY <1>2, LinkTyped, GotoData

LEMMA SaveData == ASSUME IInv, DataInv, NEW r \in Runs, Save(r) PROVE DataInv'
<1>1. PICK h \in Hashes : h = inputs[r]
  BY HasInputs DEF Save, IInv, RunInv, Working, Replaying
<1>2. PICK a \in Runs : a = IF seen[r] = NoRun THEN r ELSE seen[r]
  BY DEF DataInv, TypeOK
<1>3. "resolving" \in Steps /\ "linking" \in Steps /\ link' = link
  BY DEF Save, Steps, Working
<1>4. CASE Conflicts(a, h)
  <2>1. Goto(r, "resolving") /\ UNCHANGED <<assessments, link, saved>>
    BY <1>1, <1>2, <1>4 DEF Save
  <2> QED BY <1>3, <2>1, GoesOnData
<1>5. CASE ~Conflicts(a, h)
  <2>1. /\ Goto(r, "linking") /\ saved' = [saved EXCEPT ![r] = a]
        /\ assessments' = [assessments EXCEPT ![a] = h]
    BY <1>1, <1>2, <1>5 DEF Save
  <2> QED BY <1>3, <1>5, <2>1, WriteData
<1> QED BY <1>4, <1>5

LEMMA ResolveData == ASSUME IInv, DataInv, NEW r \in Runs, Resolve(r) PROVE DataInv'
<1>1. inputs[r] # NoHash
  BY NoHashAssumption, HasInputs DEF Resolve, IInv, RunInv, Working, Replaying
<1>2. /\ \/ saved' = saved
         \/ \E a \in Runs : assessments[a] # NoHash /\ saved' = [saved EXCEPT ![r] = a]
      /\ UNCHANGED <<assessments, link>>
  BY <1>1 DEF Resolve
<1>3. PICK next \in {"linking", "failing"} : Goto(r, next)
  BY DEF Resolve
<1>4. next \in Steps
  BY DEF Steps, Working
<1> QED BY <1>2, <1>3, <1>4, GoesOnData

LEMMA RefreshData == ASSUME IInv, DataInv, NEW r \in Runs, Refresh(r) PROVE DataInv'
<1>1. PICK h \in Hashes : h = inputs[r]
  BY HasInputs DEF Refresh, IInv, RunInv, Replaying
<1>2. PICK a \in Runs : a = saved[r]
  BY DEF Refresh, IInv, RunInv, DataInv, TypeOK
<1>3. "failing" \in Steps /\ "relinking" \in Steps /\ link' = link /\ saved' = saved
  BY DEF Refresh, Steps, Working
<1>4. CASE Conflicts(a, h)
  <2>1. Goto(r, "failing") /\ UNCHANGED assessments
    BY <1>1, <1>2, <1>4 DEF Refresh
  <2> QED BY <1>3, <2>1, GoesOnData
<1>5. CASE ~Conflicts(a, h)
  <2>1. Goto(r, "relinking") /\ assessments' = [assessments EXCEPT ![a] = h]
    BY <1>1, <1>2, <1>5 DEF Refresh
  <2> QED BY <1>3, <1>5, <2>1, WriteData
<1> QED BY <1>4, <1>5

\* The baseline's link goes to the assessment the run answers with.
LEMMA LinksData ==
  ASSUME DataInv, NEW r \in Runs, link' = [assessment |-> saved[r], score |-> inputs[r]]
  PROVE  /\ link' \in [assessment : Runs \cup {NoRun}, score : Hashes \cup {NoHash}]
         /\ \/ link'.assessment \in {link.assessment, NoRun}
            \/ link'.assessment \in Runs /\ assessments[link'.assessment] # NoHash
<1>1. /\ saved[r] \in Runs \cup {NoRun} /\ inputs[r] \in Hashes \cup {NoHash}
      /\ saved[r] # NoRun => assessments[saved[r]] # NoHash
  BY DEF DataInv, TypeOK, AssessmentsAreThere
<1>2. link'.assessment = saved[r]
  OBVIOUS
<1> QED BY <1>1, <1>2

LEMMA LinkData == ASSUME DataInv, NEW r \in Runs, Link(r) PROVE DataInv'
<1>1. /\ link' = [assessment |-> saved[r], score |-> inputs[r]] /\ Goto(r, "completing")
      /\ UNCHANGED <<assessments, saved>>
  BY DEF Link
<1>2. /\ AssessmentsAreThere' /\ assessments' \in [Runs -> Hashes \cup {NoHash}]
      /\ saved' \in [Runs -> Runs \cup {NoRun}]
  BY <1>1, LinksData, RowsStay
<1>3. "completing" \in Steps
  BY DEF Steps, Working
<1> QED BY <1>1, <1>2, <1>3, LinksData, GotoData

LEMMA EndedData ==
  ASSUME DataInv, NEW r \in Runs, Complete(r) \/ Relink(r) \/ Fail(r)
  PROVE  DataInv'
<1>1. PICK ans \in Answers : Answer(r, ans)
  BY DEF Complete, Relink, Fail, Answers
<1>2. UNCHANGED <<assessments, saved>>
  BY DEF Complete, Relink, Fail
<1>3. link' = link \/ link' = [assessment |-> saved[r], score |-> inputs[r]]
  BY DEF Complete, Relink, Fail
<1>4. CASE link' = link
  BY <1>1, <1>2, <1>4, LinkTyped, AnswerData
<1>5. CASE link' = [assessment |-> saved[r], score |-> inputs[r]]
  BY <1>1, <1>2, <1>5, LinksData, AnswerData
<1> QED BY <1>3, <1>4, <1>5

LEMMA UpsetData ==
  ASSUME DataInv, NEW r \in Runs, DatabaseError(r) \/ Crash(r)
  PROVE  DataInv'
<1>1. /\ upsets' = upsets + 1
      /\ UNCHANGED <<current, assessments, link, inputs, seen, saved, answer>>
  BY DEF DatabaseError, Crash, Upset
<1>2. PICK next \in {"failing", "crashed"} : step' = [step EXCEPT ![r] = next]
  BY DEF DatabaseError, Crash
<1>3. /\ AssessmentsAreThere' /\ assessments' \in [Runs -> Hashes \cup {NoHash}]
      /\ saved' \in [Runs -> Runs \cup {NoRun}]
  BY <1>1, RowsStay
<1>4. next \in Steps
  BY DEF Steps
<1>5. /\ inputs' \in [Runs -> Hashes \cup {NoHash}] /\ seen' \in [Runs -> Runs \cup {NoRun}]
      /\ answer' \in [Runs -> Answers] /\ upsets' \in Nat
  BY <1>1 DEF DataInv, TypeOK
<1> QED BY <1>1, <1>2, <1>3, <1>4, <1>5, LinkTyped, DataStep

LEMMA UserData ==
  ASSUME DataInv, (\E h \in Hashes : ChangeInputs(h)) \/ AssessOtherJob \/ UNCHANGED vars
  PROVE  DataInv'
<1>1. UNCHANGED <<assessments, saved, step, inputs, seen, answer, upsets>> /\ current' \in Hashes
  BY DEF ChangeInputs, AssessOtherJob, vars, runVars, DataInv, TypeOK
<1>2. link' = link \/ link' = NoLink
  BY DEF ChangeInputs, AssessOtherJob, vars, runVars
<1>3. link' \in [assessment : Runs \cup {NoRun}, score : Hashes \cup {NoHash}]
  BY <1>2, LinkTyped DEF NoLink
<1>4. link'.assessment \in {link.assessment, NoRun}
  BY <1>2 DEF NoLink
<1>5. AssessmentsAreThere'
  BY <1>1, <1>4, RowsStay
<1> QED BY <1>1, <1>3, <1>5 DEF DataInv, TypeOK

-----------------------------------------------------------------------------
(* The invariant holds *)

LEMMA RunStep ==
  ASSUME IInv, NEW r \in Runs, Begin(r) \/ ServerStep(r) \/ DatabaseError(r) \/ Crash(r)
  PROVE  DataInv' /\ RestInv'
<1>0. DataInv
  BY DEF IInv, DataInv
<1>1. DataInv'
  BY <1>0, BeginData, ReplayData, QuietData, SaveData, ResolveData, LinkData, RefreshData,
     EndedData, UpsetData DEF ServerStep
<1>2. RestInv'
  BY BeginRest, ReserveRest, DecidedRest, WorkingRest, RecheckRest, ResolveRest,
     ReplayedRest, EndedRest, DatabaseErrorRest, CrashRest DEF ServerStep
<1> QED BY <1>1, <1>2

LEMMA InvNext == IInv /\ [Next]_vars => IInv'
<1> SUFFICES ASSUME IInv, [Next]_vars PROVE IInv'
  OBVIOUS
<1>1. IdemP!IInv'
  BY ReservationsStep, ReservationsNext DEF IInv
<1>2. ASSUME (\E h \in Hashes : ChangeInputs(h)) \/ AssessOtherJob \/ UNCHANGED vars
      PROVE  DataInv' /\ RestInv'
  <2>1. DataInv'
    BY <1>2, UserData DEF IInv, DataInv
  <2>2. row' = row /\ \A s \in Runs : Stays(s)
    BY <1>2 DEF ChangeInputs, AssessOtherJob, vars, idemVars, runVars, Stays
  <2> QED BY <2>1, <2>2, NoRunRest
<1>3. DataInv' /\ RestInv'
  BY <1>2, RunStep DEF Next
<1> QED BY <1>1, <1>3 DEF IInv, RestInv, DataInv

LEMMA InvFirst == Init => IInv
<1> SUFFICES ASSUME Init PROVE IInv
  OBVIOUS
<1>1. TypeOK
  BY UpsetsAssumption DEF Init, TypeOK, NoLink, Steps, Answers
<1>2. IdemP!IInv
  BY ReservationsInit DEF Init
<1>3. RunInv
  <2>1. \A r \in Runs : step[r] = "idle" /\ pc[r] = "idle" /\ answer[r] = "none"
    BY DEF Init, Idem!Init
  <2> QED BY <2>1 DEF RunInv, Working, Replaying
<1>4. LedgerTellsTheTruth
  BY DEF Init, Idem!Init, Idem!NoRow, LedgerTellsTheTruth, Idem!FailureStatuses
<1>5. AssessmentsAreThere
  BY DEF Init, NoLink, AssessmentsAreThere
<1> QED BY <1>1, <1>2, <1>3, <1>4, <1>5 DEF IInv

\* The invariant holds in every state that the program can reach.
THEOREM Invariance == Spec => []IInv
  BY InvFirst, InvNext, PTL DEF Spec

\* The variables of the assessment runs stay in their domains.
THEOREM TypeCorrect == Spec => []TypeOK
<1>1. IInv => TypeOK
  BY DEF IInv
<1> QED BY <1>1, Invariance, PTL

\* Whoever reports twice, fails or is turned away: what the table of reservations says
\* of a key is true of the run that holds it.
THEOREM LedgerTruth == Spec => []LedgerTellsTheTruth
<1>1. IInv => LedgerTellsTheTruth
  BY DEF IInv
<1> QED BY <1>1, Invariance, PTL

\* In whatever order rows are inserted, written over, refreshed and linked, answers and
\* the baseline name assessments that are there, no two of them of the same inputs.
THEOREM AssessmentsStay == Spec => []AssessmentsAreThere
<1>1. IInv => AssessmentsAreThere
  BY DEF IInv
<1> QED BY <1>1, Invariance, PTL

\* The handler uses the reservations as WorkflowIdempotency specifies them.
THEOREM Composition == Spec => UsesReservationsAsSpecified
<1>1. Init => Idem!Init
  BY DEF Init
<1>2. IInv /\ [Next]_vars => [Idem!Next]_(Idem!vars)
  BY ReservationsStep DEF IInv
<1> QED BY <1>1, <1>2, Invariance, PTL DEF Spec, UsesReservationsAsSpecified, Idem!Spec

-----------------------------------------------------------------------------
(* A run goes through its handler once, and nobody waits *)

HandlerStep(r) == Begin(r) \/ ServerStep(r) \/ DatabaseError(r) \/ Crash(r)

IdemStep(r) ==
    \/ \E h \in Hashes : Idem!Reserve(r, h)
    \/ Idem!Find(r) \/ Idem!SaveExisting(r) \/ Idem!InsertRow(r) \/ Idem!Refind(r)
    \/ \E st \in Idem!FailureStatuses : Idem!MarkFailure(r, st)
    \/ Idem!Complete(r) \/ Idem!End(r)
    \/ Idem!Crash(r)

LEMMA SameStep == ASSUME NEW r \in Runs PROVE IdemStep(r) <=> IdemP!StepOf(r)
  BY DEF IdemStep, Idem!Reserve, Idem!Find, Idem!SaveExisting, Idem!InsertRow, Idem!Refind,
         Idem!FoundTaken, Idem!Replied, Idem!GoOn, Idem!Accept, Idem!FailureStatuses,
         Idem!Complete, Idem!Report, Idem!SetRow, Idem!MarkFailure, Idem!End, Idem!Crash,
         IdemP!StepOf, IdemP!Reserve, IdemP!Find, IdemP!SaveExisting, IdemP!InsertRow,
         IdemP!Refind, IdemP!FoundTaken, IdemP!Replied, IdemP!GoOn, IdemP!Accept,
         IdemP!FailureStatuses, IdemP!Complete, IdemP!Report, IdemP!SetRow,
         IdemP!MarkFailure, IdemP!End, IdemP!Crash

LEMMA OneReservation ==
  ASSUME TypeOK, NEW r \in Runs, HandlerStep(r)
  PROVE  IdemStep(r) \/ UNCHANGED idemVars
<1>1. CASE Begin(r)
  BY <1>1 DEF Begin, TypeOK, IdemStep
<1>2. CASE ReserveStep(r) \/ Replay(r) \/ Complete(r) \/ Relink(r) \/ Crash(r)
  BY <1>2 DEF ReserveStep, Replay, Complete, Relink, Crash, IdemStep
<1>3. CASE Recheck(r) \/ Resolve(r) \/ Fail(r) \/ DatabaseError(r)
  BY <1>3 DEF Recheck, Resolve, Fail, DatabaseError, Idem!FailureStatuses, IdemStep
<1>4. CASE TurnAway(r) \/ Score(r) \/ Save(r) \/ Link(r) \/ Refresh(r)
  BY <1>4 DEF TurnAway, Score, Save, Link, Refresh
<1> QED BY <1>1, <1>2, <1>3, <1>4 DEF HandlerStep, ServerStep

\* Nothing of run r changes.
Untouched(r) ==
    /\ UNCHANGED <<step[r], inputs[r], seen[r], saved[r], answer[r]>>
    /\ UNCHANGED <<pc[r], key[r], outcome[r], reply[r], updates[r]>>

LEMMA OthersUntouched ==
  ASSUME IInv, NEW r \in Runs, HandlerStep(r), NEW s \in Runs \ {r}
  PROVE  Untouched(s)
<1>1. UNCHANGED <<pc[s], key[s], outcome[s], reply[s], updates[s]>>
  <2>1. CASE IdemStep(r)
    <3>1. IdemP!TypeOK /\ IdemP!StepOf(r)
      BY <2>1, SameStep DEF IInv, IdemP!IInv
    <3>2. /\ pc'[s] = pc[s] /\ key'[s] = key[s] /\ outcome'[s] = outcome[s]
          /\ reply'[s] = reply[s] /\ updates'[s] = updates[s]
      BY <3>1, IdemP!Frame, NoHashAssumption, NoRunAssumption, UpsetsAssumption
    <3> QED BY <3>2
  <2>2. CASE UNCHANGED idemVars
    BY <2>2 DEF idemVars
  <2> QED BY <2>1, <2>2, OneReservation DEF IInv
<1>2. UNCHANGED <<step[s], inputs[s], seen[s], saved[s], answer[s]>>
  <2> USE DEF IInv, TypeOK
  <2>1. CASE Begin(r)
    BY <2>1 DEF Begin
  <2>2. CASE ReserveStep(r) \/ TurnAway(r) \/ Score(r) \/ Recheck(r)
    BY <2>2 DEF ReserveStep, TurnAway, Score, Recheck, Goto
  <2>3. CASE Replay(r) \/ Relink(r) \/ Complete(r) \/ Fail(r)
    BY <2>3 DEF Replay, Relink, Complete, Fail, Goto, Answer
  <2>4. CASE Save(r) \/ Resolve(r) \/ Link(r) \/ Refresh(r)
    BY <2>4 DEF Save, Resolve, Link, Refresh, Goto
  <2>5. CASE DatabaseError(r) \/ Crash(r)
    BY <2>5 DEF DatabaseError, Crash, Upset
  <2> QED BY <2>1, <2>2, <2>3, <2>4, <2>5 DEF HandlerStep, ServerStep
<1> QED BY <1>1, <1>2 DEF Untouched

\* Every step is a step of one run, or of none.
LEMMA AllSteps ==
  ASSUME IInv, [Next]_vars, NEW s \in Runs
  PROVE  HandlerStep(s) \/ Untouched(s)
<1>1. CASE \E r \in Runs : HandlerStep(r)
  BY <1>1, OthersUntouched
<1>2. CASE (\E h \in Hashes : ChangeInputs(h)) \/ AssessOtherJob \/ UNCHANGED vars
  BY <1>2 DEF ChangeInputs, AssessOtherJob, vars, idemVars, runVars, Untouched
<1> QED BY <1>1, <1>2 DEF Next, HandlerStep

\* How many steps a run is from its end at most.
StepRank(s) ==
    CASE s = "idle" -> 14
      [] s = "scoring" -> 9
      [] s = "rechecking" -> 8
      [] s = "saving" -> 7
      [] s = "resolving" -> 6
      [] s \in {"linking", "refreshing"} -> 5
      [] s \in {"completing", "relinking"} -> 4
      [] s = "failing" -> 2
      [] OTHER -> 0
ReserveRank(p) ==
    CASE p = "finding" -> 13
      [] p \in {"saving", "inserting"} -> 12
      [] p = "refinding" -> 11
      [] OTHER -> 10
Rank(r) == IF step[r] = "reserving" THEN ReserveRank(pc[r]) ELSE StepRank(step[r])

\* A step of the server that run r may take: the guards of ServerStep.
Ready(r) ==
    \/ step[r] = "reserving" /\ pc[r] \in {"finding", "saving", "inserting"}
    \/ step[r] = "reserving" /\ pc[r] = "refinding" /\ row[key[r]].status # "ABSENT"
    \/ /\ step[r] = "reserving" /\ pc[r] = "replied"
       /\ outcome[r] \in {"existing_completed", "existing_in_flight"}
    \/ /\ step[r] \in Working \cup {"failing"}
       /\ pc[r] \in {"working", "replied"} /\ updates[r] < 2

\* A step of a run takes it nearer to its end, and a step of another leaves it alone.
ForwardOnly == [][\A r \in Runs : Rank(r)' < Rank(r) \/ Untouched(r)]_vars

\* A run that was called and has not ended can go on, whatever the others do: the row it
\* meets has an answer for it, and it has never made all the reports it may make.
NobodyWaits == \A r \in Runs : step[r] \in Working \cup {"reserving", "failing"} => Ready(r)

\* What the progress of r rests on: it reports once at most before its catch block, and
\* an answer names an assessment exactly when it is ok.
Own(r) ==
    /\ step[r] \in {"idle", "reserving"} => saved[r] = NoRun
    /\ step[r] \in Working \cup {"idle", "reserving"} => updates[r] = 0
    /\ step[r] = "failing" => updates[r] \in {0, 1}
    /\ step[r] \in Replaying => outcome[r] = "existing_completed" /\ saved[r] # NoRun
    /\ answer[r] = "ok" => saved[r] # NoRun
    /\ answer[r] = "blocked" => saved[r] = NoRun

\* What a stored result says of the run that computed it.
Repeats(r) ==
    outcome[r] = "existing_completed" =>
        /\ answer[reply[r]] \in {"ok", "blocked"}
        /\ step[r] \in Replaying \/ answer[r] \in {"ok", "blocked"} =>
              saved[r] = saved[reply[r]]

\* The run that had the key of r before, and failed.
FailedBefore(f, r) ==
    /\ outcome[f] = "accepted_new" /\ key[f] = key[r]
    /\ answer[f] = "error" \/ step[f] \in {"failing", "crashed"}

PathInv ==
    /\ \A r \in Runs : Own(r) /\ Repeats(r)
    /\ \A r \in Runs : IdemP!Reopens(r) => \E f \in Runs : FailedBefore(f, r)

AInv == IInv /\ IdemP!AnswersAreHandled /\ PathInv

\* What the reservations say of a run in the words of this module.
LEMMA PhasesOf ==
  ASSUME AInv, NEW r \in Runs
  PROVE  /\ pc[r] \in Idem!Phases /\ updates \in [Runs -> Nat]
         /\ reply \in [Runs -> Runs \cup {NoRun}]
         /\ outcome[r] = "existing_completed" =>
               reply[r] \in Runs \ {r} /\ key[reply[r]] = key[r] /\ pc[reply[r]] # "idle"
         /\ pc[r] \in {"idle", "finding", "saving", "inserting", "refinding"} =>
               outcome[r] = "none"
         /\ pc[r] = "working" => outcome[r] \in {"accepted_new", "persistence_conflict"}
         /\ pc[r] = "replied" => outcome[r] \in {"existing_completed", "existing_in_flight"}
         /\ pc[r] = "refinding" => row[key[r]].status # "ABSENT"
  BY DEF AInv, IInv, IdemP!IInv, IdemP!TypeOK, IdemP!PhaseInv, IdemP!Phases, Idem!Phases,
         IdemP!ReplayIsAnAcceptedResult, IdemP!Accepted, IdemP!AnswersAreHandled,
         IdemP!AnswerHandled

LEMMA Typed ==
  ASSUME AInv
  PROVE  /\ step \in [Runs -> Steps] /\ saved \in [Runs -> Runs \cup {NoRun}]
         /\ answer \in [Runs -> Answers] /\ inputs \in [Runs -> Hashes \cup {NoHash}]
         /\ pc \in [Runs -> Idem!Phases] /\ key \in [Runs -> Hashes \cup {NoHash}]
         /\ outcome \in [Runs -> Idem!Outcomes] /\ updates \in [Runs -> Nat]
         /\ reply \in [Runs -> Runs \cup {NoRun}]
  BY Reserved DEF AInv, IInv, TypeOK, IdemP!IInv, IdemP!TypeOK

\* Where a run that moves stands, and what it has done.
LEMMA OwnStep ==
  ASSUME AInv, NEW r \in Runs, HandlerStep(r)
  PROVE  Own(r)' /\ Rank(r)' < Rank(r)
<1>0. Own(r) /\ RunInv
  BY DEF AInv, IInv, PathInv
<1> USE <1>0, Typed DEF Own
<1>1. CASE Begin(r)
  <2>1. /\ step[r] = "idle" /\ step'[r] = "reserving" /\ pc'[r] = "finding"
        /\ updates'[r] = 0 /\ answer' = answer /\ saved' = saved
    BY <1>1 DEF Begin, Idem!Reserve
  <2> QED BY <2>1 DEF Working, Replaying, Rank, StepRank, ReserveRank
<1>2. CASE ReserveStep(r)
  <2>1. /\ step[r] = "reserving" /\ answer' = answer /\ saved' = saved /\ answer[r] = "none"
        /\ step'[r] = IF pc'[r] = "working" THEN "scoring" ELSE "reserving"
    BY <1>2 DEF ReserveStep, Goto, RunInv
  <2>2. /\ updates' = updates /\ ReserveRank(pc[r]) > 9
        /\ pc'[r] = "working" \/ ReserveRank(pc'[r]) < ReserveRank(pc[r])
    <3>1. CASE Idem!Find(r)
      BY <3>1 DEF Idem!Find, Idem!FoundTaken, Idem!Replied, Idem!GoOn, ReserveRank
    <3>2. CASE Idem!SaveExisting(r)
      BY <3>2 DEF Idem!SaveExisting, Idem!Accept, ReserveRank
    <3>3. CASE Idem!InsertRow(r)
      BY <3>3 DEF Idem!InsertRow, Idem!Accept, Idem!GoOn, ReserveRank
    <3>4. CASE Idem!Refind(r)
      BY <3>4 DEF Idem!Refind, Idem!FoundTaken, Idem!Replied, ReserveRank
    <3> QED BY <1>2, <3>1, <3>2, <3>3, <3>4 DEF ReserveStep
  <2> QED BY <2>1, <2>2 DEF Working, Replaying, Rank, StepRank
<1>3. CASE Replay(r)
  <2>1. /\ step[r] = "reserving" /\ pc[r] = "replied" /\ outcome[r] = "existing_completed"
        /\ answer[r] = "none" /\ outcome' = outcome /\ updates' = updates
    BY <1>3 DEF Replay, Decided, Idem!End, Idem!GoOn, idemVars, RunInv
  <2>2. \/ step'[r] = "ended" /\ answer'[r] = "blocked" /\ saved' = saved
        \/ step'[r] = "refreshing" /\ saved'[r] # NoRun /\ answer' = answer
    BY <1>3 DEF Replay, Goto, Answer
  <2> QED BY <2>1, <2>2 DEF Working, Replaying, Rank, StepRank, ReserveRank
<1>4. CASE TurnAway(r)
  <2>1. /\ step[r] = "reserving" /\ pc[r] = "replied" /\ step'[r] = "failing"
        /\ answer' = answer /\ saved' = saved /\ updates' = updates
    BY <1>4 DEF TurnAway, Decided, Goto, idemVars
  <2> QED BY <2>1 DEF Working, Replaying, Rank, StepRank, ReserveRank, RunInv
<1>5. CASE Score(r) \/ Save(r) \/ Link(r)
  <2>1. /\ \/ step[r] = "scoring" /\ step'[r] \in {"rechecking", "completing"}
           \/ step[r] = "saving" /\ step'[r] \in {"resolving", "linking"}
           \/ step[r] = "linking" /\ step'[r] = "completing"
        /\ answer' = answer /\ updates' = updates /\ answer[r] = "none"
    BY <1>5 DEF Score, Save, Link, Goto, idemVars, RunInv
  <2> QED BY <2>1 DEF Working, Replaying, Rank, StepRank
<1>6. CASE Recheck(r) \/ Resolve(r) \/ DatabaseError(r)
  <2>1. /\ \/ step[r] = "rechecking" /\ step'[r] \in {"saving", "failing"}
           \/ step[r] = "resolving" /\ step'[r] \in {"linking", "failing"}
           \/ step[r] \in Working /\ step'[r] = "failing"
        /\ answer' = answer /\ answer[r] = "none"
    BY <1>6 DEF Recheck, Resolve, DatabaseError, Upset, Goto, RunInv, Working
  <2>2. \/ updates' = updates
        \/ step'[r] = "failing" /\ updates'[r] = updates[r] + 1
    <3>1. ASSUME NEW st, Idem!MarkFailure(r, st) PROVE updates'[r] = updates[r] + 1
      BY <3>1 DEF Idem!MarkFailure, Idem!Report
    <3>2. ASSUME UNCHANGED idemVars PROVE updates' = updates
      BY <3>2 DEF idemVars
    <3>3. CASE Recheck(r)
      BY <3>1, <3>2, <3>3 DEF Recheck, Goto
    <3>4. CASE Resolve(r)
      BY <3>1, <3>2, <3>4 DEF Resolve, Goto
    <3>5. CASE DatabaseError(r)
      BY <3>1, <3>2, <3>5 DEF DatabaseError
    <3> QED BY <1>6, <3>3, <3>4, <3>5
  <2> QED BY <2>1, <2>2 DEF Working, Replaying, Rank, StepRank
<1>7. CASE Complete(r) \/ Fail(r)
  <2>1. /\ step[r] \in {"completing", "failing"} /\ step'[r] = "ended" /\ saved' = saved
        /\ \/ answer'[r] = "error"
           \/ answer'[r] = IF saved[r] = NoRun THEN "blocked" ELSE "ok"
    BY <1>7 DEF Complete, Fail, Answer
  <2> QED BY <2>1 DEF Working, Replaying, Rank, StepRank
<1>8. CASE Refresh(r) \/ Relink(r)
  <2>1. /\ \/ step[r] = "refreshing" /\ step'[r] \in {"failing", "relinking"} /\ answer' = answer
           \/ step[r] = "relinking" /\ step'[r] = "ended" /\ answer'[r] = "ok"
        /\ answer[r] = "none" /\ saved' = saved /\ updates' = updates /\ outcome' = outcome
    BY <1>8 DEF Refresh, Relink, Goto, Answer, idemVars, RunInv, Idem!End, Idem!GoOn
  <2> QED BY <2>1 DEF Working, Replaying, Rank, StepRank
<1>9. CASE Crash(r)
  <2>1. /\ step[r] \in Working \cup {"reserving", "failing"} /\ step'[r] = "crashed"
        /\ saved' = saved /\ answer' = answer /\ answer[r] = "none"
    BY <1>9 DEF Crash, Upset, RunInv, Working
  <2> QED BY <2>1 DEF Working, Replaying, Rank, StepRank, ReserveRank
<1> QED
  BY <1>1, <1>2, <1>3, <1>4, <1>5, <1>6, <1>7, <1>8, <1>9 DEF HandlerStep, ServerStep

\* A run that has answered does nothing more.
LEMMA AnsweredRests ==
  ASSUME AInv, [Next]_vars, NEW r \in Runs, answer[r] # "none"
  PROVE  Untouched(r)
<1>1. step[r] = "ended"
  BY DEF AInv, IInv, RunInv
<1>2. ~HandlerStep(r)
  BY <1>1 DEF HandlerStep, Begin, ServerStep, ReserveStep, Replay, TurnAway, Decided, Score,
              Recheck, Save, Resolve, Link, Complete, Refresh, Relink, Fail, DatabaseError,
              Crash, Working
<1> QED BY <1>2, AllSteps DEF AInv

\* The steps of the reservations, as WorkflowIdempotencyProofs has them.
LEMMA Reservations ==
  ASSUME AInv, [Next]_vars
  PROVE  IdemP!IInv /\ IdemP!AnswersAreHandled /\ [IdemP!Next]_(IdemP!vars)
  BY ReservationsStep, SameReservations DEF AInv, IInv

LEMMA RepeatsStep ==
  ASSUME AInv, [Next]_vars, NEW s \in Runs
  PROVE  Repeats(s)'
<1> SUFFICES ASSUME outcome'[s] = "existing_completed"
             PROVE  /\ answer'[reply'[s]] \in {"ok", "blocked"}
                    /\ step'[s] \in Replaying \/ answer'[s] \in {"ok", "blocked"} =>
                          saved'[s] = saved'[reply'[s]]
  BY DEF Repeats
<1>1. /\ key[s] \in Hashes
      /\ \/ outcome[s] = "existing_completed" /\ reply'[s] = reply[s]
         \/ row[key[s]].status = "COMPLETED" /\ reply'[s] = row[key[s]].runId
  BY Reservations, IdemP!ReplayChange, NoHashAssumption, NoRunAssumption, UpsetsAssumption
<1>2. PICK f \in Runs : f = reply'[s] /\ answer[f] \in {"ok", "blocked"}
  <2>1. CASE outcome[s] = "existing_completed" /\ reply'[s] = reply[s]
    BY <2>1, PhasesOf DEF AInv, PathInv, Repeats
  <2>2. CASE row[key[s]].status = "COMPLETED" /\ reply'[s] = row[key[s]].runId
    <3>1. row[key[s]].runId \in Runs
      BY <1>1, <2>2, Reserved DEF AInv, IInv
    <3> QED BY <1>1, <2>2, <3>1 DEF AInv, IInv, LedgerTellsTheTruth
  <2> QED BY <1>1, <2>1, <2>2
<1>3. answer'[f] = answer[f] /\ saved'[f] = saved[f]
  BY <1>2, AnsweredRests DEF Untouched
<1>4. ASSUME step'[s] \in Replaying \/ answer'[s] \in {"ok", "blocked"}
      PROVE  saved'[s] = saved[f]
  <2>1. CASE Untouched(s)
    BY <1>2, <1>4, <2>1 DEF Untouched, AInv, PathInv, Repeats
  <2>2. CASE HandlerStep(s)
    <3> USE <1>2, <1>4, Typed
    <3>0. /\ answer[s] = "none" \/ step[s] = "ended"
          /\ step[s] \in Working \ Replaying => pc[s] = "working"
          /\ step[s] = "refreshing" \/ step[s] = "relinking" => saved[s] = saved[reply[s]]
          /\ step[s] = "reserving" => saved[s] = NoRun
      BY PhasesOf DEF AInv, IInv, RunInv, PathInv, Own, Repeats, Replaying
    <3>1. CASE Begin(s) \/ ReserveStep(s) \/ TurnAway(s) \/ Score(s) \/ Recheck(s) \/ Save(s)
               \/ Resolve(s) \/ Link(s) \/ Fail(s) \/ DatabaseError(s) \/ Crash(s)
      <4>1. step'[s] \notin Replaying /\ answer'[s] \notin {"ok", "blocked"}
        BY <3>0, <3>1 DEF Begin, ReserveStep, TurnAway, Decided, Score, Recheck, Save, Resolve,
              Link, Fail, DatabaseError, Crash, Upset, Goto, Answer, Working, Replaying
      <4> QED BY <4>1
    <3>2. CASE Complete(s)
      <4>1. pc[s] = "working" /\ outcome' = outcome
        BY <3>0, <3>2 DEF Complete, Idem!Complete, Idem!Report, Working, Replaying
      <4> QED BY <4>1, PhasesOf
    <3>3. CASE Replay(s)
      <4>1. outcome[s] = "existing_completed" /\ reply' = reply /\ f = reply[s]
        BY <1>1, <3>3 DEF Replay, Decided, idemVars, Idem!End, Idem!GoOn
      <4> QED BY <3>0, <3>3, <4>1 DEF Replay, Decided
    <3>4. CASE Refresh(s) \/ Relink(s)
      <4>1. saved' = saved /\ reply' = reply
        BY <3>4 DEF Refresh, Relink, idemVars, Idem!End, Idem!GoOn
      <4> QED BY <3>0, <3>4, <4>1 DEF Refresh, Relink
    <3> QED BY <2>2, <3>1, <3>2, <3>3, <3>4 DEF HandlerStep, ServerStep
  <2> QED BY <2>1, <2>2, AllSteps DEF AInv
<1> QED BY <1>2, <1>3, <1>4

\* A run that failed with a key stays one that did.
LEMMA FailedStays ==
  ASSUME AInv, [Next]_vars, NEW f \in Runs, outcome[f] = "accepted_new",
         answer[f] = "error" \/ step[f] \in {"failing", "crashed"}
  PROVE  /\ outcome'[f] = "accepted_new" /\ key'[f] = key[f]
         /\ answer'[f] = "error" \/ step'[f] \in {"failing", "crashed"}
<1>1. CASE Untouched(f)
  BY <1>1 DEF Untouched
<1>2. CASE HandlerStep(f)
  <2>1. step[f] \in {"ended", "failing", "crashed"}
    BY DEF AInv, IInv, RunInv
  <2>2. Fail(f) \/ Crash(f)
    BY <1>2, <2>1 DEF HandlerStep, Begin, ServerStep, ReserveStep, Replay, TurnAway, Decided,
       Score, Recheck, Save, Resolve, Link, Complete, Refresh, Relink, DatabaseError, Working
  <2>3. outcome' = outcome /\ key' = key
    BY <2>2 DEF Fail, Crash, Idem!MarkFailure, Idem!Report, Idem!Crash
  <2>4. answer'[f] = "error" \/ step'[f] \in {"failing", "crashed"}
    BY <2>2, Typed DEF Fail, Crash, Answer
  <2> QED BY <2>3, <2>4
<1> QED BY <1>1, <1>2, AllSteps DEF AInv

LEMMA FailedBeforeStep ==
  ASSUME AInv, [Next]_vars, NEW s \in Runs, IdemP!Reopens(s)'
  PROVE  \E f \in Runs : FailedBefore(f, s)'
<1>1. /\ key'[s] = key[s] /\ key[s] \in Hashes
      /\ IdemP!Reopens(s) \/ row[key[s]].status \in IdemP!FailureStatuses
  BY Reservations, IdemP!ReopensChange, NoHashAssumption, NoRunAssumption, UpsetsAssumption
<1>2. PICK f \in Runs : FailedBefore(f, s)
  <2>1. CASE IdemP!Reopens(s)
    BY <2>1 DEF AInv, PathInv
  <2>2. CASE row[key[s]].status \in IdemP!FailureStatuses
    <3>1. PICK h \in Hashes : h = key[s]
      BY <1>1
    <3>2. row[h].status \in Idem!FailureStatuses /\ row[h].status # "ABSENT"
      BY <2>2, <3>1 DEF Idem!FailureStatuses, IdemP!FailureStatuses
    <3>3. PICK f \in Runs : f = row[h].runId /\ outcome[f] = "accepted_new" /\ key[f] = h
      BY <3>2, Reserved DEF AInv, IInv
    <3>4. answer[f] = "error" \/ step[f] \in {"failing", "crashed"}
      BY <3>2, <3>3 DEF AInv, IInv, LedgerTellsTheTruth
    <3> QED BY <3>1, <3>3, <3>4 DEF FailedBefore
  <2> QED BY <1>1, <2>1, <2>2
<1>3. FailedBefore(f, s)'
  BY <1>1, <1>2, FailedStays DEF FailedBefore
<1> QED BY <1>3

LEMMA PathNext == AInv /\ [Next]_vars => AInv'
<1> SUFFICES ASSUME AInv, [Next]_vars PROVE AInv'
  OBVIOUS
<1>1. IInv'
  BY InvNext DEF AInv
<1>2. IdemP!AnswersAreHandled'
  BY Reservations, IdemP!AnswersStep, NoHashAssumption, NoRunAssumption, UpsetsAssumption
<1>3. \A r \in Runs : Own(r)'
  <2> TAKE r \in Runs
  <2>1. CASE Untouched(r)
    BY <2>1 DEF Untouched, AInv, PathInv, Own
  <2> QED BY <2>1, OwnStep, AllSteps DEF AInv
<1> QED BY <1>1, <1>2, <1>3, RepeatsStep, FailedBeforeStep DEF AInv, PathInv

LEMMA PathFirst == Init => AInv
<1> SUFFICES ASSUME Init PROVE AInv
  OBVIOUS
<1>1. IInv
  BY InvFirst
<1>2. IdemP!AnswersAreHandled
  <2>1. Idem!Init
    BY DEF Init
  <2>2. IdemP!Init
    BY <2>1, SameReservations
  <2> QED BY <2>2, IdemP!AnswersInit, NoHashAssumption, NoRunAssumption, UpsetsAssumption
<1>3. PathInv
  BY DEF Init, Idem!Init, PathInv, Own, Repeats, IdemP!Reopens, Working, Replaying
<1> QED BY <1>1, <1>2, <1>3 DEF AInv

LEMMA PathInvariance == Spec => []AInv
  BY PathFirst, PathNext, PTL DEF Spec

\* A run goes through its handler once: every step of a run takes it nearer to its end,
\* and no step of another, nor a user's, sets it back.
THEOREM GoesForward == Spec => ForwardOnly
<1>1. AInv /\ [Next]_vars => [\A r \in Runs : Rank(r)' < Rank(r) \/ Untouched(r)]_vars
  BY OwnStep, AllSteps DEF AInv
<1> QED BY <1>1, PathInvariance, PTL DEF Spec, ForwardOnly

\* A run that was called and has not ended can always go on: with GoesForward, the
\* argument for KeysSettle short of the fairness rule.
THEOREM ReadyToGoOn == Spec => []NobodyWaits
<1>1. AInv => NobodyWaits
  <2> SUFFICES ASSUME AInv, NEW r \in Runs, step[r] \in Working \cup {"reserving", "failing"}
               PROVE  Ready(r)
    BY DEF NobodyWaits
  <2>1. CASE step[r] = "reserving"
    BY <2>1, PhasesOf DEF Ready, AInv, IInv, RunInv, Reserving
  <2>2. CASE step[r] \in Working \cup {"failing"}
    BY <2>2, Typed DEF Ready, AInv, IInv, RunInv, PathInv, Own
  <2> QED BY <2>1, <2>2
<1> QED BY <1>1, PathInvariance, PTL

\* The rank that a run loses with every step is a natural number.
Counted == \A r \in Runs : Rank(r) \in Nat

LEMMA RanksCount == Counted
BY DEF Counted, Rank, StepRank, ReserveRank

\* Every assessment request that has begun can go on until it ends, and gets
\* nearer to its end with every step: what KeysSettle needs besides fairness.
THEOREM Progress == Spec => ForwardOnly /\ []Counted /\ []NobodyWaits
BY GoesForward, RanksCount, ReadyToGoOn, PTL

\* A run whose key was completed is given the answer of the run that completed it, of
\* the same inputs: the one answers as the other did, with the same assessment, unless
\* it fails.
ReplaysAreTrue ==
    \A r \in Runs : outcome[r] = "existing_completed" =>
        LET f == reply[r]
        IN  /\ f # r /\ inputs[f] = inputs[r] /\ answer[f] \in {"ok", "blocked"}
            /\ answer[r] \in {"ok", "blocked"} => answer[r] = answer[f] /\ saved[r] = saved[f]

\* However requests interleave, a replayed answer is that of a run of the same inputs.
THEOREM ReplayTruth == Spec => []ReplaysAreTrue
<1>1. AInv => ReplaysAreTrue
  <2> SUFFICES ASSUME AInv, NEW r \in Runs, outcome[r] = "existing_completed"
               PROVE  /\ reply[r] # r /\ inputs[reply[r]] = inputs[r]
                      /\ answer[reply[r]] \in {"ok", "blocked"}
                      /\ answer[r] \in {"ok", "blocked"} =>
                            answer[r] = answer[reply[r]] /\ saved[r] = saved[reply[r]]
    BY DEF ReplaysAreTrue
  <2>1. PICK f \in Runs \ {r} : f = reply[r] /\ key[f] = key[r] /\ pc[f] # "idle"
    BY PhasesOf
  <2>2. pc[r] # "idle"
    BY PhasesOf
  <2>3. inputs[f] = inputs[r]
    BY <2>1, <2>2 DEF AInv, IInv, RunInv
  <2> QED BY <2>1, <2>3 DEF AInv, PathInv, Own, Repeats
<1> QED BY <1>1, PathInvariance, PTL

\* Two runs compute the assessment of the same inputs only when one of them wrote over
\* the row of a run that failed: however requests race, none is computed twice before.
RepeatedWorkFollowsAnError ==
    \A r, s \in Runs :
        (r # s /\ Idem!Accepted(r) /\ Idem!Accepted(s) /\ inputs[r] = inputs[s]) =>
            \E f \in Runs : /\ Idem!Accepted(f) /\ inputs[f] = inputs[r]
                            /\ answer[f] = "error" \/ step[f] \in {"failing", "crashed"}

\* An assessment is computed again for the same inputs only after a failure.
THEOREM RepeatedWork == Spec => []RepeatedWorkFollowsAnError
<1>1. AInv => RepeatedWorkFollowsAnError
  <2> SUFFICES ASSUME AInv, NEW r \in Runs, NEW s \in Runs, r # s,
                      outcome[r] = "accepted_new", outcome[s] = "accepted_new",
                      inputs[r] = inputs[s]
               PROVE  \E f \in Runs :
                         /\ outcome[f] = "accepted_new" /\ inputs[f] = inputs[r]
                         /\ answer[f] = "error" \/ step[f] \in {"failing", "crashed"}
    BY DEF RepeatedWorkFollowsAnError, Idem!Accepted
  <2>1. \A t \in Runs : outcome[t] = "accepted_new" => key[t] = inputs[t]
    BY Reserved, PhasesOf DEF AInv, IInv, RunInv
  <2>2. PICK t \in {r, s} : t \in reopened
    BY <2>1 DEF AInv, IInv, IdemP!IInv, IdemP!DuplicateWorkNeedsAFailure, IdemP!Accepted
  <2>3. PICK f \in Runs : FailedBefore(f, t)
    BY <2>2 DEF AInv, PathInv, IdemP!Reopens
  <2> QED BY <2>1, <2>3 DEF FailedBefore
<1> QED BY <1>1, PathInvariance, PTL

\* A result stays stored whoever reports, however late, unless a run that had read the
\* row when it was failed writes its own over it (save has no compare-and-swap).
Overwrites(r, h) ==
    /\ pc[r] = "saving" /\ key[r] = h
    /\ row'[h] = [status |-> "IN_FLIGHT", runId |-> r, body |-> NoRun]
StoredResultsLast ==
    [][\A h \in Hashes :
          row[h].status = "COMPLETED" /\ row'[h] # row[h] => \E r \in Runs : Overwrites(r, h)]_vars

\* No late report takes a stored result away.
THEOREM StoredResults == Spec => StoredResultsLast
<1>1. ASSUME AInv, [Next]_vars, NEW h \in Hashes, row[h].status = "COMPLETED",
             row'[h] # row[h]
      PROVE  \E r \in Runs : Overwrites(r, h)
  <2>1. \/ \E r \in Runs : IdemP!WritesOver(r, h)
        \/ row[h].runId \in Runs /\ updates'[row[h].runId] # updates[row[h].runId]
    BY <1>1, Reservations, IdemP!StoredChange, NoHashAssumption, NoRunAssumption,
       UpsetsAssumption
  <2>2. row[h].runId \in Runs => answer[row[h].runId] # "none"
    BY <1>1 DEF AInv, IInv, LedgerTellsTheTruth
  <2>3. row[h].runId \in Runs => updates'[row[h].runId] = updates[row[h].runId]
    BY <1>1, <2>2, AnsweredRests DEF Untouched
  <2> QED BY <2>1, <2>3 DEF IdemP!WritesOver, Overwrites
<1>2. AInv /\ [Next]_vars =>
        [\A h \in Hashes : row[h].status = "COMPLETED" /\ row'[h] # row[h] =>
            \E r \in Runs : Overwrites(r, h)]_vars
  BY <1>1
<1> QED BY <1>2, PathInvariance, PTL DEF Spec, StoredResultsLast

\* Whatever the handler does, the reservations below it keep the promise of RunLedger.
THEOREM LedgerPromise == Spec => IdemP!ImplementsLedger
<1>1. Init => IdemP!Ledger!LedgerInit
  <2>1. Init => IdemP!Init
    BY SameReservations DEF Init
  <2> QED BY <2>1, IdemP!LedgerInitRefined, NoHashAssumption, NoRunAssumption, UpsetsAssumption
<1>2. AInv /\ [Next]_vars => [IdemP!Ledger!LedgerNext]_(IdemP!Ledger!ledgerVars)
  BY Reservations, IdemP!LedgerStepRefined, NoHashAssumption, NoRunAssumption, UpsetsAssumption
<1> QED BY <1>1, <1>2, PathInvariance, PTL
        DEF Spec, IdemP!ImplementsLedger, IdemP!Ledger!LedgerSpec
=============================================================================
