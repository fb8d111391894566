------------------------------ MODULE AnalysisRun ------------------------------
(***************************************************************************)
(* runFitAssessment (analysis/analysis.service.ts) for one user, baseline  *)
(* and job: any number of requests, each of which reserves the key of its  *)
(* inputs, scores them, checks that they are still the inputs, saves a row *)
(* of fit_assessments, links it to the baseline and completes its key.     *)
(*                                                                         *)
(* It composes WorkflowIdempotency: every report of a run is one of its    *)
(* complete or markFailure.  The inputs (baseline sections, job text and   *)
(* calibration) are abstracted to their hash, which users change while     *)
(* requests run; a score is known by the hash it was computed from.        *)
(* Requests that fail before reserve change nothing and are left out.      *)
(***************************************************************************)
EXTENDS Naturals

CONSTANTS
    Runs,        \* the requests, each with its attempt id
    Hashes,      \* the inputs hashes, each of which is a dedupe key
    NoRun, NoHash,
    MaxUpsets    \* bound: crashes and database errors in a behaviour

ASSUME NoRunAssumption == NoRun \notin Runs
ASSUME NoHashAssumption == NoHash \notin Hashes
ASSUME UpsetsAssumption == MaxUpsets \in Nat

VARIABLES
    row, pc, key, outcome, reply, updates, reopened, faults,  \* the reservations
    current,     \* the hash of the inputs as they are
    assessments, \* assessments[a]: the inputsHash of the row that run a inserted
    link,        \* the baseline's latest assessment and its latest score
    step,        \* step[r]: where run r stands in the handler
    inputs,      \* inputs[r]: the hash of what r has read
    seen,        \* seen[r]: the baseline's latest assessment, as r has read it
    saved,       \* saved[r]: the assessment r answers with
    answer,      \* answer[r]: how the handler ended
    upsets       \* crashes and database errors so far

idemVars == <<row, pc, key, outcome, reply, updates, reopened, faults>>
runVars == <<current, assessments, link, step, inputs, seen, saved, answer, upsets>>
vars == <<idemVars, runVars>>

Idem == INSTANCE WorkflowIdempotency WITH
    Keys <- Hashes, NoKey <- NoHash, MaxUpdates <- 2, MaxFaults <- MaxUpsets

Working == {"scoring", "rechecking", "saving", "resolving", "linking", "completing",
            "refreshing", "relinking"}
Steps == Working \cup {"idle", "reserving", "failing", "ended", "crashed"}
Answers == {"none", "ok", "blocked", "error"}

\* The baseline links to no assessment of this job.
NoLink == [assessment |-> NoRun, score |-> NoHash]

Init ==
    /\ Idem!Init
    /\ current \in Hashes
    /\ assessments = [a \in Runs |-> NoHash]
    /\ link = NoLink
    /\ step = [r \in Runs |-> "idle"]
    /\ inputs = [r \in Runs |-> NoHash]
    /\ seen = [r \in Runs |-> NoRun]
    /\ saved = [r \in Runs |-> NoRun]
    /\ answer = [r \in Runs |-> "none"]
    /\ upsets = 0

-----------------------------------------------------------------------------
(* The reservation *)

Goto(r, next) ==
    /\ step' = [step EXCEPT ![r] = next]
    /\ UNCHANGED <<current, inputs, seen, answer, upsets>>

Answer(r, ans) ==
    /\ step' = [step EXCEPT ![r] = "ended"]
    /\ answer' = [answer EXCEPT ![r] = ans]
    /\ UNCHANGED <<current, inputs, seen, upsets>>

\* The baseline, the job and the calibration are read, and their hash is the key.
Begin(r) ==
    /\ step[r] = "idle"
    /\ Idem!Reserve(r, current)
    /\ step' = [step EXCEPT ![r] = "reserving"]
    /\ inputs' = [inputs EXCEPT ![r] = current]
    /\ seen' = [seen EXCEPT ![r] = link.assessment]
    /\ UNCHANGED <<current, assessments, link, saved, answer, upsets>>

\* The calls of reserve; persistence_conflict goes on like accepted_new.
ReserveStep(r) ==
    /\ step[r] = "reserving"
    /\ Idem!Find(r) \/ Idem!SaveExisting(r) \/ Idem!InsertRow(r) \/ Idem!Refind(r)
    /\ Goto(r, IF pc'[r] = "working" THEN "scoring" ELSE "reserving")
    /\ UNCHANGED <<assessments, link, saved>>

Decided(r, out) == step[r] = "reserving" /\ pc[r] = "replied" /\ outcome[r] = out

\* A stored response that names no assessment was a blocked one: it is returned as it
\* is.  For any other the stored assessment is refreshed first.
Replay(r) ==
    /\ Decided(r, "existing_completed")
    /\ IF saved[reply[r]] = NoRun
       THEN Idem!End(r) /\ Answer(r, "blocked") /\ UNCHANGED saved
       ELSE /\ saved' = [saved EXCEPT ![r] = saved[reply[r]]]
            /\ Goto(r, "refreshing")
            /\ UNCHANGED idemVars
    /\ UNCHANGED <<assessments, link>>

\* analysis_in_flight is thrown inside the try block: the catch block reports it.
TurnAway(r) ==
    /\ Decided(r, "existing_in_flight")
    /\ Goto(r, "failing")
    /\ UNCHANGED <<idemVars, assessments, link, saved>>

-----------------------------------------------------------------------------
(* The work *)

\* Compliance blocks the answer, or lets it through.
Score(r) ==
    /\ step[r] = "scoring"
    /\ Goto(r, "rechecking") \/ Goto(r, "completing")
    /\ UNCHANGED <<idemVars, assessments, link, saved>>

\* The inputs are read and hashed again.
Recheck(r) ==
    /\ step[r] = "rechecking"
    /\ IF current = inputs[r]
       THEN Goto(r, "saving") /\ UNCHANGED idemVars
       ELSE Goto(r, "failing") /\ Idem!MarkFailure(r, "STALE")
    /\ UNCHANGED <<assessments, link, saved>>

\* The unique index on the inputs hash refuses to write h into row a.
Conflicts(a, h) == \E b \in Runs \ {a} : assessments[b] = h

Save_Twice(r) ==                    \* mutant: the unique index is missing
    /\ step[r] = "saving"
    /\ LET a == IF seen[r] = NoRun THEN r ELSE seen[r]
       IN  /\ assessments' = [assessments EXCEPT ![a] = inputs[r]]
           /\ saved' = [saved EXCEPT ![r] = a]
    /\ Goto(r, "linking")
    /\ UNCHANGED <<idemVars, link>>

\* save writes over the row the baseline linked to when it was read, or inserts one.
Save(r) ==
    /\ step[r] = "saving"
    /\ LET a == IF seen[r] = NoRun THEN r ELSE seen[r]
       IN  IF Conflicts(a, inputs[r])
           THEN Goto(r, "resolving") /\ UNCHANGED <<assessments, saved>>
           ELSE /\ assessments' = [assessments EXCEPT ![a] = inputs[r]]
                /\ saved' = [saved EXCEPT ![r] = a]
                /\ Goto(r, "linking")
    /\ UNCHANGED <<idemVars, link>>

\* After the conflict: the row of these inputs, if it has not been written over.
Resolve(r) ==
    /\ step[r] = "resolving"
    /\ \/ \E a \in Runs :
             /\ assessments[a] = inputs[r]
             /\ saved' = [saved EXCEPT ![r] = a]
          /\ Goto(r, "linking") /\ UNCHANGED idemVars
       \/ /\ \A a \in Runs : assessments[a] # inputs[r]
          /\ Goto(r, "failing") /\ Idem!MarkFailure(r, "PERSISTENCE_CONFLICT")
          /\ UNCHANGED saved
    /\ UNCHANGED <<assessments, link>>

Link(r) ==
    /\ step[r] = "linking"
    /\ link' = [assessment |-> saved[r], score |-> inputs[r]]
    /\ Goto(r, "completing")
    /\ UNCHANGED <<idemVars, assessments, saved>>

Complete_Unreported(r) ==           \* mutant: the answer without complete
    /\ step[r] = "completing"
    /\ Answer(r, IF saved[r] = NoRun THEN "blocked" ELSE "ok")
    /\ UNCHANGED <<idemVars, assessments, link, saved>>

Complete(r) ==
    /\ step[r] = "completing"
    /\ Idem!Complete(r)
    /\ Answer(r, IF saved[r] = NoRun THEN "blocked" ELSE "ok")
    /\ UNCHANGED <<assessments, link, saved>>

\* A replay saves the stored result over its assessment, then links it.
Refresh(r) ==
    /\ step[r] = "refreshing"
    /\ IF Conflicts(saved[r], inputs[r])
       THEN Goto(r, "failing") /\ UNCHANGED assessments
       ELSE /\ assessments' = [assessments EXCEPT ![saved[r]] = inputs[r]]
            /\ Goto(r, "relinking")
    /\ UNCHANGED <<idemVars, link, saved>>

Relink(r) ==
    /\ step[r] = "relinking"
    /\ link' = [assessment |-> saved[r], score |-> inputs[r]]
    /\ Idem!End(r)
    /\ Answer(r, "ok")
    /\ UNCHANGED <<assessments, saved>>

-----------------------------------------------------------------------------
(* Errors, crashes and users *)

Fail_Stale(r) ==                    \* mutant: the answer is the mark in the table
    /\ step[r] = "failing"
    /\ Idem!MarkFailure(r, "FAILED")
    /\ Answer(r, row[key[r]].status)
    /\ UNCHANGED <<assessments, link, saved>>

Fail_AnyRun(r) ==                   \* mutant: markFailure without the run id
    /\ step[r] = "failing"
    /\ row' = [row EXCEPT ![key[r]].status = "FAILED"]
    /\ updates' = [updates EXCEPT ![r] = @ + 1]
    /\ UNCHANGED <<pc, key, outcome, reply, reopened, faults>>
    /\ Answer(r, "error")
    /\ UNCHANGED <<assessments, link, saved>>

\* The catch block: whatever was reported before becomes FAILED.
Fail(r) ==
    /\ step[r] = "failing"
    /\ Idem!MarkFailure(r, "FAILED")
    /\ Answer(r, "error")
    /\ UNCHANGED <<assessments, link, saved>>

Upset ==
    /\ upsets < MaxUpsets
    /\ upsets' = upsets + 1
    /\ UNCHANGED <<current, assessments, link, inputs, seen, saved, answer>>

\* A database call in the try block throws; the one that links is reported twice.
DatabaseError(r) ==
    /\ step[r] \in Working
    /\ Upset
    /\ step' = [step EXCEPT ![r] = "failing"]
    /\ IF step[r] = "linking" THEN Idem!MarkFailure(r, "PERSISTENCE_CONFLICT")
                              ELSE UNCHANGED idemVars

\* The process dies, or a call of reserve or the last markFailure throws.
Crash(r) ==
    /\ step[r] \in Working \cup {"reserving", "failing"}
    /\ Upset
    /\ step' = [step EXCEPT ![r] = "crashed"]
    /\ Idem!Crash(r)

\* The user edits the baseline, the job or the calibration.
ChangeInputs(h) ==
    /\ h # current
    /\ current' = h
    /\ UNCHANGED <<idemVars, assessments, link, step, inputs, seen, saved, answer, upsets>>

\* An assessment of another job takes the baseline's link.
AssessOtherJob ==
    /\ link # NoLink
    /\ link' = NoLink
    /\ UNCHANGED <<idemVars, current, assessments, step, inputs, seen, saved, answer, upsets>>

ServerStep(r) ==
    \/ ReserveStep(r) \/ Replay(r) \/ TurnAway(r) \/ Score(r) \/ Recheck(r)
    \/ Save(r) \/ Resolve(r) \/ Link(r) \/ Complete(r)
    \/ Refresh(r) \/ Relink(r) \/ Fail(r)

Next ==
    \/ \E r \in Runs : Begin(r) \/ ServerStep(r) \/ DatabaseError(r) \/ Crash(r)
    \/ \E h \in Hashes : ChangeInputs(h)
    \/ AssessOtherJob

Spec == Init /\ [][Next]_vars

\* A handler that was called runs on; nothing is assumed of users.
FairSpec == Spec /\ \A r \in Runs : WF_vars(ServerStep(r))

-----------------------------------------------------------------------------
(* Properties *)

\* Every variable of the handlers stays in its domain.
TypeOK ==
    /\ current \in Hashes
    /\ assessments \in [Runs -> Hashes \cup {NoHash}]
    /\ link \in [assessment : Runs \cup {NoRun}, score : Hashes \cup {NoHash}]
    /\ step \in [Runs -> Steps]
    /\ inputs \in [Runs -> Hashes \cup {NoHash}]
    /\ seen \in [Runs -> Runs \cup {NoRun}]
    /\ saved \in [Runs -> Runs \cup {NoRun}]
    /\ answer \in [Runs -> Answers]
    /\ upsets \in Nat

Unfinished(r) == step[r] \in Working \cup {"failing", "crashed"}

\* What the table of reservations says of a key is true of the run that holds it,
\* whoever reports twice, fails or is turned away meanwhile: the run of a completed key
\* answered from the very inputs of the key, that of a failed one answered, or is
\* about to answer, an error, and that of a key in flight works or died.
LedgerTellsTheTruth ==
    \A h \in Hashes :
        LET r == row[h].runId
        IN  /\ row[h].status = "COMPLETED" =>
                  answer[r] \in {"ok", "blocked"} /\ inputs[r] = h
            /\ row[h].status \in Idem!FailureStatuses =>
                  answer[r] = "error" \/ step[r] \in {"failing", "crashed"}
            /\ row[h].status = "IN_FLIGHT" => Unfinished(r)

\* An answer that names an assessment names one that is there, and so does the
\* baseline, in whatever order rows are inserted, written over, refreshed and linked;
\* no two of them are of the same inputs.
AssessmentsAreThere ==
    /\ \A r \in Runs : saved[r] # NoRun => assessments[saved[r]] # NoHash
    /\ link.assessment # NoRun => assessments[link.assessment] # NoHash
    /\ \A a, b \in Runs : a # b /\ assessments[a] = assessments[b] => assessments[a] = NoHash

\* The handler uses the reservations as its callers may, reporting twice included.
UsesReservationsAsSpecified == Idem!Spec

\* No key stays in flight unless the process of its run died.
KeysSettle ==
    \A h \in Hashes :
        row[h].status = "IN_FLIGHT" ~>
            row[h].status # "IN_FLIGHT" \/ step[row[h].runId] = "crashed"
=============================================================================
