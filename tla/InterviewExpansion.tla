---------------------------- MODULE InterviewExpansion ----------------------------
(***************************************************************************)
(* One baseline expansion interview (interviews/interview-records.service): *)
(* its row, which every request reads, changes in memory and saves, and    *)
(* computeExpandedFit, which keeps its copy of the row while it reserves   *)
(* the key of the row's content, computes and saves.  A save is two steps, *)
(* see EntitySave: it selects the row as it is by then, and updates the    *)
(* columns in which the changed copy differs from that.                    *)
(*                                                                         *)
(* It composes WorkflowIdempotency.  An answer stands for the addition     *)
(* that generateFromResponses derives from it.  Interviews are started     *)
(* from a fit review, without additions; deletion is left out, and so are  *)
(* requests that are refused before they change anything.                  *)
(***************************************************************************)
EXTENDS Naturals, EntitySave

CONSTANTS
    Runs,        \* requests to compute the expanded fit, each with its run id
    Edits,       \* the other requests
    Texts,       \* the answers, and the additions they give
    Targets,     \* job, baseline and baseline version, here one column
    NoRun, NoFit, NoKey, Nothing,
    MaxUpsets    \* bound: crashes and errors in a behaviour

ASSUME DisjointAssumption == Runs \cap Edits = {} /\ NoRun \notin Runs
ASSUME UpsetsAssumption == MaxUpsets \in Nat

VARIABLES
    row, pc, key, outcome, reply, updates, reopened, faults,  \* the reservations
    interview,   \* the row of the interview
    verified,    \* the texts in interview_accepted_additions
    versions,    \* how many baseline versions promotions have made
    step,        \* step[c]: where request c stands
    copy,        \* copy[c]: the interview as c has read it; a run keeps it to the end
    saving,      \* saving[c]: the entity that c saves, and what its save selected
    additions,   \* additions[r]: the verified additions as run r has read them
    result,      \* result[r]: the outcome that run r is about to complete with
    answer,      \* answer[r]: the outcome that run r ended with
    upsets       \* crashes and errors so far

idemVars == <<row, pc, key, outcome, reply, updates, reopened, faults>>
ivVars == <<interview, verified, versions, step, copy, saving, additions, result,
           answer, upsets>>
vars == <<idemVars, ivVars>>

Calls == Runs \cup Edits
Working == {"computing", "rechecking", "saving", "updating", "completing"}
Steps == Working \cup {"idle", "read", "reserving", "failing", "promoted", "ended", "crashed"}
Results == {"none", "success", "error"}

\* The additions that are generated from the answers: none when compliance blocks it.
Generated(resp, blk) == IF blk THEN {} ELSE resp

\* The column recommendedAdditions: the texts, and those of them that are decided on.
Recommendations == {a \in [offered : SUBSET Texts, decided : SUBSET Texts] :
                        a.decided \subseteq a.offered}
Proposed(texts) == [offered |-> texts, decided |-> {}]

\* The request hash; the dedupe key adds only what it implies.
RequestHash(iv) ==
    [responses |-> iv.responses, target |-> iv.target, recommended |-> iv.recommended,
     accepted |-> iv.accepted]

Hashes == [responses : SUBSET Texts, target : Targets, recommended : Recommendations,
           accepted : SUBSET Texts]

ASSUME NoKeyAssumption == NoKey \notin Hashes

Fits == [hash : Hashes, additions : SUBSET Texts]

Idem == INSTANCE WorkflowIdempotency WITH
    Keys <- Hashes, MaxUpdates <- 2, MaxFaults <- MaxUpsets

\* The row that startInterviewFromFitReview creates.
Started(t) ==
    [responses |-> {}, target |-> t, blocked |-> FALSE, recommended |-> Proposed({}),
     accepted |-> {}, fit |-> NoFit, promoted |-> 0]

Init ==
    /\ Idem!Init
    /\ \E t \in Targets : interview = Started(t)
    /\ verified = {}
    /\ versions = 0
    /\ step = [c \in Calls |-> "idle"]
    /\ copy = [c \in Calls |-> Nothing]
    /\ saving = [c \in Calls |-> Nothing]
    /\ additions = [r \in Runs |-> {}]
    /\ result = [r \in Runs |-> "none"]
    /\ answer = [r \in Runs |-> "none"]
    /\ upsets = 0

-----------------------------------------------------------------------------
(* Requests that read the interview and save it: nothing locks the row *)

Goto(c, next) == step' = [step EXCEPT ![c] = next]

\* getInterviewRecordForUser, the first call of every handler.
Read(c) ==
    /\ step[c] = "idle"
    /\ Goto(c, "read")
    /\ copy' = [copy EXCEPT ![c] = interview]
    /\ UNCHANGED <<idemVars, interview, verified, versions, saving, additions, result,
                   answer, upsets>>

\* repository.save of an entity: its SELECT ...
Select(c, iv) ==
    /\ saving' = [saving EXCEPT ![c] = [selected |-> interview, entity |-> iv]]
    /\ Goto(c, "updating")
    /\ UNCHANGED <<idemVars, interview, verified, versions, copy, additions, result, answer,
                   upsets>>

\* ... and its UPDATE, which nothing but the primary key guards.
Write(c) ==
    /\ step[c] = "updating"
    /\ interview' = Updated(interview, saving[c].selected, saving[c].entity)
    /\ saving' = [saving EXCEPT ![c] = Nothing]
    /\ UNCHANGED <<idemVars, verified, versions, additions, answer, upsets>>

\* The request is over, and what it has read is forgotten.
Over(e) ==
    /\ Goto(e, "ended")
    /\ copy' = [copy EXCEPT ![e] = Nothing]

\* The request is answered with the row.
Saved(e) ==
    /\ Write(e)
    /\ Over(e)
    /\ UNCHANGED result

\* What an update makes of a copy: the additions are generated again, as proposed,
\* and ids of additions that are gone are dropped.
Regenerated(iv, resp, t, blk) ==
    [iv EXCEPT !.responses = resp, !.target = t, !.blocked = blk,
               !.recommended = Proposed(Generated(resp, blk)),
               !.accepted = @ \cap Generated(resp, blk)]

\* updateInterviewRecord with answers or a validation result.
UpdateAnswers(e) ==
    /\ step[e] = "read"
    /\ \E resp \in SUBSET Texts, t \in Targets, blk \in BOOLEAN :
          Select(e, [Regenerated(copy[e], resp, t, blk) EXCEPT !.fit = NoFit])

\* updateInterviewRecord with a job, baseline or version alone: the fit stays.
UpdateTarget(e) ==
    /\ step[e] = "read"
    /\ \E t \in Targets :
          Select(e, Regenerated(copy[e], copy[e].responses, t, copy[e].blocked))

\* applyAdditionDecisions, on recommended additions alone.
Decide(e) ==
    /\ step[e] = "read"
    /\ \E d \in SUBSET copy[e].recommended.offered :
          Select(e, [copy[e] EXCEPT !.recommended.decided = d])

\* updateAcceptedAdditions refuses unknown ids.
AcceptIds(e) ==
    /\ step[e] = "read"
    /\ \E a \in SUBSET copy[e].recommended.offered :
          Select(e, [copy[e] EXCEPT !.accepted = a, !.fit = NoFit])

\* acceptRecommendation adds a row to a table of its own; every reader takes its
\* distinct texts.
AcceptRecommendation(e) ==
    /\ step[e] = "read"
    /\ \E t \in Texts : verified' = verified \cup {t}
    /\ Over(e)
    /\ UNCHANGED <<idemVars, interview, versions, saving, additions, result, answer, upsets>>

\* promoteAcceptedAdditions: the additions become a new version of the baseline ...
Promote(e) ==
    /\ step[e] = "read"
    /\ copy[e].accepted \cap copy[e].recommended.offered # {}
    /\ versions' = versions + 1
    /\ copy' = [copy EXCEPT ![e].promoted = versions']
    /\ Goto(e, "promoted")
    /\ UNCHANGED <<idemVars, interview, verified, saving, additions, result, answer, upsets>>

\* ... and only then the interview is saved.
SavePromoted(e) ==
    /\ step[e] = "promoted"
    /\ Select(e, copy[e])

-----------------------------------------------------------------------------
(* computeExpandedFit *)

Go(r, next) ==
    /\ Goto(r, next)
    /\ UNCHANGED <<interview, verified, versions, copy, saving, additions, result, answer,
                   upsets>>

Answer(r, res) ==
    /\ Goto(r, "ended")
    /\ answer' = [answer EXCEPT ![r] = res]
    /\ UNCHANGED <<interview, verified, versions, copy, saving, additions, result, upsets>>

\* The verified additions are read after the interview, and are not part of the key;
\* without any the request is refused.
Begin(r) ==
    /\ step[r] = "read"
    /\ verified # {}
    /\ Idem!Reserve(r, RequestHash(copy[r]))
    /\ Goto(r, "reserving")
    /\ additions' = [additions EXCEPT ![r] = verified]
    /\ UNCHANGED <<interview, verified, versions, copy, saving, result, answer, upsets>>

ReserveStep(r) ==
    /\ step[r] = "reserving"
    /\ Idem!Find(r) \/ Idem!SaveExisting(r) \/ Idem!InsertRow(r) \/ Idem!Refind(r)
    /\ Go(r, IF pc'[r] = "working" THEN "computing" ELSE "reserving")

Decided(r, out) == step[r] = "reserving" /\ pc[r] = "replied" /\ outcome[r] = out

Replay_Status(r) ==                 \* mutant: the status of the row is the outcome
    /\ Decided(r, "existing_completed")
    /\ Idem!End(r)
    /\ Answer(r, row[key[r]].status)

\* The stored outcome is returned as it is, an error too.
Replay(r) ==
    /\ Decided(r, "existing_completed")
    /\ Idem!End(r)
    /\ Answer(r, result[reply[r]])

TurnAway_AnyRun(r) ==               \* mutant: the catch block reports it, for any run
    /\ Decided(r, "existing_in_flight")
    /\ row' = [row EXCEPT ![key[r]].status = "FAILED"]
    /\ updates' = [updates EXCEPT ![r] = @ + 1]
    /\ UNCHANGED <<pc, key, outcome, reply, reopened, faults>>
    /\ Answer(r, "error")

\* expanded_fit_in_flight: an outcome, not an exception; nothing is reported.
TurnAway(r) ==
    /\ Decided(r, "existing_in_flight")
    /\ Idem!End(r)
    /\ Answer(r, "error")

Ends(r, res, next) ==
    /\ Goto(r, next)
    /\ result' = [result EXCEPT ![r] = res]
    /\ UNCHANGED <<interview, verified, versions, copy, saving, additions, answer, upsets>>

Compute(r) ==
    /\ step[r] = "computing"
    /\ Go(r, "rechecking")
    /\ UNCHANGED idemVars

\* runExpandedFitAssessment throws: the error becomes an outcome to complete with.
ComputeThrows(r) ==
    /\ step[r] = "computing"
    /\ upsets < MaxUpsets
    /\ upsets' = upsets + 1
    /\ Goto(r, "completing")
    /\ result' = [result EXCEPT ![r] = "error"]
    /\ UNCHANGED <<idemVars, interview, verified, versions, copy, saving, additions, answer>>

\* stale_request_ignored when the interview has another content by now.
Recheck(r) ==
    /\ step[r] = "rechecking"
    /\ IF RequestHash(interview) = RequestHash(copy[r])
       THEN Go(r, "saving")
       ELSE Ends(r, "error", "completing")
    /\ UNCHANGED idemVars

Computed(r) == [hash |-> RequestHash(copy[r]), additions |-> additions[r]]

SaveFit_Alone(r) ==                 \* mutant: the fit is set on the row as it is by now
    /\ step[r] = "saving"
    /\ Select(r, [interview EXCEPT !.fit = Computed(r)])

\* The run's own copy is saved with the fit: whatever was saved since it was read is
\* undone, up to the SELECT.
SaveFit(r) ==
    /\ step[r] = "saving"
    /\ Select(r, [copy[r] EXCEPT !.fit = Computed(r)])

WriteFit(r) ==
    /\ Write(r)
    /\ result' = [result EXCEPT ![r] = "success"]
    /\ Goto(r, "completing")
    /\ UNCHANGED copy

Complete_Unreported(r) ==           \* mutant: the answer without complete
    /\ step[r] = "completing"
    /\ Answer(r, result[r])
    /\ UNCHANGED idemVars

Complete(r) ==
    /\ step[r] = "completing"
    /\ Idem!Complete(r)
    /\ Answer(r, result[r])

\* The catch block; what it throws after that the controller turns into an outcome.
Fail(r) ==
    /\ step[r] = "failing"
    /\ Idem!MarkFailure(r, "FAILED")
    /\ Answer(r, "error")

-----------------------------------------------------------------------------
(* Errors and crashes *)

Upset(r, next) ==
    /\ upsets < MaxUpsets
    /\ upsets' = upsets + 1
    /\ Goto(r, next)
    /\ saving' = [saving EXCEPT ![r] = Nothing]
    /\ UNCHANGED <<interview, verified, versions, copy, additions, result, answer>>

DatabaseError(r) ==
    /\ step[r] \in Working
    /\ Upset(r, "failing")
    /\ UNCHANGED idemVars

\* The process dies, or a call of reserve or the last markFailure throws.
Crash(r) ==
    /\ step[r] \in Working \cup {"reserving", "failing"}
    /\ Upset(r, "crashed")
    /\ Idem!Crash(r)

ServerStep(r) ==
    \/ ReserveStep(r) \/ Replay(r) \/ TurnAway(r) \/ Compute(r) \/ Recheck(r)
    \/ SaveFit(r) \/ WriteFit(r) \/ Complete(r) \/ Fail(r)

Edit(e) ==
    \/ UpdateAnswers(e) \/ UpdateTarget(e) \/ Decide(e) \/ AcceptIds(e)
    \/ AcceptRecommendation(e) \/ Promote(e) \/ SavePromoted(e) \/ Saved(e)

Next ==
    \/ \E c \in Calls : Read(c)
    \/ \E e \in Edits : Edit(e)
    \/ \E r \in Runs :
          Begin(r) \/ ServerStep(r) \/ ComputeThrows(r) \/ DatabaseError(r) \/ Crash(r)

Spec == Init /\ [][Next]_vars

\* A run that has begun goes on; nothing is assumed of users.
FairSpec == Spec /\ \A r \in Runs : WF_vars(ServerStep(r))

-----------------------------------------------------------------------------
(* Properties *)

Interviews ==
    [responses : SUBSET Texts, target : Targets, blocked : BOOLEAN,
     recommended : Recommendations, accepted : SUBSET Texts, fit : Fits \cup {NoFit},
     promoted : Nat]

\* Every variable stays in its domain.
TypeOK ==
    /\ interview \in Interviews
    /\ verified \subseteq Texts
    /\ versions \in Nat
    /\ step \in [Calls -> Steps]
    /\ copy \in [Calls -> Interviews \cup {Nothing}]
    /\ saving \in [Calls -> [selected : Interviews, entity : Interviews] \cup {Nothing}]
    /\ additions \in [Runs -> SUBSET Texts]
    /\ result \in [Runs -> Results]
    /\ answer \in [Runs -> Results]
    /\ upsets \in Nat

\* The columns of an interview agree: it recommends what its answers give, accepted ids
\* are of additions that it recommends, and the expanded fit on it was computed from
\* the answers and the accepted additions next to it.
Agrees(iv) ==
    /\ iv.recommended.offered = Generated(iv.responses, iv.blocked)
    /\ iv.accepted \subseteq iv.recommended.offered
    /\ iv.fit # NoFit =>
          /\ iv.fit.hash.responses = iv.responses
          /\ iv.fit.hash.accepted = iv.accepted
Related == {"responses", "blocked", "recommended", "accepted", "fit"}

\* The row agrees with itself whichever copies are saved over it, and in whatever
\* order: it stops doing so only when another request writes one of these columns
\* between the two statements of a save, or when the copy that is saved was read from
\* such a row.
KeepsAgreement ==
    Agrees(interview) /\ ~Agrees(interview') =>
        \E c \in Calls :
            /\ step[c] = "updating" /\ step'[c] # "updating"
            /\ Crossed(interview, saving[c].selected, Related) \/ ~Agrees(copy[c])
FitStaysOfItsAnswers == [][KeepsAgreement]_vars

Unfinished(r) == step[r] \in Working \cup {"failing", "crashed"}

\* What the table of reservations says of a key is true of the run that holds it: the
\* run of a completed key read the content of the key and answered with what is
\* replayed, that of a failed one answered an error, that of a key in flight is
\* working or died.
LedgerTellsTheTruth ==
    \A h \in Hashes :
        LET r == row[h].runId
        IN  /\ row[h].status = "COMPLETED" =>
                  /\ RequestHash(copy[r]) = h
                  /\ answer[r] = result[r] /\ result[r] # "none"
            /\ row[h].status \in Idem!FailureStatuses => answer[r] = "error"
            /\ row[h].status = "IN_FLIGHT" => Unfinished(r)

\* The handler uses the reservations as its callers may.
UsesReservationsAsSpecified == Idem!Spec

\* No key stays in flight unless the process of its run died.
HoldsKey(r) == \E h \in Hashes : row[h].runId = r /\ row[h].status = "IN_FLIGHT"
KeysSettle == \A r \in Runs : HoldsKey(r) ~> (~HoldsKey(r) \/ step[r] = "crashed")

\* "retryable: true, nextAction: 'retry_compute'": a request is not answered with the
\* error of an earlier one.
RetriesAreWorked ==
    \A r \in Runs : outcome[r] = "existing_completed" => answer[r] # "error"
=============================================================================
