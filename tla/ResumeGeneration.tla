---------------------------- MODULE ResumeGeneration ----------------------------
(***************************************************************************)
(* generateResume (resume/resume.service.ts) for one user, baseline and    *)
(* job: any number of requests that read the pair's assessment, reuse the  *)
(* resume of the studio_artifacts row or compose a new one, and record how *)
(* it went.  Every database call that matters is a step of its own, and    *)
(* StudioArtifactRow says what a call writes.                              *)
(*                                                                         *)
(* The handler asks for a dedupe key only below the line that decides      *)
(* forceTemplateRegen, which is TRUE for every baseline that gets there: a *)
(* baseline without a usable ResumeV2 and without structured experience is *)
(* refused earlier.  So no request reserves, completes or fails a key, and *)
(* nothing keeps two requests of the same inputs from running side by side.*)
(* The application and the opportunity that a request writes on its way    *)
(* (best effort) are those of Applications and Opportunities.              *)
(*                                                                         *)
(* A baseline is "persisted" (its ResumeV2 is the authority), "parsed" (its*)
(* sections are) or "none" (neither).  The pair has one assessment, which  *)
(* is rewritten with other inputs hashes; StudioArtifacts has several.     *)
(***************************************************************************)
EXTENDS Naturals, StudioArtifactRow

CONSTANTS
    Runs,        \* the requests
    Versions,    \* the baseline version hashes, with the job fingerprint
    Hashes,      \* the inputs hashes of the assessment
    MaxUpsets    \* bound: crashes and database errors in a behaviour

ASSUME UpsetsAssumption == MaxUpsets \in Nat

VARIABLES
    studio,      \* the resume columns of the studio_artifacts row
    assessment,  \* the inputs hash of the pair's latest assessment
    step,        \* step[r]: where run r stands
    request,     \* request[r]: its baseline version, authority and oneTap
    label,       \* label[r]: the inputs in the run's artifact context
    outer,       \* outer[r]: the same of the call that fell back to r, if one did
    error,       \* error[r]: what was thrown last
    reused,      \* reused[r]: the body that run r answered with again
    answer,      \* answer[r]: how the handler ended
    pending,     \* the runs whose detached failure call has not landed
    upsets       \* crashes and database errors so far

vars == <<studio, assessment, step, request, label, outer, error, reused,
          answer, pending, upsets>>

Authorities == {"persisted", "parsed", "none"}
Requests == [version : Versions, authority : Authorities, oneTap : BOOLEAN]
NoRequest == NoInputs
Labels == [version : Versions, hash : Hashes]
ASSUME NoInputsAssumption == NoInputs \notin Labels
Bodies == [run : Runs, good : BOOLEAN]
ASSUME NoBodyAssumption == NoBody \notin Bodies
Errors == {"none", "blocked", "refused", "error"}

Reading == {"reading", "labelling", "looking", "composing", "starting"}
Started == {"finishing", "recording"}
Steps == Reading \cup Started \cup {"idle", "catching", "ended", "crashed"}

Init ==
    /\ studio = NoDocument
    /\ assessment \in Hashes
    /\ step = [r \in Runs |-> "idle"]
    /\ request = [r \in Runs |-> NoRequest]
    /\ label = [r \in Runs |-> NoInputs]
    /\ outer = [r \in Runs |-> NoInputs]
    /\ error = [r \in Runs |-> "none"]
    /\ reused = [r \in Runs |-> NoBody]
    /\ answer = [r \in Runs |-> "none"]
    /\ pending = {}
    /\ upsets = 0

-----------------------------------------------------------------------------
(* Reading the inputs *)

Goto(r, next) ==
    /\ step' = [step EXCEPT ![r] = next]
    /\ UNCHANGED <<assessment, outer, pending, upsets>>

Answer(r, ans) ==
    /\ Goto(r, "ended")
    /\ answer' = [answer EXCEPT ![r] = ans]

Begin(r, req) ==
    /\ step[r] = "idle"
    /\ request' = [request EXCEPT ![r] = req]
    /\ Goto(r, "reading")
    /\ UNCHANGED <<studio, label, error, reused, answer>>

\* The baseline, its version and the analysis are there and an authority is found.
ReadBaseline(r) ==
    /\ step[r] = "reading" /\ request[r].authority # "none"
    /\ Goto(r, "labelling")
    /\ UNCHANGED <<studio, request, label, error, reused, answer>>

\* The latest assessment completes the artifact context.
ReadAssessment(r) ==
    /\ step[r] = "labelling"
    /\ label' = [label EXCEPT ![r] =
                    [version |-> request[r].version, hash |-> assessment]]
    /\ Goto(r, "looking")
    /\ UNCHANGED <<studio, request, error, reused, answer>>

Reusable_AnyBody(r) ==              \* mutant: a minimal draft will do
    studio.body # NoBody /\ studio.label = label[r]

\* readState by now: its own reading of the assessment decides what is current.
Reusable(r) ==
    /\ ResumeUsable(studio, [version |-> request[r].version, hash |-> assessment])
    /\ studio.label = label[r]

\* The stored resume is the answer; nothing is written.
Reuse(r) ==
    /\ step[r] = "looking" /\ Reusable(r)
    /\ reused' = [reused EXCEPT ![r] = studio.body]
    /\ Answer(r, "success")
    /\ UNCHANGED <<studio, request, label, error>>

\* There is none, forceRegenerate asks for another, or it is put in quarantine.
Regenerate(r) ==
    /\ step[r] = "looking"
    /\ Goto(r, "composing")
    /\ UNCHANGED <<studio, request, label, error, reused, answer>>

-----------------------------------------------------------------------------
(* Composing and recording *)

Compose(r) ==
    /\ step[r] = "composing"
    /\ Goto(r, "starting")
    /\ UNCHANGED <<studio, request, label, error, reused, answer>>

\* Compliance blocks a tailored resume of a good match: generateResume calls
\* itself for a verified-only one, and its result, or error, is the outer one's.
FallBack(r) ==
    /\ step[r] = "composing" /\ ~request[r].oneTap
    /\ request' = [request EXCEPT ![r].oneTap = TRUE]
    /\ outer' = [outer EXCEPT ![r] = label[r]]
    /\ label' = [label EXCEPT ![r] = NoInputs]
    /\ step' = [step EXCEPT ![r] = "reading"]
    /\ UNCHANGED <<studio, assessment, error, reused, answer, pending, upsets>>

RecordInProgress(r) ==
    /\ step[r] = "starting"
    /\ studio' = InProgress(studio, label[r], NoAnalysis)
    /\ Goto(r, "finishing")
    /\ UNCHANGED <<request, label, error, reused, answer>>

Finish(r) ==
    /\ step[r] = "finishing"
    /\ Goto(r, "recording")
    /\ UNCHANGED <<studio, request, label, error, reused, answer>>

RecordSuccess_Early(r) ==           \* mutant: answered before the row is written
    /\ step[r] = "recording"
    /\ Answer(r, "success")
    /\ UNCHANGED <<studio, request, label, error, reused>>

RecordSuccess(r) ==
    /\ step[r] = "recording"
    /\ studio' = Success(studio, label[r], NoAnalysis, [run |-> r, good |-> TRUE])
    /\ Answer(r, "success")
    /\ UNCHANGED <<request, label, error, reused>>

\* recordResumeSuccess throws (the evidence contract, or the database): the error
\* is thrown on and nothing is recorded.  An enclosing call catches it as usual.
LoseSuccess(r) ==
    /\ step[r] = "recording"
    /\ error' = [error EXCEPT ![r] = "error"]
    /\ IF outer[r] = NoInputs
       THEN Answer(r, "error") /\ UNCHANGED label
       ELSE /\ label' = [label EXCEPT ![r] = outer[r]]
            /\ outer' = [outer EXCEPT ![r] = NoInputs]
            /\ step' = [step EXCEPT ![r] = "catching"]
            /\ UNCHANGED <<assessment, answer, pending, upsets>>
    /\ UNCHANGED <<studio, request, reused>>

-----------------------------------------------------------------------------
(* Errors *)

Throw(r, e) ==
    /\ error' = [error EXCEPT ![r] = e]
    /\ step' = [step EXCEPT ![r] = "catching"]
    /\ UNCHANGED <<studio, assessment, request, label, outer, reused, answer,
                   pending>>

\* Gates, validations and compliance.  "blocked" is a 422 whose code is
\* generation_blocked, "refused" one with another code.
Refuse(r, e) ==
    /\ e \in {"blocked", "refused"}
    /\ step[r] \in {"reading", "composing", "finishing"}
    /\ Throw(r, e)
    /\ UNCHANGED upsets

\* A database call throws; that of recordResumeSuccess is LoseSuccess.
DatabaseError(r) ==
    /\ step[r] \in Reading
    /\ upsets < MaxUpsets
    /\ upsets' = upsets + 1
    /\ Throw(r, "error")

\* The call ends with the error: an enclosing call catches it in its turn.
Rethrow(r) ==
    /\ IF outer[r] = NoInputs
       THEN /\ step' = [step EXCEPT ![r] = "ended"]
            /\ answer' = [answer EXCEPT ![r] = "error"]
            /\ UNCHANGED <<label, outer>>
       ELSE /\ label' = [label EXCEPT ![r] = outer[r]]
            /\ outer' = [outer EXCEPT ![r] = NoInputs]
            /\ UNCHANGED <<step, answer>>
    /\ UNCHANGED <<assessment, request, error, reused>>

\* What the catch block knows: the authority is set once the baseline is read,
\* and nested calls of one request read one baseline.  early: no label as yet.
Early(r) == label[r] = NoInputs
Catching(r, authority) == step[r] = "catching" /\ request[r].authority = authority

\* A blocked generation, and every 422 under the persisted authority, is thrown on
\* with nothing recorded: the row stays IN_PROGRESS if the run had got that far.
CatchUnrecorded(r) ==
    /\ step[r] = "catching"
    /\ error[r] = "blocked" \/ (error[r] = "refused" /\ request[r].authority = "persisted")
    /\ Rethrow(r)
    /\ UNCHANGED <<studio, pending, upsets>>

\* Other errors under the persisted authority are recorded before they are thrown
\* on; an error of that write (ok is FALSE) is ignored.
CatchPersisted(r, ok) ==
    /\ Catching(r, "persisted") /\ error[r] = "error"
    /\ IF ok
       THEN studio' = Failure(studio, label[r], NoAnalysis) /\ UNCHANGED upsets
       ELSE upsets < MaxUpsets /\ upsets' = upsets + 1 /\ UNCHANGED studio
    /\ Rethrow(r)
    /\ UNCHANGED pending

\* Before it is known which authority generates, an error is recorded by a detached
\* call and thrown on, whatever the authority would have been.
CatchPlain(r) ==
    /\ step[r] = "catching" /\ Early(r) /\ error[r] # "blocked"
    /\ pending' = pending \cup {r}
    /\ Rethrow(r)
    /\ UNCHANGED <<studio, upsets>>

FailSafe_Unrecorded(r, good) ==     \* mutant: the fail-safe draft is not recorded
    /\ Catching(r, "parsed") /\ error[r] # "blocked"
    /\ Answer(r, "success")
    /\ UNCHANGED <<studio, request, label, error, reused>>

\* The fail-safe of the parsed authority: a draft of the baseline's own text is
\* recorded and answered.  It is good unless it is a minimal one.
FailSafe(r, good) ==
    /\ Catching(r, "parsed") /\ error[r] # "blocked"
    /\ studio' = Success(studio, label[r], NoAnalysis, [run |-> r, good |-> good])
    /\ Answer(r, "success")
    /\ UNCHANGED <<request, label, error, reused>>

\* That draft does not pass the quality gate: the failure is recorded, and the
\* response, built before, says success all the same.
FailSafeInvalid(r) ==
    /\ Catching(r, "parsed") /\ error[r] # "blocked"
    /\ studio' = Failure(studio, label[r], NoAnalysis)
    /\ Answer(r, "success")
    /\ UNCHANGED <<request, label, error, reused>>

\* No draft can be made of the baseline's text, or recording it fails.
FailSafeThrows(r) ==
    /\ Catching(r, "parsed") /\ error[r] # "blocked"
    /\ Rethrow(r)
    /\ UNCHANGED <<studio, pending, upsets>>

\* The detached call writes an empty inputs hash; a request that names no baseline
\* version has an empty version id too, which the database refuses (ok is FALSE).
LandFailure(r, ok) ==
    /\ r \in pending
    /\ pending' = pending \ {r}
    /\ studio' = IF ok THEN Failure(studio, NoInputs, NoAnalysis) ELSE studio
    /\ UNCHANGED <<assessment, step, request, label, outer, error, reused, answer,
                   upsets>>

-----------------------------------------------------------------------------
(* The process and the user *)

Crash(r) ==
    /\ step[r] \notin {"idle", "ended", "crashed"} \/ r \in pending
    /\ upsets < MaxUpsets
    /\ upsets' = upsets + 1
    /\ step' = [step EXCEPT ![r] = IF @ = "ended" THEN @ ELSE "crashed"]
    /\ pending' = pending \ {r}
    /\ UNCHANGED <<studio, assessment, request, label, outer, error, reused,
                   answer>>

\* The pair is assessed again, with other inputs.
Assess(h) ==
    /\ h # assessment
    /\ assessment' = h
    /\ UNCHANGED <<studio, step, request, label, outer, error, reused, answer,
                   pending, upsets>>

ServerStep(r) ==
    \/ ReadBaseline(r) \/ ReadAssessment(r) \/ Reuse(r) \/ Regenerate(r)
    \/ Compose(r) \/ FallBack(r) \/ RecordInProgress(r)
    \/ Finish(r) \/ RecordSuccess(r) \/ LoseSuccess(r)
    \/ \E e \in Errors : Refuse(r, e)
    \/ CatchUnrecorded(r) \/ CatchPersisted(r, TRUE) \/ CatchPlain(r)
    \/ \E good \in BOOLEAN : FailSafe(r, good)
    \/ FailSafeInvalid(r) \/ FailSafeThrows(r)
    \/ \E ok \in BOOLEAN : LandFailure(r, ok)

Next ==
    \/ \E r \in Runs :
          \/ \E req \in Requests : Begin(r, req)
          \/ ServerStep(r)
          \/ CatchPersisted(r, FALSE)
          \/ DatabaseError(r) \/ Crash(r)
    \/ \E h \in Hashes : Assess(h)

Spec == Init /\ [][Next]_vars

\* Handlers and detached calls run on; no user is made to do anything.
FairSpec == Spec /\ \A r \in Runs : WF_vars(ServerStep(r))

-----------------------------------------------------------------------------
(* Properties *)

\* Every variable stays in its domain.
TypeOK ==
    /\ studio \in [status : Lifecycle, label : Labels \cup {NoInputs},
                   analysis : {NoAnalysis}, body : Bodies \cup {NoBody}]
    /\ assessment \in Hashes
    /\ step \in [Runs -> Steps]
    /\ request \in [Runs -> Requests \cup {NoRequest}]
    /\ label \in [Runs -> Labels \cup {NoInputs}]
    /\ outer \in [Runs -> Labels \cup {NoInputs}]
    /\ error \in [Runs -> Errors]
    /\ reused \in [Runs -> Bodies \cup {NoBody}]
    /\ answer \in [Runs -> {"none", "success", "error"}]
    /\ pending \in SUBSET Runs
    /\ upsets \in Nat

\* The label is of r's inputs; a fallback that failed may have had a newer hash.
Labelled(r) ==
    \/ studio.label \in {label[r], outer[r]}
    \/ error[r] # "none" /\ studio.label.version = request[r].version

\* What Studio says of the resume is true of some run with the inputs it is
\* labelled with, whichever exit the run took: the body of a COMPLETED one was
\* answered to a request with that label, the run behind a FAILED one threw, and an
\* IN_PROGRESS one is being worked on, died, or was answered with an error.
StudioTellsTheTruth ==
    /\ studio.status = "COMPLETED" =>
          /\ studio.body # NoBody
          /\ answer[studio.body.run] = "success" /\ label[studio.body.run] = studio.label
    /\ studio.status = "FAILED" =>
          \E r \in Runs : /\ error[r] # "none"
                          /\ studio.label = NoInputs \/ Labelled(r)
    /\ studio.status = "IN_PROGRESS" =>
          \E r \in Runs : /\ Labelled(r)
                          /\ \/ step[r] \in Started \cup {"catching", "crashed"}
                             \/ answer[r] = "error"

\* A stored body was never the answer of a request that reused it unless the
\* request it was composed for had been answered: nobody is handed a resume that
\* was not recorded, and a minimal draft is never handed out again.
ReusedWasAnswered ==
    \A r \in Runs : reused[r] # NoBody =>
        reused[r].good /\ answer[reused[r].run] = "success" /\ reused[r].run # r

\* A resume that is usable for some inputs stays so through failures, crashes and
\* attempts of the same inputs: only a request that ends in success, or the label of
\* another attempt, takes it away.
UsableSurvivesFailures ==
    [][\A l \in Labels :
          ResumeUsable(studio, l) /\ ~ResumeUsable(studio', l) =>
              \/ studio'.label # l
              \/ \E r \in Runs : answer[r] # "success" /\ answer'[r] = "success"]_vars

\* Studio does not say for ever that a resume is being generated, unless a run with
\* that label died or was answered with an error that its exit does not record.
GenerationEnds ==
    studio.status = "IN_PROGRESS" ~>
        \/ studio.status # "IN_PROGRESS"
        \/ \E r \in Runs : /\ Labelled(r)
                           /\ step[r] = "crashed" \/ answer[r] = "error"

\* The authority contract's "stale outputs must be suppressed when a newer attempt is
\* in progress": the resume a request is answered with again was composed from the
\* inputs of that request.
ReusedResumeIsOfItsInputs ==
    \A r \in Runs : reused[r] # NoBody => label[reused[r].run] = label[r]
=============================================================================
