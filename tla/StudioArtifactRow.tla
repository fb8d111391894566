--------------------------- MODULE StudioArtifactRow ---------------------------
(***************************************************************************)
(* One row of studio_artifacts, the table Studio reads its documents from  *)
(* (studio-artifacts/studio-artifacts.service.ts): how a generation writes *)
(* its document's columns, and what readState makes of them.  A row holds  *)
(* a resume and a cover letter for one user, baseline and job; each has a  *)
(* status, the hash of the inputs it is labelled with (inputsHash), the    *)
(* analysis it was asked for (metadata.analysisId) and a response body.    *)
(* A record* call is one upsert: INSERT ... ON CONFLICT DO NOTHING, and an *)
(* unconditional UPDATE of the given columns when the row exists.          *)
(*                                                                         *)
(* A body is abstracted to the inputs it was generated from and whether it *)
(* is good: for a resume, not minimal and with a renderable preview; for a *)
(* cover letter, past its quality gate and with a preview.  Resumes come   *)
(* from the structured template, so staleLegacy is never set.              *)
(***************************************************************************)
CONSTANTS NoInputs, NoAnalysis, NoBody

Lifecycle == {"MISSING", "IN_PROGRESS", "COMPLETED", "FAILED"}

\* The columns of a document nobody has generated; an absent row is the same.
NoDocument ==
    [status |-> "MISSING", label |-> NoInputs, analysis |-> NoAnalysis, body |-> NoBody]

-----------------------------------------------------------------------------
(* Writes: the new columns of document d *)

InProgress_WebStatus(d, inputs, analysis) ==    \* mutant: the web client's word
    [status |-> "generating", label |-> inputs, analysis |-> analysis, body |-> d.body]

\* recordResumeInProgress, recordCoverLetterInProgress: the old body stays.
InProgress(d, inputs, analysis) ==
    [status |-> "IN_PROGRESS", label |-> inputs, analysis |-> analysis, body |-> d.body]

Success_KeepsLabel(d, inputs, analysis, body) ==  \* mutant: no inputsHash in the patch
    [status |-> "COMPLETED", label |-> d.label, analysis |-> analysis, body |-> body]

\* recordResumeSuccess, recordCoverLetterSuccess.
Success(d, inputs, analysis, body) ==
    [status |-> "COMPLETED", label |-> inputs, analysis |-> analysis, body |-> body]

Failure_DropsBody(d, inputs, analysis) ==       \* mutant: the body is reset
    [status |-> "FAILED", label |-> inputs, analysis |-> analysis, body |-> NoBody]

\* recordResumeFailure, recordCoverLetterFailure: the old body stays.
Failure(d, inputs, analysis) ==
    [status |-> "FAILED", label |-> inputs, analysis |-> analysis, body |-> d.body]

-----------------------------------------------------------------------------
(* Reads: buildArtifactRecord, resolvePairStatus and the results of readState *)

GoodBody(d) == d.body # NoBody /\ d.body.good

\* artifactCurrent; a resume body that is not good counts as minimal.
ResumeCurrent(d, expected) ==
    d.status # "MISSING" /\ d.label = expected /\ (d.body # NoBody => d.body.good)
LetterCurrent(d, expected) == d.status # "MISSING" /\ d.label = expected

\* usableCurrent: a resume is judged by its label and body, whatever its status.
ResumeUsable(d, expected) == ResumeCurrent(d, expected) /\ GoodBody(d)
LetterUsable_AnyStatus(d, expected) ==      \* mutant: judged like a resume
    d.body # NoBody /\ LetterCurrent(d, expected)
LetterUsable(d, expected) ==
    d.status = "COMPLETED" /\ d.body # NoBody /\ LetterCurrent(d, expected)

\* The status buildArtifactRecord reports; a letter's is the column's.
ResumeStatus(d, expected) ==
    IF ResumeUsable(d, expected) THEN "COMPLETED" ELSE d.status

PairStatus_AnyInputs(resume, letter, resumeInputs, letterInputs) ==
    IF resume.status = "COMPLETED" /\ letter.status = "COMPLETED"
    THEN "COMPLETED" ELSE "MISSING"         \* mutant: the inputs are not compared

PairStatus(resume, letter, resumeInputs, letterInputs) ==
    LET rs == IF ResumeCurrent(resume, resumeInputs)
              THEN ResumeStatus(resume, resumeInputs) ELSE "MISSING"
        ls == IF LetterCurrent(letter, letterInputs) THEN letter.status ELSE "MISSING"
    IN  IF rs = "COMPLETED" /\ ls = "COMPLETED" THEN "COMPLETED"
        ELSE IF "IN_PROGRESS" \in {rs, ls} THEN "IN_PROGRESS"
        ELSE IF "FAILED" \in {rs, ls} THEN "FAILED" ELSE "MISSING"

\* exportReady of the resume result, once resumeExportEligible has had its say.
ResumeExportReady(d, expected) ==
    ResumeCurrent(d, expected) /\ ResumeStatus(d, expected) = "COMPLETED" /\ GoodBody(d)
=============================================================================
