---------------------------- MODULE StudioArtifacts ----------------------------
(***************************************************************************)
(* The generations that write one studio_artifacts row, and its readers.   *)
(* Resume and cover letter attempts of any number of requests run side by  *)
(* side; each fixes its inputs when it starts and writes the row once or   *)
(* twice later on, with no check that the row is still as it left it.      *)
(* Meanwhile the pair is assessed again: a new fit assessment is created,  *)
(* or the latest is rewritten in place with a new inputs hash.  A reader   *)
(* brings the baseline version and the analysis it displays.               *)
(***************************************************************************)
EXTENDS Naturals, StudioArtifactRow

CONSTANTS
    Attempts,    \* the generation requests
    Versions,    \* the baseline version hashes, each with the job fingerprint
    Analyses,    \* the ids of the fit assessments
    Hashes,      \* the inputs hashes an assessment row can have
    NoHash,      \* no assessment; the assessment part of a letter's inputs
    MaxFaults    \* bound: attempts that stop without recording a failure

ASSUME NoAnalysisAssumption == NoAnalysis \notin Analyses
ASSUME FaultsAssumption == MaxFaults \in Nat

VARIABLES
    resume,      \* the resume columns of the row
    letter,      \* the cover letter columns of the row
    assessment,  \* assessment[an]: the inputsHash of fit assessment an, or NoHash
    latest,      \* the fit assessment of the pair created last, or NoAnalysis
    attempt,     \* attempt[a]: what request a generates, from what, and where it is
    faults       \* attempts that stopped without a trace

vars == <<resume, letter, assessment, latest, attempt, faults>>

Inputs == [version : Versions, hash : Hashes \cup {NoHash}]
Bodies == [inputs : Inputs, good : BOOLEAN]
ASSUME NoBodyAssumption == NoBody \notin Bodies
Documents == [status : Lifecycle, label : Inputs \cup {NoInputs},
              analysis : Analyses \cup {NoAnalysis}, body : Bodies \cup {NoBody}]
Kinds == {"resume", "letter"}
AttemptStates == {"idle", "starting", "composing", "ended", "lost"}

\* computeResumeInputsHash and computeCoverLetterInputsHash: hashes of these.
ResumeInputs(v, an) == [version |-> v, hash |-> assessment[an]]
LetterInputs(v) == [version |-> v, hash |-> NoHash]

Init ==
    /\ resume = NoDocument
    /\ letter = NoDocument
    /\ assessment = [an \in Analyses |-> NoHash]
    /\ latest = NoAnalysis
    /\ attempt = [a \in Attempts |-> [pc |-> "idle", kind |-> "letter",
                                      inputs |-> NoInputs, analysis |-> NoAnalysis]]
    /\ faults = 0

-----------------------------------------------------------------------------
(* The attempts *)

\* Only the columns of a's document are in its patch.
Write(a, newResume, newLetter) ==
    IF attempt[a].kind = "resume" THEN resume' = newResume /\ UNCHANGED letter
                                  ELSE letter' = newLetter /\ UNCHANGED resume

Goto(a, pc) == attempt' = [attempt EXCEPT ![a].pc = pc]

\* The request names an analysis of the pair, or the latest by default.  A resume
\* is labelled with the inputs of the latest assessment, whichever it names.
Begin(a, kind, v, an) ==
    /\ attempt[a].pc = "idle" /\ assessment[an] # NoHash
    /\ attempt' = [attempt EXCEPT ![a] =
          [pc |-> "starting", kind |-> kind, analysis |-> an,
           inputs |-> IF kind = "resume" THEN ResumeInputs(v, latest) ELSE LetterInputs(v)]]
    /\ UNCHANGED <<resume, letter, assessment, latest, faults>>

RecordInProgress(a) ==
    /\ attempt[a].pc = "starting"
    /\ Write(a, InProgress(resume, attempt[a].inputs, attempt[a].analysis),
                InProgress(letter, attempt[a].inputs, attempt[a].analysis))
    /\ Goto(a, "composing")
    /\ UNCHANGED <<assessment, latest, faults>>

\* The evidence contract refuses some bodies: that is a RecordFailure.  The fail-safe
\* of generateResume may record a draft of an attempt that was never IN_PROGRESS.
RecordSuccess(a, good) ==
    /\ \/ attempt[a].pc = "composing"
       \/ attempt[a].pc = "starting" /\ attempt[a].kind = "resume"
    /\ LET body == [inputs |-> attempt[a].inputs, good |-> good]
       IN  Write(a, Success(resume, attempt[a].inputs, attempt[a].analysis, body),
                    Success(letter, attempt[a].inputs, attempt[a].analysis, body))
    /\ Goto(a, "ended")
    /\ UNCHANGED <<assessment, latest, faults>>

RecordFailure_Swallowed(a) ==       \* mutant: the failure is logged, not written
    /\ attempt[a].pc = "composing"
    /\ Goto(a, "ended")
    /\ UNCHANGED <<resume, letter, assessment, latest, faults>>

\* The failure is recorded by a detached call: it may land long after the answer.
\* generateResume also records what fails before the attempt is IN_PROGRESS.
RecordFailure(a) ==
    /\ \/ attempt[a].pc = "composing"
       \/ attempt[a].pc = "starting" /\ attempt[a].kind = "resume"
    /\ Write(a, Failure(resume, attempt[a].inputs, attempt[a].analysis),
                Failure(letter, attempt[a].inputs, attempt[a].analysis))
    /\ Goto(a, "ended")
    /\ UNCHANGED <<assessment, latest, faults>>

\* The process dies, the write fails, or generateResume throws past the recording.
Lose(a) ==
    /\ attempt[a].pc \in {"starting", "composing"}
    /\ faults < MaxFaults
    /\ faults' = faults + 1
    /\ Goto(a, "lost")
    /\ UNCHANGED <<resume, letter, assessment, latest>>

\* runFitAssessment saves over the assessment its baseline points to, if that is
\* one of this pair, and creates one otherwise.  The unique index on the inputs
\* hash keeps two assessments of the pair from having the same one.
Assess(an, h) ==
    /\ an = latest \/ assessment[an] = NoHash
    /\ \A other \in Analyses : assessment[other] # h
    /\ assessment' = [assessment EXCEPT ![an] = h]
    /\ latest' = an
    /\ UNCHANGED <<resume, letter, attempt, faults>>

Next ==
    \/ \E a \in Attempts :
          \/ \E kind \in Kinds, v \in Versions, an \in Analyses : Begin(a, kind, v, an)
          \/ RecordInProgress(a)
          \/ \E good \in BOOLEAN : RecordSuccess(a, good)
          \/ RecordFailure(a)
          \/ Lose(a)
    \/ \E an \in Analyses, h \in Hashes : Assess(an, h)

Spec == Init /\ [][Next]_vars

\* An attempt that is under way runs on; nobody is made to start one.
AttemptStep(a) ==
    \/ RecordInProgress(a)
    \/ \E good \in BOOLEAN : RecordSuccess(a, good)
    \/ RecordFailure(a)
FairSpec == Spec /\ \A a \in Attempts : WF_vars(AttemptStep(a))

-----------------------------------------------------------------------------
(* What a reader with version v and analysis an is shown *)

CanonicalAnalysis_Requested(an) == an       \* mutant: the reader's analysis decides

\* resolveCanonicalResumeAssessment: the analysis of the row wins.
CanonicalAnalysis(an) == IF resume.analysis # NoAnalysis THEN resume.analysis ELSE an
ExpectedResume(v, an) == ResumeInputs(v, CanonicalAnalysis(an))

ShownPairStatus(v, an) ==
    PairStatus(resume, letter, ExpectedResume(v, an), LetterInputs(v))

-----------------------------------------------------------------------------
(* Properties *)

\* Every variable stays in its domain.
TypeOK ==
    /\ resume \in Documents
    /\ letter \in Documents
    /\ assessment \in [Analyses -> Hashes \cup {NoHash}]
    /\ latest \in Analyses \cup {NoAnalysis}
    /\ attempt \in [Attempts -> [pc : AttemptStates, kind : Kinds,
                                 inputs : Inputs \cup {NoInputs},
                                 analysis : Analyses \cup {NoAnalysis}]]
    /\ faults \in Nat

\* However the attempts interleave, a document whose status is COMPLETED carries
\* a body that was generated from the very inputs it is labelled with.
CompletedMeansGenerated ==
    \A d \in {resume, letter} :
        d.status = "COMPLETED" => d.body # NoBody /\ d.body.inputs = d.label

\* A letter is handed out as usable only to readers of the baseline version and
\* job it was written for.
UsableLetterIsFresh ==
    \A v \in Versions :
        LetterUsable(letter, LetterInputs(v)) => letter.body.inputs.version = v

\* A document that is IN_PROGRESS is worked on, or was lost with its worker, by
\* an attempt with the inputs on its label: no attempt's end leaves the column
\* saying that a finished attempt is still running.
Unfinished(a, kind, inputs) ==
    /\ attempt[a].pc \in {"composing", "lost"}
    /\ attempt[a].kind = kind
    /\ attempt[a].inputs = inputs
InProgressHasAWorker ==
    /\ resume.status = "IN_PROGRESS" =>
          \E a \in Attempts : Unfinished(a, "resume", resume.label)
    /\ letter.status = "IN_PROGRESS" =>
          \E a \in Attempts : Unfinished(a, "letter", letter.label)

\* Two readers of one version are told the same of the resume, whatever analysis
\* each displays: the row's own analysis decides.
ReadersAgree ==
    resume.status # "MISSING" =>
        \A v \in Versions, an1, an2 \in Analyses :
            ResumeExportReady(resume, ExpectedResume(v, an1))
                <=> ResumeExportReady(resume, ExpectedResume(v, an2))

\* A pair that is announced COMPLETED has two usable documents behind it.
CompletedPairIsUsable ==
    \A v \in Versions, an \in Analyses :
        ShownPairStatus(v, an) = "COMPLETED" =>
            /\ ResumeUsable(resume, ExpectedResume(v, an))
            /\ LetterUsable(letter, LetterInputs(v))

\* A document that is IN_PROGRESS stays so only if an attempt with its label was
\* lost: a lost attempt for other inputs does not block it.
Lost(kind, inputs) ==
    \E a \in Attempts : /\ attempt[a].pc = "lost" /\ attempt[a].kind = kind
                        /\ attempt[a].inputs = inputs
GenerationEnds ==
    /\ resume.status = "IN_PROGRESS"
          ~> resume.status # "IN_PROGRESS" \/ Lost("resume", resume.label)
    /\ letter.status = "IN_PROGRESS"
          ~> letter.status # "IN_PROGRESS" \/ Lost("letter", letter.label)
=============================================================================
