-------------------------- MODULE StudioArtifactsProofs --------------------------
(***************************************************************************)
(* What the studio_artifacts row guarantees for any number of attempts,    *)
(* versions, analyses and lost attempts.  The writes have no guard, so the *)
(* argument is about single writes: each leaves a document whose columns   *)
(* agree with each other, whatever the columns were before.                *)
(***************************************************************************)
EXTENDS StudioArtifacts, TLAPS

\* An attempt that has begun knows its inputs and its analysis.
BegunInv ==
    \A a \in Attempts :
        attempt[a].pc # "idle" =>
            attempt[a].inputs \in Inputs /\ attempt[a].analysis \in Analyses

\* A resume that somebody generated or tried to is bound to an analysis.
BoundInv == resume.status # "MISSING" => resume.analysis \in Analyses

\* Once the pair is assessed, there is a latest assessment.
LatestInv == (\E an \in Analyses : assessment[an] # NoHash) => latest \in Analyses

IInv ==
    /\ TypeOK
    /\ LatestInv
    /\ BegunInv
    /\ BoundInv
    /\ CompletedMeansGenerated
    /\ InProgressHasAWorker

LEMMA InitIInv == Init => IInv
BY DEF Init, IInv, TypeOK, LatestInv, BegunInv, BoundInv, CompletedMeansGenerated,
       InProgressHasAWorker, NoDocument, Documents, Lifecycle, Kinds, AttemptStates

\* What an attempt leaves in the columns of its document: a well-formed document
\* that carries its label, and a body of its own if it says COMPLETED.
Written(a, d) ==
    /\ d \in Documents
    /\ d.status # "MISSING"
    /\ d.label = attempt[a].inputs
    /\ d.analysis = attempt[a].analysis
    /\ d.status = "COMPLETED" => d.body # NoBody /\ d.body.inputs = d.label

LEMMA InProgressWrites ==
  ASSUME TypeOK, BegunInv, NEW a \in Attempts, attempt[a].pc # "idle",
         NEW d \in Documents
  PROVE  /\ Written(a, InProgress(d, attempt[a].inputs, attempt[a].analysis))
         /\ InProgress(d, attempt[a].inputs, attempt[a].analysis).status = "IN_PROGRESS"
BY DEF Written, InProgress, Documents, Lifecycle, BegunInv

LEMMA FailureWrites ==
  ASSUME TypeOK, BegunInv, NEW a \in Attempts, attempt[a].pc # "idle",
         NEW d \in Documents
  PROVE  /\ Written(a, Failure(d, attempt[a].inputs, attempt[a].analysis))
         /\ Failure(d, attempt[a].inputs, attempt[a].analysis).status = "FAILED"
BY DEF Written, Failure, Documents, Lifecycle, BegunInv

LEMMA SuccessWrites ==
  ASSUME TypeOK, BegunInv, NEW a \in Attempts, attempt[a].pc # "idle",
         NEW d \in Documents, NEW good \in BOOLEAN
  PROVE  LET s == Success(d, attempt[a].inputs, attempt[a].analysis,
                          [inputs |-> attempt[a].inputs, good |-> good])
         IN  Written(a, s) /\ s.status = "COMPLETED"
<1>1. [inputs |-> attempt[a].inputs, good |-> good] \in Bodies
  BY DEF Bodies, BegunInv
<1> QED
  BY <1>1, NoBodyAssumption DEF Written, Success, Documents, Lifecycle, BegunInv

\* A write of attempt a, which stands at pc afterwards.
LEMMA WriteStep ==
  ASSUME IInv, NEW a \in Attempts, attempt[a].pc # "idle", attempt[a].pc # "lost",
         NEW newResume, NEW newLetter, Write(a, newResume, newLetter),
         attempt[a].kind = "resume" => Written(a, newResume),
         attempt[a].kind = "letter" => Written(a, newLetter),
         NEW pc \in AttemptStates, pc # "idle", Goto(a, pc),
         attempt[a].kind = "resume" /\ newResume.status = "IN_PROGRESS" => pc = "composing",
         attempt[a].kind = "letter" /\ newLetter.status = "IN_PROGRESS" => pc = "composing",
         UNCHANGED <<assessment, latest, faults>>
  PROVE  IInv'
<1> USE DEF IInv, TypeOK, Goto, Write
<1>1. TypeOK'
  BY DEF Written, Kinds
<1>2. BegunInv'
  BY DEF BegunInv
<1>3. BoundInv'
  BY DEF BoundInv, BegunInv, Written
<1>4. CompletedMeansGenerated'
  BY DEF CompletedMeansGenerated, Written, Kinds
<1>5. InProgressHasAWorker'
  <2>1. ASSUME NEW b \in Attempts, b # a PROVE attempt'[b] = attempt[b]
    BY <2>1
  <2>2. /\ attempt'[a].kind = attempt[a].kind
        /\ attempt'[a].inputs = attempt[a].inputs
        /\ attempt'[a].pc = pc
    OBVIOUS
  <2>3. resume'.status = "IN_PROGRESS" =>
            \E b \in Attempts : Unfinished(b, "resume", resume.label)'
    <3>1. CASE attempt[a].kind = "resume"
      BY <2>2, <3>1 DEF Written, Unfinished
    <3>2. CASE attempt[a].kind # "resume"
      BY <2>1, <3>2 DEF InProgressHasAWorker, Unfinished
    <3> QED BY <3>1, <3>2
  <2>4. letter'.status = "IN_PROGRESS" =>
            \E b \in Attempts : Unfinished(b, "letter", letter.label)'
    <3>1. CASE attempt[a].kind = "letter"
      BY <2>2, <3>1 DEF Written, Unfinished
    <3>2. CASE attempt[a].kind # "letter"
      BY <2>1, <3>2 DEF InProgressHasAWorker, Unfinished, Kinds
    <3> QED BY <3>1, <3>2
  <2> QED BY <2>3, <2>4 DEF InProgressHasAWorker
<1>6. LatestInv'
  BY DEF LatestInv
<1> QED BY <1>1, <1>2, <1>3, <1>4, <1>5, <1>6

\* A step that leaves the documents alone and no attempt unfinished less.
LEMMA OtherStep ==
  ASSUME IInv, UNCHANGED <<resume, letter>>, TypeOK', BegunInv', LatestInv',
         \A a \in Attempts : attempt[a].pc \in {"composing", "lost"} =>
             /\ attempt'[a].pc \in {"composing", "lost"}
             /\ attempt'[a].kind = attempt[a].kind
             /\ attempt'[a].inputs = attempt[a].inputs
  PROVE  IInv'
BY DEF IInv, BoundInv, CompletedMeansGenerated, InProgressHasAWorker, Unfinished

LEMMA StepIInv == IInv /\ [Next]_vars => IInv'
<1> SUFFICES ASSUME IInv, [Next]_vars PROVE IInv'
  OBVIOUS
<1>0. resume \in Documents /\ letter \in Documents /\ TypeOK /\ BegunInv
  BY DEF IInv, TypeOK
<1>1. ASSUME NEW a \in Attempts, NEW kind \in Kinds, NEW v \in Versions,
             NEW an \in Analyses, Begin(a, kind, v, an)
      PROVE  IInv'
  <2> DEFINE in == IF kind = "resume" THEN ResumeInputs(v, latest) ELSE LetterInputs(v)
  <2>1. latest \in Analyses
    BY <1>1 DEF Begin, IInv, LatestInv
  <2>2. in \in Inputs
    BY <1>0, <2>1 DEF Inputs, ResumeInputs, LetterInputs, TypeOK
  <2>3. attempt' = [attempt EXCEPT ![a] =
            [pc |-> "starting", kind |-> kind, analysis |-> an, inputs |-> in]]
    BY <1>1 DEF Begin
  <2> HIDE DEF in
  <2>4. TypeOK'
    BY <1>0, <1>1, <2>2, <2>3 DEF Begin, TypeOK, AttemptStates
  <2>5. BegunInv'
    BY <1>0, <2>2, <2>3 DEF TypeOK, BegunInv
  <2>6. attempt[a].pc = "idle" /\ UNCHANGED <<resume, letter>>
    BY <1>1 DEF Begin
  <2>7. LatestInv'
    BY <1>1 DEF Begin, IInv, LatestInv
  <2> QED BY <1>0, <2>3, <2>4, <2>5, <2>6, <2>7, OtherStep DEF TypeOK
<1>2. ASSUME NEW a \in Attempts, RecordInProgress(a) PROVE IInv'
  BY <1>0, <1>2, InProgressWrites, WriteStep DEF RecordInProgress, AttemptStates
<1>3. ASSUME NEW a \in Attempts, NEW good \in BOOLEAN, RecordSuccess(a, good) PROVE IInv'
  BY <1>0, <1>3, SuccessWrites, WriteStep DEF RecordSuccess, AttemptStates
<1>4. ASSUME NEW a \in Attempts, RecordFailure(a) PROVE IInv'
  BY <1>0, <1>4, FailureWrites, WriteStep DEF RecordFailure, AttemptStates
<1>5. ASSUME NEW a \in Attempts, Lose(a) PROVE IInv'
  <2>1. TypeOK' /\ BegunInv'
    BY <1>0, <1>5 DEF Lose, Goto, TypeOK, BegunInv, AttemptStates
  <2>2. LatestInv'
    BY <1>5 DEF Lose, IInv, LatestInv
  <2> QED BY <1>0, <1>5, <2>1, <2>2, OtherStep DEF Lose, Goto, TypeOK
<1>6. ASSUME NEW an \in Analyses, NEW h \in Hashes, Assess(an, h) PROVE IInv'
  <2>1. TypeOK' /\ BegunInv'
    BY <1>0, <1>6 DEF Assess, TypeOK, BegunInv
  <2>2. LatestInv'
    BY <1>6 DEF Assess, LatestInv
  <2> QED BY <1>6, <2>1, <2>2, OtherStep DEF Assess
<1>7. CASE UNCHANGED vars
  BY <1>7 DEF vars, IInv, TypeOK, LatestInv, BegunInv, BoundInv, CompletedMeansGenerated,
              InProgressHasAWorker, Unfinished
<1> QED BY <1>1, <1>2, <1>3, <1>4, <1>5, <1>6, <1>7 DEF Next

\* The invariant holds in every state that the program can reach.
THEOREM Invariance == Spec => []IInv
BY InitIInv, StepIInv, PTL DEF Spec

-----------------------------------------------------------------------------
(* The properties *)

\* The variables stay in their domains.
THEOREM TypeCorrect == Spec => []TypeOK
BY Invariance, PTL DEF IInv

\* A COMPLETED document has a body generated from the inputs on its label,
\* however many attempts with other inputs interleave.
THEOREM CompletedTruth == Spec => []CompletedMeansGenerated
BY Invariance, PTL DEF IInv

\* An IN_PROGRESS document has an attempt that has not ended.
THEOREM WorkerExists == Spec => []InProgressHasAWorker
BY Invariance, PTL DEF IInv

\* A letter that is usable for a reader was generated from the reader's inputs.
THEOREM LetterFreshness == Spec => []UsableLetterIsFresh
<1>1. IInv => UsableLetterIsFresh
  BY DEF IInv, CompletedMeansGenerated, UsableLetterIsFresh, LetterUsable,
         LetterCurrent, LetterInputs
<1> QED BY <1>1, Invariance, PTL

\* The verdict on the resume does not depend on the analysis the reader displays.
THEOREM Agreement == Spec => []ReadersAgree
<1>1. IInv => ReadersAgree
  BY NoAnalysisAssumption
     DEF IInv, BoundInv, ReadersAgree, ExpectedResume, CanonicalAnalysis
<1> QED BY <1>1, Invariance, PTL

\* A pair that is announced COMPLETED has a usable resume and a usable letter.
THEOREM PairTruth == Spec => []CompletedPairIsUsable
<1>1. IInv => CompletedPairIsUsable
  BY DEF IInv, CompletedMeansGenerated, CompletedPairIsUsable, ShownPairStatus,
         PairStatus, ResumeStatus, ResumeUsable, ResumeCurrent, GoodBody,
         LetterUsable, LetterCurrent
<1> QED BY <1>1, Invariance, PTL
=============================================================================
