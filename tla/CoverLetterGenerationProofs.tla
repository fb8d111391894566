----------------------- MODULE CoverLetterGenerationProofs -----------------------
(***************************************************************************)
(* What generateCoverLetter guarantees for any number of requests,         *)
(* versions, templates and upsets: Studio tells the truth of the letter,   *)
(* and the handlers call the reservations as WorkflowIdempotency allows,   *)
(* so that what is proved there holds of them.  Studio's writes have no    *)
(* guard; the argument follows the runs, which answer once and keep their  *)
(* inputs, and not the row.  The letters of the pair and the table of      *)
(* reservations have invariants of their own, further down.                *)
(***************************************************************************)
EXTENDS CoverLetterGeneration, SequenceTheorems, TLAPS

\* A run that has not begun has done nothing, one that has no answer yet has no
\* failure to land, and one that records its letter has a row of cover_letters.
RunInv ==
    \A r \in Runs :
        /\ step[r] = "idle" => letterOf[r] = NoRun
        /\ step[r] # "idle" => request[r] \in Requests
        /\ answer[r] # "none" => step[r] \in {"failing", "ended", "crashed"}
        /\ pending[r] # {} => step[r] = "failing" /\ answer[r] \in Refusals
        /\ step[r] \in {"overwriting", "recording", "completing"} => letterOf[r] # NoRun

\* The run that Studio shows IN_PROGRESS has not recorded a success since.
Writing == {"checking", "saving", "resolving", "overwriting", "recording", "crashed"}
WriterInv ==
    studio.status = "IN_PROGRESS" =>
        \E r \in Runs : /\ step[r] \in Writing \/ "artifact" \in pending[r]
                        /\ step[r] # "idle" /\ Version(r) = studio.label

IInv == TypeOK /\ RunInv /\ WriterInv /\ StudioTellsTheTruth

LEMMA InitIInv == Init => IInv
BY DEF Init, IInv, TypeOK, RunInv, WriterInv, StudioTellsTheTruth, NoDocument,
       Lifecycle, Steps, Answers, NoRequest

\* A step of run r that leaves Studio and the letters alone: r moves on to next,
\* keeps its inputs and may be answered, but a run that Studio waits for goes on.
LEMMA Quiet ==
  ASSUME IInv, NEW r \in Runs, NEW next \in Steps,
         step' = [step EXCEPT ![r] = next],
         step[r] # "idle", next # "idle",
         NEW ans \in Answers, answer' = [answer EXCEPT ![r] = ans],
         NEW calls \in SUBSET {"artifact", "row"}, pending' = [pending EXCEPT ![r] = calls],
         NEW l \in Runs \cup {NoRun}, letterOf' = [letterOf EXCEPT ![r] = l],
         letterOf[r] # NoRun => l # NoRun,
         next \in {"overwriting", "recording", "completing"} => l # NoRun,
         ans # "none" => next \in {"failing", "ended", "crashed"},
         answer[r] \in Refusals => ans \in Refusals,
         calls # {} => next = "failing" /\ ans \in Refusals,
         step[r] \in Writing \/ "artifact" \in pending[r]
            => next \in Writing \/ "artifact" \in calls,
         letters' \in Seq([id : Runs, inputs : Versions \X Templates]),
         upsets' \in Nat,
         UNCHANGED <<request, studio>>
  PROVE  IInv'
<1> USE DEF IInv, TypeOK
<1>1. TypeOK'
  OBVIOUS
<1>2. RunInv'
  BY DEF RunInv
<1>3. WriterInv'
  <2> SUFFICES ASSUME studio'.status = "IN_PROGRESS" PROVE WriterInv'
    BY DEF WriterInv
  <2>1. PICK w \in Runs : /\ step[w] \in Writing \/ "artifact" \in pending[w]
                          /\ step[w] # "idle" /\ Version(w) = studio.label
    BY DEF WriterInv
  <2>2. /\ step'[w] \in Writing \/ "artifact" \in pending'[w]
        /\ step'[w] # "idle" /\ Version(w)' = studio'.label
    BY <2>1 DEF Version
  <2> QED
    BY <2>2 DEF WriterInv
<1>4. StudioTellsTheTruth'
  <2>1. ASSUME studio'.status = "COMPLETED"
        PROVE  /\ studio'.body \in Runs /\ letterOf'[studio'.body] # NoRun
               /\ Version(studio.body)' = studio'.label
    BY <2>1 DEF StudioTellsTheTruth, Version
  <2>2. ASSUME studio'.status = "FAILED"
        PROVE  \E s \in Runs : answer'[s] \in Refusals /\ Version(s)' = studio'.label
    BY <2>2 DEF StudioTellsTheTruth, Version
  <2>3. ASSUME studio'.status = "IN_PROGRESS"
        PROVE  \E s \in Runs : /\ Unfinished(s)' \/ "artifact" \in pending'[s]
                               /\ step'[s] # "idle" /\ Version(s)' = studio'.label
    BY <2>3, <1>3 DEF WriterInv, Writing, Unfinished, Working
  <2> QED
    BY <2>1, <2>2, <2>3 DEF StudioTellsTheTruth
<1> QED
  BY <1>1, <1>2, <1>3, <1>4

\* A step of run r that writes Studio's columns for its own inputs.
LEMMA StudioWrite ==
  ASSUME IInv, NEW r \in Runs, NEW next \in Steps,
         step[r] # "idle", next # "idle",
         step' = [step EXCEPT ![r] = next],
         NEW calls \in SUBSET {"artifact", "row"}, pending' = [pending EXCEPT ![r] = calls],
         answer[r] # "none" => next \in {"failing", "ended", "crashed"},
         next \in {"overwriting", "recording", "completing"} => letterOf[r] # NoRun,
         calls # {} => next = "failing" /\ answer[r] \in Refusals,
         NEW st \in {"IN_PROGRESS", "COMPLETED", "FAILED"}, NEW b \in Runs \cup {NoBody},
         studio' = [status |-> st, label |-> Version(r), analysis |-> NoAnalysis, body |-> b],
         st = "IN_PROGRESS" => next \in Writing,
         st = "COMPLETED" => b = r /\ letterOf[r] # NoRun,
         st = "FAILED" => answer[r] \in Refusals,
         UNCHANGED <<request, letters, letterOf, answer, upsets>>
  PROVE  IInv'
<1> USE DEF IInv, TypeOK
<1>1. Version(r) \in Versions /\ Version(r)' = Version(r)
  BY DEF RunInv, Version, Requests
<1>2. TypeOK'
  BY <1>1 DEF Lifecycle
<1>3. RunInv'
  BY DEF RunInv
<1>4. WriterInv'
  BY <1>1 DEF WriterInv
<1>5. StudioTellsTheTruth'
  BY <1>1 DEF StudioTellsTheTruth, Unfinished, Writing, Working
<1> QED
  BY <1>2, <1>3, <1>4, <1>5

LEMMA BeginStep ==
  ASSUME IInv, NEW r \in Runs, NEW req \in Requests, Begin(r, req)
  PROVE  IInv'
<1> USE DEF IInv, TypeOK
<1>1. PICK next \in {"starting", "reserving"} : step' = [step EXCEPT ![r] = next]
  BY DEF Begin
<1>2. /\ step[r] = "idle" /\ request' = [request EXCEPT ![r] = req]
      /\ UNCHANGED <<letters, letterOf, studio, answer, pending, upsets>>
  BY DEF Begin
<1>3. TypeOK'
  BY <1>1, <1>2 DEF Steps
<1>4. RunInv'
  BY <1>1, <1>2 DEF RunInv
<1>5. WriterInv'
  BY <1>1, <1>2 DEF WriterInv, Writing, Version, RunInv
<1>6. StudioTellsTheTruth'
  BY <1>1, <1>2 DEF StudioTellsTheTruth, RunInv, Version, Unfinished, Working, Refusals
<1> QED
  BY <1>3, <1>4, <1>5, <1>6

\* The catch block is a quiet step.
LEMMA FailStep ==
  ASSUME IInv, NEW r \in Runs, step[r] \in Working, NEW ans \in Refusals, Fail(r, ans),
         upsets' \in Nat
  PROVE  IInv'
<1>1. answer[r] = "none" /\ letterOf[r] \in Runs \cup {NoRun}
  BY DEF IInv, RunInv, TypeOK, Working
<1>2. PICK calls \in SUBSET {"artifact", "row"} :
         "artifact" \in calls /\ pending' = [pending EXCEPT ![r] = calls]
  BY DEF Fail
<1>3. letterOf' = [letterOf EXCEPT ![r] = letterOf[r]]
  BY DEF Fail, IInv, TypeOK
<1>4. /\ step' = [step EXCEPT ![r] = "failing"]
      /\ answer' = [answer EXCEPT ![r] = ans]
      /\ letters' \in Seq([id : Runs, inputs : Versions \X Templates])
      /\ UNCHANGED <<request, studio>>
  BY DEF Fail, IInv, TypeOK
<1>5. "failing" \in Steps /\ ans \in Answers /\ step[r] # "idle" /\ ans # "none"
  BY DEF Steps, Answers, Refusals, Working
<1> QED
  BY <1>1, <1>2, <1>3, <1>4, <1>5, Quiet

\* A step of r that only moves r on, to next: Proceed, with the letters as said.
LEMMA ProceedStep ==
  ASSUME IInv, NEW r \in Runs, step[r] \in Working, step[r] # "completing",
         NEW next \in Writing, Proceed(r, next), UNCHANGED studio,
         letters' \in Seq([id : Runs, inputs : Versions \X Templates]),
         NEW l \in Runs \cup {NoRun}, letterOf' = [letterOf EXCEPT ![r] = l],
         letterOf[r] # NoRun => l # NoRun,
         next \in {"overwriting", "recording"} => l # NoRun
  PROVE  IInv'
<1>1. /\ answer[r] = "none" /\ answer[r] \in Answers
      /\ pending[r] \in SUBSET {"artifact", "row"} /\ pending[r] = {}
  BY DEF IInv, RunInv, TypeOK, Working
<1>2. /\ step' = [step EXCEPT ![r] = next]
      /\ answer' = [answer EXCEPT ![r] = answer[r]]
      /\ pending' = [pending EXCEPT ![r] = pending[r]]
      /\ upsets' \in Nat /\ UNCHANGED <<request, studio>>
  BY DEF Proceed, IInv, TypeOK
<1>3. next \in Steps /\ step[r] # "idle" /\ next \notin {"idle", "completing"}
  BY DEF Steps, Working, Writing
<1>4. "none" \notin Refusals
  BY DEF Refusals
<1> HIDE DEF Writing, Working
<1> QED
  BY <1>1, <1>2, <1>3, <1>4, Quiet

\* A step of r outside the work: r keeps its letter, and its answer if it has one.
LEMMA AsideStep ==
  ASSUME IInv, NEW r \in Runs, NEW next \in Steps \ {"idle"},
         step[r] # "idle", step' = [step EXCEPT ![r] = next],
         next \in {"overwriting", "recording", "completing"} => letterOf[r] # NoRun,
         NEW ans \in Answers, answer' = [answer EXCEPT ![r] = ans],
         ans # "none" => next \in {"failing", "ended", "crashed"},
         answer[r] \in Refusals => ans \in Refusals,
         NEW calls \in SUBSET {"artifact", "row"}, pending' = [pending EXCEPT ![r] = calls],
         calls # {} => next = "failing" /\ ans \in Refusals,
         step[r] \in Writing \/ "artifact" \in pending[r]
            => next \in Writing \/ "artifact" \in calls,
         upsets' \in Nat, UNCHANGED <<request, letters, letterOf, studio>>
  PROVE  IInv'
<1>1. /\ letterOf[r] \in Runs \cup {NoRun}
      /\ letterOf' = [letterOf EXCEPT ![r] = letterOf[r]]
      /\ letters' \in Seq([id : Runs, inputs : Versions \X Templates])
  BY DEF IInv, TypeOK
<1> QED
  BY <1>1, Quiet

LEMMA ReserveSteps ==
  ASSUME IInv, NEW r \in Runs, ReserveStep(r) \/ ReserveAgain(r) \/ TurnAway(r)
  PROVE  IInv'
<1>1. /\ step[r] = "reserving" /\ answer[r] = "none" /\ pending[r] = {}
      /\ pending[r] \in SUBSET {"artifact", "row"} /\ upsets' \in Nat
      /\ pending' = [pending EXCEPT ![r] = pending[r]]
      /\ UNCHANGED <<request, letters, letterOf, studio>>
  BY DEF ReserveStep, ReserveAgain, TurnAway, IInv, TypeOK, RunInv, letterVars
<1>2. PICK next \in {"reserving", "starting", "ended"}, ans \in {"none", "in_flight"} :
         /\ step' = [step EXCEPT ![r] = next]
         /\ answer' = [answer EXCEPT ![r] = ans]
         /\ ans # "none" => next = "ended"
  <2>1. CASE ReserveStep(r)
    BY <2>1, <1>1 DEF ReserveStep, IInv, TypeOK
  <2>2. CASE ReserveAgain(r)
    BY <2>2, <1>1 DEF ReserveAgain, letterVars, IInv, TypeOK
  <2>3. CASE TurnAway(r)
    BY <2>3 DEF TurnAway
  <2> QED
    BY <2>1, <2>2, <2>3
<1>3. next \in Steps \ {"idle"} /\ ans \in Answers /\ "none" \notin Refusals
      /\ step[r] \notin Writing
  BY <1>1 DEF Steps, Answers, Refusals, Writing
<1> QED
  BY <1>1, <1>2, <1>3, AsideStep

LEMMA RecordInProgressStep ==
  ASSUME IInv, NEW r \in Runs, RecordInProgress(r)
  PROVE  IInv'
<1>1. PICK next \in {"saving", "checking"} : step' = [step EXCEPT ![r] = next]
  BY DEF RecordInProgress, Proceed
<1>2. /\ step[r] = "starting" /\ answer[r] = "none" /\ pending[r] = {}
      /\ pending[r] \in SUBSET {"artifact", "row"}
      /\ pending' = [pending EXCEPT ![r] = pending[r]]
      /\ UNCHANGED <<request, letters, letterOf, answer, upsets>>
  BY DEF RecordInProgress, Proceed, IInv, RunInv, TypeOK
<1>3. /\ studio.body \in Runs \cup {NoBody}
      /\ studio' = [status |-> "IN_PROGRESS", label |-> Version(r),
                    analysis |-> NoAnalysis, body |-> studio.body]
  BY DEF RecordInProgress, InProgress, IInv, TypeOK
<1>4. next \in Steps /\ next \in Writing
  BY DEF Steps, Writing
<1> QED
  BY <1>1, <1>2, <1>3, <1>4, StudioWrite

LEMMA RecordSuccessStep ==
  ASSUME IInv, NEW r \in Runs, RecordSuccess(r)
  PROVE  IInv'
<1>1. step[r] = "recording" /\ step' = [step EXCEPT ![r] = "completing"]
  BY DEF RecordSuccess, Proceed
<1>2. /\ answer[r] = "none" /\ pending[r] = {} /\ letterOf[r] # NoRun
      /\ pending[r] \in SUBSET {"artifact", "row"}
      /\ pending' = [pending EXCEPT ![r] = pending[r]]
      /\ UNCHANGED <<request, letters, letterOf, answer, upsets>>
  BY <1>1 DEF RecordSuccess, Proceed, IInv, RunInv, TypeOK
<1>3. studio' = [status |-> "COMPLETED", label |-> Version(r),
                 analysis |-> NoAnalysis, body |-> r]
  BY DEF RecordSuccess, Success
<1>4. "completing" \in Steps
  BY DEF Steps
<1> QED
  BY <1>1, <1>2, <1>3, <1>4, StudioWrite

\* A failure that lands may be the last of its run's, which then ends.
LEMMA LandSteps ==
  ASSUME IInv, NEW r \in Runs, LandArtifactFailure(r) \/ LandRowFailure(r)
  PROVE  IInv'
<1>1. CASE LandArtifactFailure(r)
  <2>1. /\ step[r] = "failing" /\ answer[r] \in Refusals /\ step[r] # "idle"
        /\ UNCHANGED <<request, letters, letterOf, answer, upsets>>
    BY <1>1 DEF LandArtifactFailure, Land, IInv, RunInv
  <2>2. /\ pending' = [pending EXCEPT ![r] = pending[r] \ {"artifact"}]
        /\ pending[r] \ {"artifact"} \in SUBSET {"artifact", "row"}
    BY <1>1 DEF LandArtifactFailure, Land, IInv, TypeOK
  <2>3. PICK next \in {"failing", "ended"} :
           /\ step' = [step EXCEPT ![r] = next]
           /\ pending[r] \ {"artifact"} # {} => next = "failing"
    <3>1. CASE pending[r] \ {"artifact"} = {}
      BY <3>1, <1>1, <2>2 DEF LandArtifactFailure, Land, IInv, TypeOK
    <3>2. CASE pending[r] \ {"artifact"} # {}
      BY <3>2, <1>1, <2>1, <2>2 DEF LandArtifactFailure, Land, IInv, TypeOK
    <3> QED
      BY <3>1, <3>2
  <2>4. /\ studio.body \in Runs \cup {NoBody}
        /\ studio' = [status |-> "FAILED", label |-> Version(r),
                      analysis |-> NoAnalysis, body |-> studio.body]
    BY <1>1 DEF LandArtifactFailure, Failure, IInv, TypeOK
  <2>5. next \in Steps
    BY DEF Steps
  <2> QED
    BY <2>1, <2>2, <2>3, <2>4, <2>5, StudioWrite
<1>2. CASE LandRowFailure(r)
  <2>1. /\ step[r] = "failing" /\ answer[r] \in Refusals
        /\ UNCHANGED <<request, letters, letterOf, studio>> /\ upsets' \in Nat
    BY <1>2 DEF LandRowFailure, Land, IInv, TypeOK, RunInv
  <2>2. /\ pending' = [pending EXCEPT ![r] = pending[r] \ {"row"}]
        /\ pending[r] \ {"row"} \in SUBSET {"artifact", "row"}
        /\ answer[r] \in Answers /\ answer' = [answer EXCEPT ![r] = answer[r]]
    BY <1>2 DEF LandRowFailure, Land, IInv, TypeOK
  <2>3. PICK next \in {"failing", "ended"} :
           /\ step' = [step EXCEPT ![r] = next]
           /\ pending[r] \ {"row"} # {} => next = "failing"
    <3>1. CASE pending[r] \ {"row"} = {}
      BY <3>1, <1>2, <2>2 DEF LandRowFailure, Land, IInv, TypeOK
    <3>2. CASE pending[r] \ {"row"} # {}
      BY <3>2, <1>2, <2>1, <2>2 DEF LandRowFailure, Land, IInv, TypeOK
    <3> QED
      BY <3>1, <3>2
  <2>4. next \in Steps \ {"idle"} /\ step[r] \notin Writing
    BY <2>1 DEF Steps, Writing
  <2> QED
    BY <2>1, <2>2, <2>3, <2>4, AsideStep
<1> QED
  BY <1>1, <1>2

\* What the handlers do to the sequence of letters keeps it one.
LEMMA LastElement ==
  ASSUME NEW S, NEW s \in Seq(S), s # <<>>
  PROVE  s[Len(s)] \in S
<1>1. Len(s) \in Nat /\ Len(s) # 0
  BY EmptySeq
<1> QED
  BY <1>1, ElementOfSeq

LEMMA Overwritten ==
  ASSUME NEW S, NEW s \in Seq(S), NEW e \in S, NEW others
  PROVE  [i \in 1..Len(s) |-> IF i \in others THEN s[i] ELSE e] \in Seq(S)
<1>1. Len(s) \in Nat /\ \A i \in 1..Len(s) : s[i] \in S
  BY ElementOfSeq
<1> DEFINE t == [i \in 1..Len(s) |-> IF i \in others THEN s[i] ELSE e]
<1>2. t \in [1..Len(s) -> S]
  BY <1>1
<1> QED
  BY <1>1, <1>2, SeqDef

LEMMA Removed ==
  ASSUME NEW S, NEW s \in Seq(S), NEW i \in 1..Len(s)
  PROVE  SubSeq(s, 1, i - 1) \o SubSeq(s, i + 1, Len(s)) \in Seq(S)
<1>1. Len(s) \in Nat /\ \A j \in 1..Len(s) : s[j] \in S
  BY ElementOfSeq
<1>2. SubSeq(s, 1, i - 1) \in Seq(S)
  BY <1>1
<1>3. SubSeq(s, i + 1, Len(s)) \in Seq(S)
  BY <1>1
<1> QED
  BY <1>2, <1>3

LetterRows == [id : Runs, inputs : Versions \X Templates]

\* The inputs of a run that has begun are those of a row of cover_letters.
LEMMA BaseKeyType ==
  ASSUME IInv, NEW r \in Runs, step[r] # "idle"
  PROVE  BaseKey(request[r]) \in Versions \X Templates
BY DEF IInv, RunInv, Requests, BaseKey

LEMMA LetterSteps ==
  ASSUME IInv, NEW r \in Runs,
         EnsureNoDuplicate(r) \/ SaveLetter(r) \/ ResolveConflict(r) \/ OverwriteLetter(r)
  PROVE  IInv'
<1> USE DEF LetterRows
<1>1. letters \in Seq(LetterRows) /\ letterOf[r] \in Runs \cup {NoRun}
      /\ letterOf = [letterOf EXCEPT ![r] = letterOf[r]] /\ upsets \in Nat
  BY DEF IInv, TypeOK
<1>2. CASE EnsureNoDuplicate(r)
  <2>1. step[r] = "checking" /\ step[r] \in Working
    BY <1>2 DEF EnsureNoDuplicate, Working
  <2>2. CASE Proceed(r, "saving") /\ UNCHANGED <<letters, letterOf, studio>>
    <3>1. "saving" \in Writing
      BY DEF Writing
    <3> QED
      BY <1>1, <2>1, <2>2, <3>1, ProceedStep
  <2>3. CASE Fail(r, "duplicate") /\ UNCHANGED upsets
    BY <1>1, <2>1, <2>3, FailStep DEF Refusals
  <2> QED
    BY <1>2, <2>2, <2>3 DEF EnsureNoDuplicate
<1>3. CASE SaveLetter(r)
  <2>1. step[r] = "saving" /\ step[r] \in Working /\ step[r] # "idle" /\ UNCHANGED studio
    BY <1>3 DEF SaveLetter, Working
  <2>2. CASE Proceed(r, "resolving") /\ UNCHANGED <<letters, letterOf>>
    <3>1. "resolving" \in Writing
      BY DEF Writing
    <3> QED
      BY <1>1, <2>1, <2>2, <3>1, ProceedStep
  <2>3. CASE /\ letters' = Append(letters, [id |-> r, inputs |-> BaseKey(request[r])])
             /\ letterOf' = [letterOf EXCEPT ![r] = r] /\ Proceed(r, "recording")
    <3>1. "recording" \in Writing
      BY DEF Writing
    <3>2. [id |-> r, inputs |-> BaseKey(request[r])] \in LetterRows
      BY <2>1, BaseKeyType
    <3>3. letters' \in Seq(LetterRows)
      BY <1>1, <2>3, <3>2
    <3> QED
      BY <2>1, <2>3, <3>1, <3>3, NoRunAssumption, ProceedStep
  <2> QED
    BY <1>3, <2>2, <2>3 DEF SaveLetter
<1>4. CASE ResolveConflict(r)
  <2>1. step[r] = "resolving" /\ step[r] \in Working
    BY <1>4 DEF ResolveConflict, Working
  <2>2. CASE Fail(r, "error") /\ UNCHANGED upsets
    BY <1>1, <2>1, <2>2, FailStep DEF Refusals
  <2>3. ASSUME letters # <<>>, NEW next \in {"overwriting", "recording"}, Proceed(r, next),
               letterOf' = [letterOf EXCEPT ![r] = LatestLetter.id],
               UNCHANGED <<letters, studio>>
        PROVE  IInv'
    <3>1. LatestLetter.id \in Runs
      BY <1>1, <2>3, LastElement DEF LatestLetter
    <3>2. next \in Writing
      BY <2>3 DEF Writing
    <3> QED
      BY <1>1, <2>1, <2>3, <3>1, <3>2, NoRunAssumption, ProceedStep
  <2> QED
    BY <1>4, <2>2, <2>3 DEF ResolveConflict
<1>5. CASE OverwriteLetter(r)
  <2>1. step[r] = "overwriting" /\ step[r] \in Working /\ step[r] # "idle"
    BY <1>5 DEF OverwriteLetter, Working
  <2>2. CASE Fail(r, "conflict") /\ UNCHANGED upsets
    BY <1>1, <2>1, <2>2, FailStep DEF Refusals
  <2> DEFINE mine == [id |-> letterOf[r], inputs |-> BaseKey(request[r])]
  <2>3. letterOf[r] # NoRun /\ mine \in LetterRows
    BY <2>1, <1>1, BaseKeyType DEF IInv, RunInv
  <2>4. ASSUME Proceed(r, "recording"), UNCHANGED <<letterOf, studio>>,
               letters' \in Seq(LetterRows)
        PROVE  IInv'
    <3>1. "recording" \in Writing
      BY DEF Writing
    <3> QED
      BY <1>1, <2>1, <2>3, <2>4, <3>1, ProceedStep
  <2>5. CASE letters' = Append(letters, mine) /\ Proceed(r, "recording")
             /\ UNCHANGED <<letterOf, studio>>
    <3>1. letters' \in Seq(LetterRows)
      BY <1>1, <2>3, <2>5
    <3> QED
      BY <2>4, <2>5, <3>1
  <2>6. ASSUME NEW others,
               letters' = [i \in 1..Len(letters) |->
                             IF i \in others THEN letters[i] ELSE mine],
               Proceed(r, "recording"), UNCHANGED <<letterOf, studio>>
        PROVE  IInv'
    <3> HIDE DEF mine, LetterRows
    <3>1. letters' \in Seq(LetterRows)
      BY <1>1, <2>3, <2>6, Overwritten
    <3> QED
      BY <2>4, <2>6, <3>1
  <2> QED
    BY <1>5, <2>2, <2>5, <2>6 DEF OverwriteLetter
<1> QED
  BY <1>2, <1>3, <1>4, <1>5

LEMMA EndSteps ==
  ASSUME IInv, NEW r \in Runs,
         RefuseLetter(r) \/ DatabaseError(r) \/ Complete(r) \/ Crash(r)
  PROVE  IInv'
<1>1. CASE RefuseLetter(r)
  BY <1>1, FailStep DEF RefuseLetter, Refusals, Working, IInv, TypeOK
<1>2. CASE DatabaseError(r)
  <2>1. upsets' \in Nat
    BY <1>2 DEF DatabaseError, IInv, TypeOK
  <2> QED
    BY <1>2, <2>1, FailStep DEF DatabaseError, Refusals
<1>3. CASE Complete(r)
  <2>1. /\ step[r] = "completing" /\ step' = [step EXCEPT ![r] = "ended"]
        /\ answer' = [answer EXCEPT ![r] = "success"]
        /\ UNCHANGED <<request, letters, letterOf, studio, pending, upsets>>
    BY <1>3 DEF Complete
  <2>2. /\ answer[r] = "none" /\ pending[r] = {} /\ upsets' \in Nat
        /\ pending' = [pending EXCEPT ![r] = {}]
    BY <2>1 DEF IInv, RunInv, TypeOK
  <2>3. /\ "ended" \in Steps \ {"idle"} /\ "success" \in Answers
        /\ "none" \notin Refusals /\ step[r] \notin Writing
    BY <2>1 DEF Steps, Answers, Refusals, Writing
  <2> QED
    BY <2>1, <2>2, <2>3, AsideStep
<1>4. CASE Crash(r)
  <2>1. /\ step[r] # "idle" /\ step' = [step EXCEPT ![r] = "crashed"]
        /\ pending' = [pending EXCEPT ![r] = {}]
        /\ UNCHANGED <<request, letters, letterOf, studio, answer>>
    BY <1>4 DEF Crash, Working
  <2>2. /\ answer[r] \in Answers /\ answer' = [answer EXCEPT ![r] = answer[r]]
        /\ upsets' \in Nat
    BY <1>4, <2>1 DEF Crash, IInv, TypeOK
  <2>3. "crashed" \in Steps \ {"idle"} /\ "crashed" \in Writing
    BY DEF Steps, Writing
  <2> QED
    BY <2>1, <2>2, <2>3, AsideStep
<1> QED
  BY <1>1, <1>2, <1>3, <1>4

LEMMA DeleteStep ==
  ASSUME IInv, NEW i \in 1..Len(letters), DeleteLetter(i)
  PROVE  IInv'
<1>1. letters' \in Seq([id : Runs, inputs : Versions \X Templates])
  BY Removed DEF DeleteLetter, IInv, TypeOK
<1> QED
  BY <1>1 DEF DeleteLetter, IInv, TypeOK, RunInv, WriterInv, StudioTellsTheTruth,
              Version, Unfinished

LEMMA Inductive == IInv /\ [Next]_vars => IInv'
<1> SUFFICES ASSUME IInv, [Next]_vars PROVE IInv'
  OBVIOUS
<1>1. ASSUME NEW r \in Runs, RunStep(r) PROVE IInv'
  BY <1>1, BeginStep, ReserveSteps, RecordInProgressStep, LetterSteps, RecordSuccessStep,
     LandSteps, EndSteps DEF RunStep
<1>2. CASE UNCHANGED vars
  BY <1>2 DEF vars, letterVars, IInv, TypeOK, RunInv, WriterInv, StudioTellsTheTruth,
              Version, Unfinished
<1> QED
  BY <1>1, <1>2, DeleteStep DEF Next

LEMMA Invariance == Spec => []IInv
<1> QED
  BY InitIInv, Inductive, PTL DEF Spec

-----------------------------------------------------------------------------
(* The theorems *)

\* For any number of requests the variables of the handlers stay in their domains.
THEOREM TypeCorrect == Spec => []TypeOK
<1>1. IInv => TypeOK
  BY DEF IInv
<1> QED
  BY <1>1, Invariance, PTL

\* However many runs write the row, fail late or die, what Studio says of the
\* letter is true of some run with the inputs on the label.
THEOREM StudioTruth == Spec => []StudioTellsTheTruth
<1>1. IInv => StudioTellsTheTruth
  BY DEF IInv
<1> QED
  BY <1>1, Invariance, PTL

LEMMA ReservationsStep ==
  ASSUME IInv, [Next]_vars PROVE [Idem!Next]_(Idem!vars)
<1> SUFFICES ASSUME ~UNCHANGED Idem!vars PROVE Idem!Next
  OBVIOUS
<1> USE DEF Idem!vars, idemVars
<1>1. CASE UNCHANGED vars
  BY <1>1 DEF vars
<1>2. ASSUME NEW i \in 1..Len(letters), DeleteLetter(i) PROVE Idem!Next
  BY <1>2 DEF DeleteLetter
<1>3. ASSUME NEW r \in Runs, RunStep(r) PROVE Idem!Next
  <2>1. ASSUME NEW k \in Keys, Idem!Reserve(r, k) PROVE Idem!Next
    BY <2>1 DEF Idem!Next
  <2>2. ASSUME NEW req \in Requests, Begin(r, req) PROVE Idem!Next
    <3>1. BaseKey(req) \in Keys
      BY DEF BaseKey, Keys, Requests
    <3> QED
      BY <2>1, <2>2, <3>1 DEF Begin
  <2>3. CASE ReserveStep(r)
    BY <2>3 DEF ReserveStep, Idem!Next
  <2>4. CASE ReserveAgain(r)
    <3>1. RegenKey(request[r], r) \in Keys
      BY <2>4 DEF ReserveAgain, RegenKey, Keys, Requests, IInv, RunInv
    <3> QED
      BY <2>1, <2>4, <3>1 DEF ReserveAgain
  <2>5. CASE TurnAway(r) \/ Complete(r) \/ Crash(r)
    BY <2>5 DEF TurnAway, Complete, Crash, Idem!Next
  <2>6. CASE LandRowFailure(r)
    BY <2>6 DEF LandRowFailure, Idem!Next, Idem!FailureStatuses
  <2> QED
    BY <1>3, <2>2, <2>3, <2>4, <2>5, <2>6
    DEF RunStep, RecordInProgress, EnsureNoDuplicate, SaveLetter, ResolveConflict,
        OverwriteLetter, RefuseLetter, RecordSuccess, LandArtifactFailure, DatabaseError
<1> QED
  BY <1>1, <1>2, <1>3 DEF Next

\* Every step of the handlers is a step, or a stutter, of WorkflowIdempotency.
THEOREM Composition == Spec => UsesReservationsAsSpecified
<1>1. Init => Idem!Init
  BY DEF Init
<1>2. IInv /\ [Next]_vars => [Idem!Next]_(Idem!vars)
  BY ReservationsStep
<1> QED
  BY <1>1, <1>2, Invariance, PTL DEF Spec, UsesReservationsAsSpecified, Idem!Spec

-----------------------------------------------------------------------------
(* The letters of the pair *)

\* A run that has not saved its letter: no row has its id, and no run will write one.
Unsaved == {"idle", "reserving", "starting", "checking", "saving"}
FreshInv ==
    \A s \in Runs : step[s] \in Unsaved =>
        /\ \A i \in 1..Len(letters) : letters[i].id # s
        /\ \A r \in Runs : letterOf[r] # s

IdsInv == IInv /\ FreshInv /\ LettersAreDistinct

LEMMA RemovedElements ==
  ASSUME NEW S, NEW s \in Seq(S), NEW i \in 1..Len(s),
         NEW t, t = SubSeq(s, 1, i - 1) \o SubSeq(s, i + 1, Len(s))
  PROVE  /\ Len(t) = Len(s) - 1
         /\ \A j \in 1..Len(t) : t[j] = IF j < i THEN s[j] ELSE s[j + 1]
<1>1. Len(s) \in Nat /\ i \in Int /\ 1 <= i /\ i <= Len(s) /\ \A j \in 1..Len(s) : s[j] \in S
  BY ElementOfSeq
<1> DEFINE a == SubSeq(s, 1, i - 1)
           b == SubSeq(s, i + 1, Len(s))
<1>2. /\ a \in Seq(S) /\ Len(a) = i - 1
      /\ \A j \in 1..(i - 1) : a[j] = s[j]
  <2>1. \A j \in 1..(i - 1) : s[j] \in S
    BY <1>1
  <2>2. /\ a \in Seq(S) /\ Len(a) = IF 1 <= i - 1 THEN i - 1 - 1 + 1 ELSE 0
        /\ \A j \in 1..(i - 1 - 1 + 1) : a[j] = s[1 + j - 1]
    BY <1>1, <2>1, SubSeqProperties
  <2> HIDE DEF a
  <2> QED BY <1>1, <2>2
<1>3. /\ b \in Seq(S) /\ Len(b) = Len(s) - i
      /\ \A j \in 1..(Len(s) - i) : b[j] = s[i + j]
  <2>1. \A j \in (i + 1)..Len(s) : s[j] \in S
    BY <1>1
  <2>2. /\ b \in Seq(S)
        /\ Len(b) = IF i + 1 <= Len(s) THEN Len(s) - (i + 1) + 1 ELSE 0
        /\ \A j \in 1..(Len(s) - (i + 1) + 1) : b[j] = s[(i + 1) + j - 1]
    BY <1>1, <2>1, SubSeqProperties
  <2>3. ASSUME NEW j \in 1..(Len(s) - i) PROVE b[j] = s[i + j]
    <3>1. j \in 1..(Len(s) - (i + 1) + 1) /\ (i + 1) + j - 1 = i + j
      BY <1>1
    <3> QED BY <2>2, <3>1
  <2> HIDE DEF b
  <2> QED BY <1>1, <2>2, <2>3
<1> HIDE DEF a, b
<1>4. /\ Len(a \o b) = Len(a) + Len(b)
      /\ \A j \in 1..(Len(a) + Len(b)) :
            (a \o b)[j] = IF j <= Len(a) THEN a[j] ELSE b[j - Len(a)]
  BY <1>2, <1>3, ConcatProperties
<1>5. t = a \o b
  BY DEF a, b
<1> DEFINE n == Len(s)
<1>6. Len(t) = n - 1
  <2>1. Len(t) = Len(a) + Len(b)
    BY <1>4, <1>5
  <2>2. Len(a) + Len(b) = (i - 1) + (n - i)
    BY <1>2, <1>3
  <2>3. (i - 1) + (n - i) = n - 1
    BY <1>1
  <2> QED BY ONLY <2>1, <2>2, <2>3
<1>7. ASSUME NEW j \in 1..Len(t) PROVE t[j] = IF j < i THEN s[j] ELSE s[j + 1]
  <2>0. j \in 1..(Len(a) + Len(b)) /\ j \in Int /\ 1 <= j /\ j <= n - 1
    <3>1. j \in 1..(n - 1)
      BY <1>6
    <3>2. Len(a) + Len(b) = n - 1
      <4>1. n \in Int /\ i \in Int
        BY <1>1
      <4>2. Len(a) = i - 1 /\ Len(b) = n - i
        BY <1>2, <1>3
      <4> HIDE DEF n
      <4> QED BY ONLY <4>1, <4>2
    <3>3. n \in Int
      BY <1>1
    <3> HIDE DEF n
    <3> QED BY ONLY <3>1, <3>2, <3>3
  <2>1. CASE j < i
    <3>1. j <= Len(a) /\ j \in 1..(i - 1)
      BY <1>1, <1>2, <2>0, <2>1
    <3>2. t[j] = a[j]
      BY <1>4, <1>5, <2>0, <3>1
    <3> QED BY <1>2, <2>1, <3>1, <3>2
  <2>2. CASE ~(j < i)
    <3>1. ~(j <= Len(a)) /\ j - Len(a) \in 1..(Len(s) - i) /\ i + (j - Len(a)) = j + 1
      BY <1>1, <1>2, <2>0, <2>2
    <3>2. t[j] = b[j - Len(a)]
      BY <1>4, <1>5, <2>0, <3>1
    <3>3. b[j - Len(a)] = s[i + (j - Len(a))]
      BY <1>3, <3>1
    <3> QED BY <2>2, <3>1, <3>2, <3>3
  <2> QED BY <2>1, <2>2
<1> QED BY <1>6, <1>7

\* A step of r that leaves the letters alone and does not go back.
LEMMA IdsKeep ==
  ASSUME IdsInv, NEW r \in Runs, letters' = letters,
         \A s \in Runs : step'[s] \in Unsaved => step[s] \in Unsaved,
         \A s \in Runs : letterOf'[s] = letterOf[s] \/
            \E i \in 1..Len(letters) : letterOf'[s] = letters[i].id
  PROVE  FreshInv' /\ LettersAreDistinct'
  BY DEF IdsInv, FreshInv, LettersAreDistinct

\* A run inserts a letter: its id is new, and the index has none of its inputs.
LEMMA IdsInsert ==
  ASSUME IdsInv, NEW r \in Runs, step[r] = "saving",
         step' = [step EXCEPT ![r] = "recording"],
         \A i \in 1..Len(letters) : ~Matches(letters[i], r),
         letters' = Append(letters, [id |-> r, inputs |-> BaseKey(request[r])]),
         letterOf' = [letterOf EXCEPT ![r] = r]
  PROVE  FreshInv' /\ LettersAreDistinct'
<1> DEFINE mine == [id |-> r, inputs |-> BaseKey(request[r])]
<1>1. letters \in Seq(LetterRows) /\ Len(letters) \in Nat
  BY DEF IdsInv, IInv, TypeOK, LetterRows
<1>2. /\ Len(letters') = Len(letters) + 1
      /\ \A i \in 1..Len(letters) : letters'[i] = letters[i]
      /\ letters'[Len(letters) + 1] = mine
  BY <1>1
<1>3. r \notin {letters[i].id : i \in 1..Len(letters)}
  BY DEF IdsInv, FreshInv, Unsaved
<1>4. LettersAreDistinct'
  <2> SUFFICES ASSUME NEW i \in 1..Len(letters'), NEW j \in 1..Len(letters'), i # j
               PROVE  /\ letters'[i].inputs # letters'[j].inputs
                      /\ letters'[i].id # letters'[j].id
    BY DEF LettersAreDistinct
  <2>1. \A k \in 1..Len(letters') : k \in 1..Len(letters) \/ k = Len(letters) + 1
    BY <1>1, <1>2
  <2>2. mine.id = r /\ mine.inputs = BaseKey(request[r])
    OBVIOUS
  <2> HIDE DEF mine
  <2> QED BY <1>2, <1>3, <2>1, <2>2 DEF IdsInv, LettersAreDistinct, Matches
<1>5. FreshInv'
  <2> SUFFICES ASSUME NEW s \in Runs, step'[s] \in Unsaved
               PROVE  /\ \A i \in 1..Len(letters') : letters'[i].id # s
                      /\ \A q \in Runs : letterOf'[q] # s
    BY DEF FreshInv
  <2>1. s # r /\ step'[s] = step[s]
    BY DEF IdsInv, IInv, TypeOK, Unsaved
  <2>2. \A k \in 1..Len(letters') : k \in 1..Len(letters) \/ k = Len(letters) + 1
    BY <1>1, <1>2
  <2>3. mine.id = r
    OBVIOUS
  <2>4. \A q \in Runs : letterOf'[q] \in {letterOf[q], r}
    BY DEF IdsInv, IInv, TypeOK
  <2> HIDE DEF mine
  <2> QED BY <1>2, <2>1, <2>2, <2>3, <2>4 DEF IdsInv, FreshInv
<1> QED BY <1>4, <1>5

\* A letter is written in place: no other has these inputs, and its id stays.
LEMMA IdsOverwrite ==
  ASSUME IdsInv, NEW r \in Runs, step[r] = "overwriting",
         step' = [step EXCEPT ![r] = "recording"], letterOf' = letterOf,
         NEW mine, mine = [id |-> letterOf[r], inputs |-> BaseKey(request[r])],
         NEW others, others = {i \in 1..Len(letters) : letters[i].id # letterOf[r]},
         \A i \in others : ~Matches(letters[i], r),
         \/ others = 1..Len(letters) /\ letters' = Append(letters, mine)
         \/ letters' = [i \in 1..Len(letters) |->
                           IF i \in others THEN letters[i] ELSE mine]
  PROVE  FreshInv' /\ LettersAreDistinct'
<1>1. /\ letters \in Seq(LetterRows) /\ Len(letters) \in Nat
      /\ mine.id = letterOf[r] /\ mine.inputs = BaseKey(request[r])
      /\ r \in Runs /\ step[r] \notin Unsaved
  BY DEF IdsInv, IInv, TypeOK, LetterRows, Unsaved
<1>2. \A s \in Runs : step'[s] \in Unsaved => s # r /\ step[s] \in Unsaved
  BY DEF IdsInv, IInv, TypeOK, Unsaved
<1>3. CASE others = 1..Len(letters) /\ letters' = Append(letters, mine)
  <2>1. /\ Len(letters') = Len(letters) + 1
        /\ \A i \in 1..Len(letters) : letters'[i] = letters[i]
        /\ letters'[Len(letters) + 1] = mine
    BY <1>1, <1>3
  <2>2. \A k \in 1..Len(letters') : k \in 1..Len(letters) \/ k = Len(letters) + 1
    BY <1>1, <2>1
  <2>3. \A k \in 1..Len(letters) : letters[k].id # mine.id /\ letters[k].inputs # mine.inputs
    BY <1>1, <1>3 DEF Matches
  <2>4. LettersAreDistinct'
    BY <2>1, <2>2, <2>3 DEF IdsInv, LettersAreDistinct
  <2>5. FreshInv'
    BY <1>1, <1>2, <2>1, <2>2 DEF IdsInv, FreshInv
  <2> QED BY <2>4, <2>5
<1>4. CASE letters' = [i \in 1..Len(letters) |-> IF i \in others THEN letters[i] ELSE mine]
  <2>1. Len(letters') = Len(letters)
    BY <1>1, <1>4
  <2>2. \A i \in 1..Len(letters) :
           /\ letters'[i] = IF i \in others THEN letters[i] ELSE mine
           /\ letters'[i].id = letters[i].id
    BY <1>1, <1>4
  <2>3. \A i \in others : letters[i].inputs # mine.inputs
    BY <1>1 DEF Matches
  <2>4. LettersAreDistinct'
    BY <2>1, <2>2, <2>3 DEF IdsInv, LettersAreDistinct
  <2>5. FreshInv'
    BY <1>1, <1>2, <2>1, <2>2 DEF IdsInv, FreshInv
  <2> QED BY <2>4, <2>5
<1> QED BY <1>3, <1>4

LEMMA IdsDelete ==
  ASSUME IdsInv, NEW i \in 1..Len(letters), DeleteLetter(i)
  PROVE  FreshInv' /\ LettersAreDistinct'
<1>1. letters \in Seq(LetterRows) /\ Len(letters) \in Nat
  BY DEF IdsInv, IInv, TypeOK, LetterRows
<1>2. /\ letters' = SubSeq(letters, 1, i - 1) \o SubSeq(letters, i + 1, Len(letters))
      /\ UNCHANGED <<step, letterOf>>
  BY DEF DeleteLetter
<1>3. /\ Len(letters') = Len(letters) - 1
      /\ \A j \in 1..Len(letters') :
            letters'[j] = IF j < i THEN letters[j] ELSE letters[j + 1]
  BY <1>1, <1>2, RemovedElements
<1> DEFINE old(j) == IF j < i THEN j ELSE j + 1
<1>4. \A j \in 1..Len(letters') : old(j) \in 1..Len(letters) /\ letters'[j] = letters[old(j)]
  BY <1>1, <1>3
<1>5. \A j, k \in 1..Len(letters') : j # k => old(j) # old(k)
  BY <1>1, <1>3
<1> HIDE DEF old
<1>6. LettersAreDistinct'
  <2> SUFFICES ASSUME NEW j \in 1..Len(letters'), NEW k \in 1..Len(letters'), j # k
               PROVE  /\ letters'[j].inputs # letters'[k].inputs
                      /\ letters'[j].id # letters'[k].id
    BY DEF LettersAreDistinct
  <2>1. old(j) # old(k)
    BY <1>5
  <2> QED BY <1>4, <2>1 DEF IdsInv, LettersAreDistinct
<1>7. FreshInv'
  <2> SUFFICES ASSUME NEW s \in Runs, step'[s] \in Unsaved
               PROVE  /\ \A j \in 1..Len(letters') : letters'[j].id # s
                      /\ \A q \in Runs : letterOf'[q] # s
    BY DEF FreshInv
  <2> QED BY <1>2, <1>4 DEF IdsInv, FreshInv
<1> QED BY <1>6, <1>7

LEMMA IdsRun == ASSUME IdsInv, NEW r \in Runs, RunStep(r) PROVE FreshInv' /\ LettersAreDistinct'
<1>0. /\ step \in [Runs -> Steps] /\ letterOf \in [Runs -> Runs \cup {NoRun}]
      /\ letters \in Seq(LetterRows) /\ Len(letters) \in Nat
  BY DEF IdsInv, IInv, TypeOK, LetterRows
<1>1. ASSUME NEW next, step' = [step EXCEPT ![r] = next], next \in Unsaved => step[r] \in Unsaved,
             letters' = letters,
             \/ letterOf' = letterOf
             \/ letters # <<>> /\ letterOf' = [letterOf EXCEPT ![r] = LatestLetter.id]
      PROVE  FreshInv' /\ LettersAreDistinct'
  <2>1. \A s \in Runs : step'[s] \in Unsaved => step[s] \in Unsaved
    BY <1>0, <1>1
  <2>2. letters # <<>> => Len(letters) \in 1..Len(letters)
    BY <1>0, EmptySeq
  <2>3. \A s \in Runs : letterOf'[s] = letterOf[s] \/
            \E i \in 1..Len(letters) : letterOf'[s] = letters[i].id
    BY <1>0, <1>1, <2>2 DEF LatestLetter
  <2> QED BY <1>1, <2>1, <2>3, IdsKeep
<1>2. ASSUME NEW ans, Fail(r, ans) PROVE FreshInv' /\ LettersAreDistinct'
  <2>1. /\ step' = [step EXCEPT ![r] = "failing"] /\ "failing" \notin Unsaved
        /\ letters' = letters /\ letterOf' = letterOf
    BY <1>2 DEF Fail, Unsaved
  <2> QED BY <1>1, <2>1
<1>3. CASE SaveLetter(r)
  <2>1. CASE \E i \in 1..Len(letters) : Matches(letters[i], r)
    <3>1. /\ step' = [step EXCEPT ![r] = "resolving"] /\ "resolving" \notin Unsaved
          /\ letters' = letters /\ letterOf' = letterOf
      BY <1>3, <2>1 DEF SaveLetter, Proceed, Unsaved
    <3> QED BY <1>1, <3>1
  <2>2. CASE ~\E i \in 1..Len(letters) : Matches(letters[i], r)
    <3>1. /\ step[r] = "saving" /\ step' = [step EXCEPT ![r] = "recording"]
          /\ letters' = Append(letters, [id |-> r, inputs |-> BaseKey(request[r])])
          /\ letterOf' = [letterOf EXCEPT ![r] = r]
      BY <1>3, <2>2 DEF SaveLetter, Proceed
    <3> QED BY <2>2, <3>1, IdsInsert
  <2> QED BY <2>1, <2>2
<1>4. CASE ResolveConflict(r)
  <2>1. CASE letters = <<>>
    BY <1>2, <1>4, <2>1 DEF ResolveConflict
  <2>2. CASE letters # <<>>
    <3>1. PICK next \in {"overwriting", "recording"} : step' = [step EXCEPT ![r] = next]
      BY <1>4, <2>2 DEF ResolveConflict, Proceed
    <3>2. /\ letters' = letters /\ letterOf' = [letterOf EXCEPT ![r] = LatestLetter.id]
          /\ next \notin Unsaved
      BY <1>4, <2>2 DEF ResolveConflict, Unsaved
    <3> QED BY <1>1, <2>2, <3>1, <3>2
  <2> QED BY <2>1, <2>2
<1>5. CASE OverwriteLetter(r)
  <2> DEFINE others == {i \in 1..Len(letters) : letters[i].id # letterOf[r]}
             mine == [id |-> letterOf[r], inputs |-> BaseKey(request[r])]
  <2>1. CASE \E i \in others : Matches(letters[i], r)
    BY <1>2, <1>5, <2>1 DEF OverwriteLetter
  <2>2. CASE ~\E i \in others : Matches(letters[i], r)
    <3>1. /\ step[r] = "overwriting" /\ step' = [step EXCEPT ![r] = "recording"]
          /\ letterOf' = letterOf
          /\ letters' = IF others = 1..Len(letters) THEN Append(letters, mine)
                        ELSE [i \in 1..Len(letters) |->
                                IF i \in others THEN letters[i] ELSE mine]
      BY <1>5, <2>2 DEF OverwriteLetter, Proceed
    <3>2. \A i \in others : ~Matches(letters[i], r)
      BY <2>2
    <3>3. \/ others = 1..Len(letters) /\ letters' = Append(letters, mine)
          \/ letters' = [i \in 1..Len(letters) |->
                            IF i \in others THEN letters[i] ELSE mine]
      BY <3>1
    <3> QED BY <3>1, <3>2, <3>3, IdsOverwrite
  <2> QED BY <2>1, <2>2
<1>6. CASE EnsureNoDuplicate(r)
  <2>1. CASE letters = <<>> \/ Matches(LatestLetter, r)
    <3>1. /\ step[r] \in Unsaved /\ step' = [step EXCEPT ![r] = "saving"]
          /\ letters' = letters /\ letterOf' = letterOf
      BY <1>6, <2>1 DEF EnsureNoDuplicate, Proceed, Unsaved
    <3> QED BY <1>1, <3>1
  <2>2. CASE ~(letters = <<>> \/ Matches(LatestLetter, r))
    BY <1>2, <1>6, <2>2 DEF EnsureNoDuplicate
  <2> QED BY <2>1, <2>2
<1>7. CASE RefuseLetter(r) \/ DatabaseError(r)
  BY <1>2, <1>7 DEF RefuseLetter, DatabaseError
<1>8. CASE \/ \E req \in Requests : Begin(r, req)
           \/ ReserveStep(r) \/ ReserveAgain(r) \/ RecordInProgress(r)
  <2>1. step[r] \in Unsaved /\ UNCHANGED <<letters, letterOf>>
    BY <1>8 DEF Begin, ReserveStep, ReserveAgain, RecordInProgress, Proceed, Unsaved, letterVars
  <2>2. \E next : step' = [step EXCEPT ![r] = next]
    BY <1>0, <1>8 DEF Begin, ReserveStep, ReserveAgain, RecordInProgress, Proceed, letterVars
  <2> QED BY <1>1, <2>1, <2>2
<1>9. CASE TurnAway(r) \/ RecordSuccess(r) \/ Complete(r) \/ Crash(r)
  <2>1. UNCHANGED <<letters, letterOf>>
    BY <1>9 DEF TurnAway, RecordSuccess, Proceed, Complete, Crash
  <2>2. PICK next \in {"ended", "completing", "crashed"} : step' = [step EXCEPT ![r] = next]
    BY <1>9 DEF TurnAway, RecordSuccess, Proceed, Complete, Crash
  <2>3. next \notin Unsaved
    BY DEF Unsaved
  <2> QED BY <1>1, <2>1, <2>2, <2>3
<1>10. CASE LandArtifactFailure(r) \/ LandRowFailure(r)
  <2>1. UNCHANGED <<letters, letterOf>>
    BY <1>10 DEF LandArtifactFailure, LandRowFailure, Land
  <2>2. PICK next \in {"ended", step[r]} : step' = [step EXCEPT ![r] = next]
    BY <1>10 DEF LandArtifactFailure, LandRowFailure, Land
  <2>3. next \in Unsaved => step[r] \in Unsaved
    BY DEF Unsaved
  <2> QED BY <1>1, <2>1, <2>2, <2>3
<1> QED BY <1>3, <1>4, <1>5, <1>6, <1>7, <1>8, <1>9, <1>10 DEF RunStep

LEMMA IdsNext == IdsInv /\ [Next]_vars => IdsInv'
<1> SUFFICES ASSUME IdsInv, [Next]_vars PROVE IdsInv'
  OBVIOUS
<1>1. IInv'
  BY Inductive DEF IdsInv
<1>2. CASE UNCHANGED vars
  BY <1>1, <1>2 DEF vars, letterVars, IdsInv, FreshInv, LettersAreDistinct
<1>3. FreshInv' /\ LettersAreDistinct'
  BY <1>2, IdsRun, IdsDelete DEF Next, IdsInv
<1> QED BY <1>1, <1>3 DEF IdsInv

LEMMA IdsFirst == Init => IdsInv
<1> SUFFICES ASSUME Init PROVE IdsInv
  OBVIOUS
<1>1. letters = <<>> /\ \A r \in Runs : letterOf[r] = NoRun
  BY DEF Init
<1>2. FreshInv /\ LettersAreDistinct
  BY <1>1, NoRunAssumption DEF FreshInv, LettersAreDistinct
<1> QED BY <1>2, InitIInv DEF IdsInv

\* In whatever order runs insert and overwrite and users delete, no two letters of the
\* pair have the same inputs, or the same id.
THEOREM LettersDistinct == Spec => []LettersAreDistinct
<1>1. IdsInv => LettersAreDistinct
  BY DEF IdsInv
<1> QED BY <1>1, IdsFirst, IdsNext, PTL DEF Spec

-----------------------------------------------------------------------------
(* The table of reservations *)

\* The theorems about the reservations, here with the keys of letters.
IdemP == INSTANCE WorkflowIdempotencyProofs WITH MaxUpdates <- 2, MaxFaults <- MaxUpsets

\* The phases of a run that waits for reserve, or has its answer.
Reserving == {"finding", "saving", "inserting", "refinding", "replied"}

\* How far a run has come in the handler and in the reservations: a forced one holds
\* no key, any other the key of its inputs or, after a replay, one of its own.
KeyInv ==
    \A r \in Runs :
        /\ step[r] = "idle" => pc[r] = "idle"
        /\ step[r] = "reserving" => pc[r] \in Reserving
        /\ step[r] \in Working => pc[r] = IF Forced(r) THEN "idle" ELSE "working"
        /\ pc[r] # "idle" => ~Forced(r) /\ key[r] \in {BaseKey(request[r]), RegenKey(request[r], r)}
        /\ step[r] # "idle" /\ Forced(r) => pc[r] = "idle"
        /\ "row" \in pending[r] => pc[r] = "working"

LInv == IInv /\ IdemP!IInv /\ KeyInv /\ LedgerTellsTheTruth

LEMMA SameReservations ==
  /\ Idem!Init <=> IdemP!Init
  /\ [Idem!Next]_(Idem!vars) <=> [IdemP!Next]_(IdemP!vars)
<1>1. Idem!Init <=> IdemP!Init
  BY DEF Idem!Init, IdemP!Init, Idem!NoRow, IdemP!NoRow
<1>2. Idem!Next <=> IdemP!Next
  BY DEF Idem!Next, Idem!Reserve, Idem!Find, Idem!SaveExisting, Idem!InsertRow, Idem!Refind,
         Idem!FoundTaken, Idem!Replied, Idem!GoOn, Idem!Accept, Idem!FailureStatuses,
         Idem!Complete, Idem!Report, Idem!SetRow, Idem!MarkFailure, Idem!End, Idem!Crash,
         IdemP!Next, IdemP!Reserve, IdemP!Find, IdemP!SaveExisting, IdemP!InsertRow,
         IdemP!Refind, IdemP!FoundTaken, IdemP!Replied, IdemP!GoOn, IdemP!Accept,
         IdemP!FailureStatuses, IdemP!Complete, IdemP!Report, IdemP!SetRow,
         IdemP!MarkFailure, IdemP!End, IdemP!Crash
<1>3. [Idem!Next]_(Idem!vars) <=> [IdemP!Next]_(IdemP!vars)
  BY <1>2 DEF Idem!vars, IdemP!vars
<1> QED BY <1>1, <1>3

LEMMA ReservationsInit == Idem!Init => IdemP!IInv
<1>1. IdemP!Init => IdemP!IInv
  BY IdemP!InitIInv, NoKeyAssumption, NoRunAssumption, UpsetsAssumption
<1> QED BY <1>1, SameReservations

LEMMA ReservationsNext == IdemP!IInv /\ [Idem!Next]_(Idem!vars) => IdemP!IInv'
<1>1. IdemP!IInv /\ [IdemP!Next]_(IdemP!vars) => IdemP!TypeOK'
  BY IdemP!TypeStep, NoKeyAssumption, NoRunAssumption, UpsetsAssumption DEF IdemP!IInv
<1>2. IdemP!IInv /\ [IdemP!Next]_(IdemP!vars) => IdemP!RestInv'
  BY IdemP!RestStep, NoKeyAssumption, NoRunAssumption, UpsetsAssumption
<1> QED BY <1>1, <1>2, SameReservations DEF IdemP!IInv, IdemP!RestInv

\* What the invariant of the reservations says, in the words of this module.
LEMMA Reserved ==
  ASSUME IdemP!IInv
  PROVE  /\ row \in [Keys -> Idem!Rows] /\ pc \in [Runs -> Idem!Phases]
         /\ key \in [Runs -> Keys \cup {NoKey}] /\ outcome \in [Runs -> Idem!Outcomes]
         /\ \A k \in Keys :
               /\ row[k].status # "ABSENT" =>
                     /\ row[k].runId \in Runs
                     /\ outcome[row[k].runId] = "accepted_new"
                     /\ key[row[k].runId] = k
               /\ row[k].status = "ABSENT" => row[k].runId = NoRun
         /\ \A r \in Runs :
               /\ pc[r] # "idle" => key[r] \in Keys
               /\ outcome[r] = "accepted_new" => pc[r] \in {"working", "ended", "crashed"}
  BY DEF IdemP!IInv, IdemP!TypeOK, IdemP!PhaseInv, IdemP!RowInv, IdemP!Accepted,
         IdemP!Rows, IdemP!Phases, IdemP!Outcomes, IdemP!Statuses, IdemP!FailureStatuses,
         Idem!Statuses, Idem!FailureStatuses, Idem!Rows, Idem!Phases, Idem!Outcomes

\* A row that names r is that of the key that r holds.
LEMMA Holder ==
  ASSUME LInv, NEW r \in Runs, NEW k \in Keys, row[k].runId = r
  PROVE  outcome[r] = "accepted_new" /\ key[r] = k
  BY NoRunAssumption, Reserved DEF LInv

\* What a step leaves of another run.
Stays(r) ==
    /\ step'[r] = step[r] /\ pc'[r] = pc[r] /\ key'[r] = key[r]
    /\ request'[r] = request[r] /\ answer'[r] = answer[r]
    /\ letterOf'[r] = letterOf[r] /\ pending'[r] = pending[r]

\* What KeyInv says of r after the step.
Moved(r) ==
    /\ step'[r] = "idle" => pc'[r] = "idle"
    /\ step'[r] = "reserving" => pc'[r] \in Reserving
    /\ step'[r] \in Working => pc'[r] = IF Forced(r)' THEN "idle" ELSE "working"
    /\ pc'[r] # "idle" =>
          ~Forced(r)' /\ key'[r] \in {BaseKey(request'[r]), RegenKey(request'[r], r)}
    /\ step'[r] # "idle" /\ Forced(r)' => pc'[r] = "idle"
    /\ "row" \in pending'[r] => pc'[r] = "working"

LEMMA KeyInvStep ==
  ASSUME KeyInv, NEW r \in Runs, Moved(r), \A s \in Runs \ {r} : Stays(s)
  PROVE  KeyInv'
<1> SUFFICES ASSUME NEW s \in Runs PROVE Moved(s)
  BY DEF KeyInv, Moved, BaseKey, RegenKey
<1>1. CASE s = r
  BY <1>1
<1>2. CASE s # r
  <2>1. Stays(s) /\ (Forced(s)' <=> Forced(s))
    BY <1>2 DEF Stays, Forced
  <2> QED BY <2>1 DEF KeyInv, Moved, Stays
<1> QED BY <1>1, <1>2

\* The part of LedgerTellsTheTruth about key k.
Told(k) ==
    LET r == row[k].runId
    IN  /\ row[k].status = "COMPLETED" =>
              /\ answer[r] = "success" /\ letterOf[r] # NoRun
              /\ BaseKey(request[r]) = <<k[1], k[2]>>
        /\ row[k].status = "FAILED" => answer[r] \in Refusals
        /\ row[k].status = "IN_FLIGHT" => Unfinished(r) \/ "row" \in pending[r]

LEMMA LedgerIsTold == LedgerTellsTheTruth <=> \A k \in Keys : Told(k)
  BY DEF LedgerTellsTheTruth, Told

\* A run of which a row of the table goes on to tell the truth.
Keeps(r) ==
    /\ answer[r] = "none" \/ (answer'[r] = answer[r] /\ letterOf'[r] = letterOf[r])
    /\ request'[r] = request[r]
    /\ Unfinished(r) \/ "row" \in pending[r] => Unfinished(r)' \/ "row" \in pending'[r]

LEMMA ToldStays ==
  ASSUME LInv, NEW k \in Keys, row'[k] = row[k],
         row[k].status # "ABSENT" => Keeps(row[k].runId)
  PROVE  Told(k)'
<1>1. Told(k)
  BY LedgerIsTold DEF LInv
<1>2. CASE row[k].status = "ABSENT"
  BY <1>2 DEF Told
<1>3. CASE Keeps(row[k].runId)
  <2>1. BaseKey(request'[row[k].runId]) = BaseKey(request[row[k].runId])
    BY <1>3 DEF Keeps
  <2> QED BY <1>1, <1>3, <2>1 DEF Told, Keeps, Refusals
<1> QED BY <1>2, <1>3

LEMMA StaysKeeps == ASSUME NEW r, Stays(r) PROVE Keeps(r)
  BY DEF Stays, Keeps, Unfinished

LEMMA LedgerAside ==
  ASSUME LInv, NEW r \in Runs, row' = row, \A s \in Runs \ {r} : Stays(s),
         outcome[r] # "accepted_new" \/ Keeps(r)
  PROVE  LedgerTellsTheTruth'
<1> SUFFICES ASSUME NEW k \in Keys PROVE Told(k)'
  BY DEF LedgerTellsTheTruth, Told
<1>1. row[k].status # "ABSENT" =>
         /\ row[k].runId \in Runs
         /\ row[k].runId = r => outcome[r] = "accepted_new"
  BY Reserved DEF LInv
<1> QED BY <1>1, ToldStays, StaysKeeps

LEMMA LedgerWrite ==
  ASSUME LInv, NEW r \in Runs, NEW k \in Keys, \A s \in Runs \ {r} : Stays(s),
         \A l \in Keys \ {k} : row'[l] = row[l] /\ row[l].runId # r,
         Told(k)'
  PROVE  LedgerTellsTheTruth'
<1> SUFFICES ASSUME NEW l \in Keys \ {k} PROVE Told(l)'
  BY DEF LedgerTellsTheTruth, Told
<1>1. row[l].status # "ABSENT" => row[l].runId \in Runs \ {r}
  BY Reserved DEF LInv
<1> QED BY <1>1, ToldStays, StaysKeeps

\* A step of r alone.
Only(f, g, r) == g = f \/ \E v : g = [f EXCEPT ![r] = v]

LEMMA OnlyOne ==
  ASSUME NEW S, NEW f \in [Runs -> S], NEW g, NEW r \in Runs, Only(f, g, r)
  PROVE  \A s \in Runs \ {r} : g[s] = f[s]
  BY DEF Only

LEMMA OneRun ==
  ASSUME LInv, NEW r \in Runs, NEW next, step' = [step EXCEPT ![r] = next],
         Only(pc, pc', r), Only(key, key', r), Only(request, request', r),
         Only(answer, answer', r), Only(letterOf, letterOf', r), Only(pending, pending', r)
  PROVE  step'[r] = next /\ \A s \in Runs \ {r} : Stays(s)
<1>1. step'[r] = next
  BY DEF LInv, IInv, TypeOK
<1>2. \A s \in Runs \ {r} : step'[s] = step[s] /\ pc'[s] = pc[s] /\ key'[s] = key[s]
  <2>1. step \in [Runs -> Steps] /\ pc \in [Runs -> Idem!Phases] /\ key \in [Runs -> Keys \cup {NoKey}]
    BY Reserved DEF LInv, IInv, TypeOK
  <2>2. \A s \in Runs \ {r} : step'[s] = step[s]
    BY <2>1
  <2>3. \A s \in Runs \ {r} : pc'[s] = pc[s]
    BY <2>1, OnlyOne
  <2>4. \A s \in Runs \ {r} : key'[s] = key[s]
    BY <2>1, OnlyOne
  <2> QED BY <2>2, <2>3, <2>4
<1>3. /\ request \in [Runs -> Requests \cup {NoRequest}] /\ answer \in [Runs -> Answers]
      /\ letterOf \in [Runs -> Runs \cup {NoRun}]
      /\ pending \in [Runs -> SUBSET {"artifact", "row"}]
  BY DEF LInv, IInv, TypeOK
<1>4. \A s \in Runs \ {r} : request'[s] = request[s]
  BY <1>3, OnlyOne
<1>5. \A s \in Runs \ {r} : answer'[s] = answer[s]
  BY <1>3, OnlyOne
<1>6. \A s \in Runs \ {r} : letterOf'[s] = letterOf[s]
  BY <1>3, OnlyOne
<1>7. \A s \in Runs \ {r} : pending'[s] = pending[s]
  BY <1>3, OnlyOne
<1> QED BY <1>1, <1>2, <1>4, <1>5, <1>6, <1>7 DEF Stays

RestInv == KeyInv /\ LedgerTellsTheTruth

\* A step of r that leaves the table alone.
LEMMA AsideRest ==
  ASSUME LInv, NEW r \in Runs, row' = row, \A s \in Runs \ {r} : Stays(s), Moved(r),
         outcome[r] # "accepted_new" \/ Keeps(r)
  PROVE  RestInv'
<1>1. KeyInv'
  BY KeyInvStep DEF LInv
<1>2. LedgerTellsTheTruth'
  BY LedgerAside
<1> QED BY <1>1, <1>2 DEF RestInv

LEMMA BeginRest ==
  ASSUME LInv, NEW r \in Runs, NEW req \in Requests, Begin(r, req)
  PROVE  RestInv'
<1>0. /\ step[r] = "idle" /\ pc[r] = "idle" /\ outcome[r] # "accepted_new"
      /\ "row" \notin pending[r]
  BY Reserved DEF Begin, LInv, KeyInv
<1>1. /\ request' = [request EXCEPT ![r] = req] /\ request'[r] = req
      /\ UNCHANGED <<letterOf, answer, pending>>
  BY DEF Begin, LInv, IInv, TypeOK
<1>2. Only(request, request', r) /\ Only(answer, answer', r) /\ Only(letterOf, letterOf', r)
      /\ Only(pending, pending', r)
  BY <1>1 DEF Only
<1>3. CASE req.forced
  <2>1. step' = [step EXCEPT ![r] = "starting"] /\ UNCHANGED <<row, pc, key>>
    BY <1>3 DEF Begin, idemVars
  <2>2. Only(pc, pc', r) /\ Only(key, key', r)
    BY <2>1 DEF Only
  <2>3. step'[r] = "starting" /\ \A s \in Runs \ {r} : Stays(s)
    BY <1>2, <2>1, <2>2, OneRun
  <2>4. Forced(r)'
    BY <1>1, <1>3 DEF Forced
  <2>5. Moved(r)
    BY <1>0, <1>1, <2>1, <2>3, <2>4 DEF Moved, Working
  <2> QED BY <1>0, <2>1, <2>3, <2>5, AsideRest
<1>4. CASE ~req.forced
  <2>1. /\ step' = [step EXCEPT ![r] = "reserving"] /\ row' = row
        /\ pc' = [pc EXCEPT ![r] = "finding"] /\ key' = [key EXCEPT ![r] = BaseKey(req)]
    BY <1>4 DEF Begin, Idem!Reserve
  <2>2. Only(pc, pc', r) /\ Only(key, key', r)
    BY <2>1 DEF Only
  <2>3. step'[r] = "reserving" /\ \A s \in Runs \ {r} : Stays(s)
    BY <1>2, <2>1, <2>2, OneRun
  <2>4. ~Forced(r)'
    BY <1>1, <1>4 DEF Forced
  <2>5. pc'[r] = "finding" /\ key'[r] = BaseKey(req)
    BY <2>1, Reserved DEF LInv
  <2>6. BaseKey(request'[r]) = BaseKey(req)
    BY <1>1
  <2>7. Moved(r)
    BY <1>0, <1>1, <2>3, <2>4, <2>5, <2>6 DEF Moved, Working, Reserving
  <2> QED BY <1>0, <2>1, <2>3, <2>7, AsideRest
<1> QED BY <1>3, <1>4

\* Where a run in reserve stands.
LEMMA InReserve ==
  ASSUME LInv, NEW r \in Runs, step[r] = "reserving"
  PROVE  /\ ~Forced(r) /\ pc[r] \in Reserving /\ answer[r] = "none"
         /\ "row" \notin pending[r] /\ outcome[r] # "accepted_new"
         /\ key[r] \in Keys /\ key[r] \in {BaseKey(request[r]), RegenKey(request[r], r)}
<1>1. pc[r] \in Reserving
  BY DEF LInv, KeyInv
<1>2. ~Forced(r) /\ key[r] \in {BaseKey(request[r]), RegenKey(request[r], r)}
  BY <1>1 DEF LInv, KeyInv, Reserving
<1>3. answer[r] = "none" /\ pending[r] = {}
  BY DEF LInv, IInv, RunInv
<1>4. outcome[r] # "accepted_new" /\ key[r] \in Keys
  BY <1>1, Reserved DEF LInv, Reserving
<1> QED BY <1>1, <1>2, <1>3, <1>4

\* A run is accepted: its key's row is in flight and the run sets to work.
LEMMA AcceptRest ==
  ASSUME LInv, NEW r \in Runs, step[r] = "reserving", Idem!Accept(r),
         step' = [step EXCEPT ![r] = "starting"],
         UNCHANGED <<request, letterOf, answer, pending>>
  PROVE  RestInv'
<1>1. /\ pc' = [pc EXCEPT ![r] = "working"] /\ key' = key
      /\ row' = [row EXCEPT ![key[r]] =
                    [status |-> "IN_FLIGHT", runId |-> r, body |-> NoRun]]
  BY DEF Idem!Accept
<1>2. /\ Only(pc, pc', r) /\ Only(key, key', r) /\ Only(request, request', r)
      /\ Only(answer, answer', r) /\ Only(letterOf, letterOf', r)
      /\ Only(pending, pending', r)
  BY <1>1 DEF Only
<1>3. step'[r] = "starting" /\ \A s \in Runs \ {r} : Stays(s)
  BY <1>2, OneRun
<1>4. pc'[r] = "working" /\ (Forced(r)' <=> Forced(r))
  BY <1>1, Reserved DEF LInv, Forced
<1>5. Moved(r)
  BY <1>1, <1>3, <1>4, InReserve DEF Moved, Working
<1>6. PICK k \in Keys : k = key[r]
  BY InReserve
<1>7. row'[k].status = "IN_FLIGHT" /\ row'[k].runId = r
  BY <1>1, <1>6, Reserved DEF LInv
<1>8. \A l \in Keys \ {k} : row'[l] = row[l] /\ row[l].runId # r
  BY <1>1, <1>6, InReserve, Holder, Reserved DEF LInv
<1>9. Told(k)'
  BY <1>3, <1>7 DEF Told, Unfinished, Working
<1>10. LedgerTellsTheTruth'
  BY <1>3, <1>8, <1>9, LedgerWrite
<1> QED BY <1>3, <1>5, <1>10, KeyInvStep DEF RestInv, LInv

LEMMA ReserveRest == ASSUME LInv, NEW r \in Runs, ReserveStep(r) PROVE RestInv'
<1>0. /\ step[r] = "reserving" /\ UNCHANGED <<request, letterOf, answer, pending>>
      /\ step' = [step EXCEPT ![r] = IF pc'[r] = "working" THEN "starting" ELSE "reserving"]
  BY DEF ReserveStep
<1>1. CASE Idem!Accept(r)
  <2>1. pc'[r] = "working"
    BY <1>1, Reserved DEF Idem!Accept, LInv
  <2> QED BY <1>0, <1>1, <2>1, AcceptRest
<1>2. ASSUME NEW ph \in Reserving \cup {"working"}, pc' = [pc EXCEPT ![r] = ph],
             row' = row, key' = key
      PROVE  RestInv'
  <2> DEFINE next == IF ph = "working" THEN "starting" ELSE "reserving"
  <2>1. pc'[r] = ph
    BY <1>2, Reserved DEF LInv
  <2>2. step' = [step EXCEPT ![r] = next]
    BY <1>0, <2>1
  <2>3. /\ Only(pc, pc', r) /\ Only(key, key', r) /\ Only(request, request', r)
        /\ Only(answer, answer', r) /\ Only(letterOf, letterOf', r)
        /\ Only(pending, pending', r)
    BY <1>0, <1>2 DEF Only
  <2> HIDE DEF next
  <2>4. step'[r] = next /\ \A s \in Runs \ {r} : Stays(s)
    BY <2>2, <2>3, OneRun
  <2>5. Forced(r)' <=> Forced(r)
    BY <1>0 DEF Forced
  <2>6. Moved(r)
    BY <1>0, <1>2, <2>1, <2>4, <2>5, InReserve DEF Moved, Working, Reserving, next
  <2> QED BY <1>0, <1>2, <2>4, <2>6, InReserve, AsideRest
<1>3. CASE Idem!Find(r)
  BY <1>2, <1>3 DEF Idem!Find, Idem!FoundTaken, Idem!Replied, Idem!GoOn, Reserving
<1>4. CASE Idem!Refind(r)
  BY <1>2, <1>4 DEF Idem!Refind, Idem!FoundTaken, Idem!Replied, Reserving
<1>5. CASE Idem!InsertRow(r)
  BY <1>1, <1>2, <1>5 DEF Idem!InsertRow, Idem!GoOn, Reserving
<1> QED BY <1>1, <1>3, <1>4, <1>5 DEF ReserveStep, Idem!SaveExisting

\* A replayed run reserves a key of its own; a run that finds its key in flight ends.
LEMMA DecidedRest ==
  ASSUME LInv, NEW r \in Runs, ReserveAgain(r) \/ TurnAway(r)
  PROVE  RestInv'
<1>0. step[r] = "reserving" /\ UNCHANGED <<row, request, letterOf, pending>>
  BY DEF ReserveAgain, TurnAway, letterVars, Idem!Reserve, Idem!End, Idem!GoOn
<1>1. Forced(r)' <=> Forced(r)
  BY <1>0 DEF Forced
<1>2. CASE ReserveAgain(r)
  <2>1. /\ pc' = [pc EXCEPT ![r] = "finding"] /\ answer' = answer
        /\ key' = [key EXCEPT ![r] = RegenKey(request[r], r)]
    BY <1>2 DEF ReserveAgain, Idem!Reserve, letterVars
  <2>2. step' = [step EXCEPT ![r] = "reserving"]
    BY <1>0, <1>2 DEF ReserveAgain, letterVars, LInv, IInv, TypeOK
  <2>3. /\ Only(pc, pc', r) /\ Only(key, key', r) /\ Only(request, request', r)
        /\ Only(answer, answer', r) /\ Only(letterOf, letterOf', r)
        /\ Only(pending, pending', r)
    BY <1>0, <2>1 DEF Only
  <2>4. step'[r] = "reserving" /\ \A s \in Runs \ {r} : Stays(s)
    BY <2>2, <2>3, OneRun
  <2>5. pc'[r] = "finding" /\ key'[r] = RegenKey(request[r], r)
    BY <2>1, Reserved DEF LInv
  <2>6. Moved(r)
    BY <1>0, <1>1, <2>4, <2>5, InReserve DEF Moved, Working, Reserving
  <2> QED BY <1>0, <2>4, <2>6, InReserve, AsideRest
<1>3. CASE TurnAway(r)
  <2>1. /\ pc' = [pc EXCEPT ![r] = "ended"] /\ key' = key
        /\ answer' = [answer EXCEPT ![r] = "in_flight"]
        /\ step' = [step EXCEPT ![r] = "ended"]
    BY <1>3 DEF TurnAway, Idem!End, Idem!GoOn
  <2>2. /\ Only(pc, pc', r) /\ Only(key, key', r) /\ Only(request, request', r)
        /\ Only(answer, answer', r) /\ Only(letterOf, letterOf', r)
        /\ Only(pending, pending', r)
    BY <1>0, <2>1 DEF Only
  <2>3. step'[r] = "ended" /\ \A s \in Runs \ {r} : Stays(s)
    BY <2>1, <2>2, OneRun
  <2>4. Moved(r)
    BY <1>0, <1>1, <2>1, <2>3, InReserve DEF Moved, Working
  <2> QED BY <1>0, <2>3, <2>4, InReserve, AsideRest
<1> QED BY <1>2, <1>3

\* Where a run at work stands.
LEMMA AtWork ==
  ASSUME LInv, NEW r \in Runs, step[r] \in Working
  PROVE  /\ answer[r] = "none" /\ pending[r] = {}
         /\ pc[r] = IF Forced(r) THEN "idle" ELSE "working"
         /\ Forced(r) => outcome[r] # "accepted_new"
         /\ ~Forced(r) => key[r] \in {BaseKey(request[r]), RegenKey(request[r], r)}
<1>1. answer[r] = "none" /\ pending[r] = {}
  BY DEF LInv, IInv, RunInv, Working
<1>2. pc[r] = IF Forced(r) THEN "idle" ELSE "working"
  BY DEF LInv, KeyInv
<1> QED BY <1>1, <1>2, Reserved DEF LInv, KeyInv

\* A run at work goes on, or fails, and leaves the reservations alone.
LEMMA WorkRest ==
  ASSUME LInv, NEW r \in Runs, step[r] \in Working, UNCHANGED idemVars, request' = request,
         NEW next, step' = [step EXCEPT ![r] = next], Only(letterOf, letterOf', r),
         \/ next \in Working /\ answer' = answer /\ pending' = pending
         \/ /\ next = "failing" /\ Only(answer, answer', r)
            /\ pending' = [pending EXCEPT ![r] =
                              IF Forced(r) THEN {"artifact"} ELSE {"artifact", "row"}]
  PROVE  RestInv'
<1>1. UNCHANGED <<row, pc, key>>
  BY DEF idemVars
<1>2. /\ Only(pc, pc', r) /\ Only(key, key', r) /\ Only(request, request', r)
      /\ Only(answer, answer', r) /\ Only(pending, pending', r)
  BY <1>1 DEF Only
<1>3. step'[r] = next /\ \A s \in Runs \ {r} : Stays(s)
  BY <1>2, OneRun
<1>4. Forced(r)' <=> Forced(r)
  BY DEF Forced
<1>5. next = "failing" =>
         pending'[r] = IF Forced(r) THEN {"artifact"} ELSE {"artifact", "row"}
  BY DEF LInv, IInv, TypeOK, Working
<1>6. next \in Working \cup {"failing"} /\ next \notin {"idle", "reserving"}
  BY DEF Working
<1>7. next # "failing" => pending'[r] = {}
  BY <1>6, AtWork
<1>8. Moved(r)
  <2>1. next = "failing" => next \notin Working
    BY DEF Working
  <2> QED BY <1>1, <1>3, <1>4, <1>5, <1>6, <1>7, <2>1, AtWork DEF Moved
<1>9. outcome[r] # "accepted_new" \/ Keeps(r)
  <2>1. CASE Forced(r)
    BY <2>1, AtWork
  <2>2. CASE ~Forced(r)
    BY <1>3, <1>5, <1>6, <2>2, AtWork DEF Keeps, Unfinished
  <2> QED BY <2>1, <2>2
<1> QED BY <1>1, <1>3, <1>8, <1>9, AsideRest

LEMMA FailRest ==
  ASSUME LInv, NEW r \in Runs, step[r] \in Working, NEW ans, Fail(r, ans), UNCHANGED idemVars
  PROVE  RestInv'
<1>1. /\ step' = [step EXCEPT ![r] = "failing"] /\ request' = request
      /\ answer' = [answer EXCEPT ![r] = ans] /\ letterOf' = letterOf
      /\ pending' = [pending EXCEPT ![r] =
                        IF Forced(r) THEN {"artifact"} ELSE {"artifact", "row"}]
  BY DEF Fail
<1>2. Only(answer, answer', r) /\ Only(letterOf, letterOf', r)
  BY <1>1 DEF Only
<1> QED BY <1>1, <1>2, WorkRest

LEMMA ProceedRest ==
  ASSUME LInv, NEW r \in Runs, step[r] \in Working, NEW next \in Working, Proceed(r, next),
         UNCHANGED idemVars, Only(letterOf, letterOf', r)
  PROVE  RestInv'
<1>1. /\ step' = [step EXCEPT ![r] = next] /\ UNCHANGED <<request, answer, pending>>
  BY DEF Proceed
<1> QED BY <1>1, WorkRest

LEMMA WorkingRest ==
  ASSUME LInv, NEW r \in Runs,
         \/ RecordInProgress(r) \/ EnsureNoDuplicate(r) \/ SaveLetter(r) \/ ResolveConflict(r)
         \/ OverwriteLetter(r) \/ RefuseLetter(r) \/ RecordSuccess(r) \/ DatabaseError(r)
  PROVE  RestInv'
<1>1. step[r] \in Working /\ UNCHANGED idemVars
  BY DEF RecordInProgress, EnsureNoDuplicate, SaveLetter, ResolveConflict, OverwriteLetter,
         RefuseLetter, RecordSuccess, DatabaseError, Working
<1>2. Only(letterOf, letterOf', r)
  BY DEF RecordInProgress, EnsureNoDuplicate, SaveLetter, ResolveConflict, OverwriteLetter,
         RefuseLetter, RecordSuccess, DatabaseError, Fail, Only
<1>3. \/ \E ans : Fail(r, ans)
      \/ \E next \in {"saving", "checking", "resolving", "recording", "overwriting",
                      "completing"} : Proceed(r, next)
  BY DEF RecordInProgress, EnsureNoDuplicate, SaveLetter, ResolveConflict, OverwriteLetter,
         RefuseLetter, RecordSuccess, DatabaseError
<1>4. ASSUME NEW next \in {"saving", "checking", "resolving", "recording", "overwriting",
                           "completing"}, Proceed(r, next)
      PROVE  RestInv'
  <2>1. next \in Working
    BY DEF Working
  <2> QED BY <1>1, <1>2, <1>4, <2>1, ProceedRest
<1>5. ASSUME NEW ans, Fail(r, ans) PROVE RestInv'
  BY <1>1, <1>5, FailRest
<1> QED BY <1>3, <1>4, <1>5

\* A run reports: its row, if it still holds it, tells how it ended.
LEMMA ReportRest ==
  ASSUME LInv, NEW r \in Runs, pc[r] = "working", ~Forced(r),
         NEW st \in {"COMPLETED", "FAILED"},
         IF row[key[r]].runId = r THEN \E b : Idem!SetRow(key[r], st, b) ELSE UNCHANGED row,
         UNCHANGED <<pc, key, request, letterOf>>,
         NEW next \in {"failing", "ended"}, step' = [step EXCEPT ![r] = next],
         NEW ans, answer' = [answer EXCEPT ![r] = ans], Only(pending, pending', r),
         st = "COMPLETED" => ans = "success" /\ letterOf[r] # NoRun,
         st = "FAILED" => ans \in Refusals
  PROVE  RestInv'
<1>0. /\ key[r] \in Keys /\ key[r] \in {BaseKey(request[r]), RegenKey(request[r], r)}
      /\ (Forced(r)' <=> Forced(r))
  BY Reserved DEF LInv, KeyInv, Forced
<1>1. /\ Only(pc, pc', r) /\ Only(key, key', r) /\ Only(request, request', r)
      /\ Only(answer, answer', r) /\ Only(letterOf, letterOf', r)
  BY DEF Only
<1>2. step'[r] = next /\ \A s \in Runs \ {r} : Stays(s)
  BY <1>1, OneRun
<1>3. answer'[r] = ans
  BY DEF LInv, IInv, TypeOK
<1>4. Moved(r)
  BY <1>0, <1>2 DEF Moved, Working
<1>5. PICK k \in Keys : k = key[r]
  BY <1>0
<1>6. \A l \in Keys \ {k} : row'[l] = row[l] /\ row[l].runId # r
  BY <1>5, Holder, Reserved DEF Idem!SetRow, LInv
<1>7. Told(k)'
  <2>1. CASE row[k].runId = r
    <3>1. row'[k].status = st /\ row'[k].runId = r
      BY <1>5, <2>1, Reserved DEF Idem!SetRow, LInv
    <3>2. BaseKey(request'[r]) = <<k[1], k[2]>> /\ letterOf'[r] = letterOf[r]
      BY <1>0, <1>5 DEF BaseKey, RegenKey
    <3> QED BY <1>3, <3>1, <3>2 DEF Told
  <2>2. CASE row[k].runId # r
    <3>1. row'[k] = row[k]
      BY <1>5, <2>2
    <3>2. row[k].status # "ABSENT" => Keeps(row[k].runId)
      BY <1>2, <2>2, Reserved, StaysKeeps DEF LInv
    <3> QED BY <3>1, <3>2, ToldStays
  <2> QED BY <2>1, <2>2
<1>8. LedgerTellsTheTruth'
  BY <1>2, <1>6, <1>7, LedgerWrite
<1> QED BY <1>2, <1>4, <1>8, KeyInvStep DEF RestInv, LInv

LEMMA CompleteRest == ASSUME LInv, NEW r \in Runs, Complete(r) PROVE RestInv'
<1>0. /\ step[r] = "completing" /\ step[r] \in Working
      /\ step' = [step EXCEPT ![r] = "ended"]
      /\ answer' = [answer EXCEPT ![r] = "success"]
      /\ UNCHANGED <<request, letterOf, pending>>
  BY DEF Complete, Working
<1>1. letterOf[r] # NoRun
  BY <1>0 DEF LInv, IInv, RunInv
<1>2. Only(answer, answer', r) /\ Only(letterOf, letterOf', r) /\ Only(pending, pending', r)
      /\ Only(request, request', r)
  BY <1>0 DEF Only
<1>3. CASE Forced(r)
  <2>1. UNCHANGED <<row, pc, key>> /\ (Forced(r)' <=> Forced(r))
    BY <1>0, <1>3 DEF Complete, idemVars, Forced
  <2>2. Only(pc, pc', r) /\ Only(key, key', r)
    BY <2>1 DEF Only
  <2>3. step'[r] = "ended" /\ \A s \in Runs \ {r} : Stays(s)
    BY <1>0, <1>2, <2>2, OneRun
  <2>4. Moved(r)
    BY <1>0, <1>3, <2>1, <2>3, AtWork DEF Moved, Working
  <2> QED BY <1>0, <1>3, <2>1, <2>3, <2>4, AtWork, AsideRest
<1>4. CASE ~Forced(r)
  <2>1. /\ UNCHANGED <<pc, key>>
        /\ IF row[key[r]].runId = r THEN \E b : Idem!SetRow(key[r], "COMPLETED", b)
                                   ELSE UNCHANGED row
    BY <1>4 DEF Complete, Idem!Complete, Idem!Report
  <2>2. pc[r] = "working"
    BY <1>0, <1>4, AtWork
  <2>3. "ended" \in {"failing", "ended"} /\ "COMPLETED" \in {"COMPLETED", "FAILED"}
    OBVIOUS
  <2> QED BY <1>0, <1>1, <1>2, <1>4, <2>1, <2>2, <2>3, ReportRest
<1> QED BY <1>3, <1>4

\* A failure that lands may be the last of its run's.
LEMMA LandRest ==
  ASSUME LInv, NEW r \in Runs, LandArtifactFailure(r) \/ LandRowFailure(r)
  PROVE  RestInv'
<1>1. PICK call \in {"artifact", "row"} :
         /\ Land(r, call)
         /\ call = "artifact" => LandArtifactFailure(r)
         /\ call = "row" => LandRowFailure(r)
  BY DEF LandArtifactFailure, LandRowFailure
<1>2. /\ call \in pending[r] /\ pending' = [pending EXCEPT ![r] = @ \ {call}]
      /\ UNCHANGED <<request, letterOf, answer>>
  BY <1>1 DEF Land
<1>3. step[r] = "failing" /\ answer[r] \in Refusals
  BY <1>2 DEF LInv, IInv, RunInv
<1>4. PICK next \in {"failing", "ended"} : step' = [step EXCEPT ![r] = next]
  <2>1. \/ step' = [step EXCEPT ![r] = "ended"]
        \/ step' = [step EXCEPT ![r] = step[r]]
    BY <1>1 DEF Land
  <2> QED BY <1>3, <2>1
<1>5. /\ Only(request, request', r) /\ Only(answer, answer', r)
      /\ Only(letterOf, letterOf', r) /\ Only(pending, pending', r)
  BY <1>2 DEF Only
<1>6. pending'[r] = pending[r] \ {call}
  BY <1>2 DEF LInv, IInv, TypeOK
<1>7. CASE call = "artifact"
  <2>1. UNCHANGED <<row, pc, key>> /\ (Forced(r)' <=> Forced(r))
    BY <1>1, <1>2, <1>7 DEF LandArtifactFailure, idemVars, Forced
  <2>2. Only(pc, pc', r) /\ Only(key, key', r)
    BY <2>1 DEF Only
  <2>3. step'[r] = next /\ \A s \in Runs \ {r} : Stays(s)
    BY <1>4, <1>5, <2>2, OneRun
  <2>4. "row" \in pending'[r] <=> "row" \in pending[r]
    BY <1>6, <1>7
  <2>5. Moved(r)
    BY <1>2, <1>3, <2>1, <2>3, <2>4 DEF Moved, Working, LInv, KeyInv
  <2>6. Keeps(r)
    BY <1>2, <1>3, <2>4 DEF Keeps, Unfinished, Working
  <2> QED BY <2>1, <2>3, <2>5, <2>6, AsideRest
<1>8. CASE call = "row"
  <2>1. /\ UNCHANGED <<pc, key>>
        /\ IF row[key[r]].runId = r THEN \E b : Idem!SetRow(key[r], "FAILED", b)
                                   ELSE UNCHANGED row
    BY <1>1, <1>8 DEF LandRowFailure, Idem!MarkFailure, Idem!Report
  <2>2. pc[r] = "working" /\ ~Forced(r)
    BY <1>2, <1>3, <1>8 DEF LInv, KeyInv
  <2>3. answer' = [answer EXCEPT ![r] = answer[r]]
    BY <1>2 DEF LInv, IInv, TypeOK
  <2>4. "FAILED" \in {"COMPLETED", "FAILED"}
    OBVIOUS
  <2>5. UNCHANGED <<pc, key, request, letterOf>>
    BY <1>2, <2>1
  <2> QED BY <1>3, <1>4, <1>5, <2>1, <2>2, <2>3, <2>4, <2>5, ReportRest
<1> QED BY <1>7, <1>8

LEMMA CrashRest == ASSUME LInv, NEW r \in Runs, Crash(r) PROVE RestInv'
<1>0. /\ step[r] \in Working \cup {"reserving", "failing"}
      /\ step' = [step EXCEPT ![r] = "crashed"]
      /\ pending' = [pending EXCEPT ![r] = {}]
      /\ UNCHANGED <<row, key, request, letterOf, answer>>
      /\ Forced(r) => pc' = pc
      /\ ~Forced(r) => pc' = [pc EXCEPT ![r] = "crashed"]
  BY DEF Crash, idemVars, Idem!Crash
<1>1. /\ Only(pc, pc', r) /\ Only(key, key', r) /\ Only(request, request', r)
      /\ Only(answer, answer', r) /\ Only(letterOf, letterOf', r)
      /\ Only(pending, pending', r)
  BY <1>0 DEF Only
<1>2. step'[r] = "crashed" /\ \A s \in Runs \ {r} : Stays(s)
  BY <1>0, <1>1, OneRun
<1>3. /\ Forced(r)' <=> Forced(r)
      /\ pending'[r] = {}
      /\ step[r] # "idle" /\ (Forced(r) => pc[r] = "idle")
  BY <1>0 DEF Forced, Working, LInv, KeyInv, IInv, TypeOK
<1>4. ~Forced(r) => key[r] \in {BaseKey(request[r]), RegenKey(request[r], r)}
  <2>1. CASE step[r] \in Working
    BY <2>1, AtWork
  <2>2. CASE step[r] = "reserving"
    BY <2>2, InReserve
  <2>3. CASE step[r] = "failing" /\ ~Forced(r)
    <3>1. pc[r] # "idle"
      BY <2>3 DEF Crash, Idem!Crash
    <3> QED BY <3>1 DEF LInv, KeyInv
  <2> QED BY <1>0, <2>1, <2>2, <2>3
<1>5. Moved(r)
  BY <1>0, <1>2, <1>3, <1>4 DEF Moved, Working
<1>6. Keeps(r)
  BY <1>0, <1>2 DEF Keeps, Unfinished
<1> QED BY <1>0, <1>2, <1>5, <1>6, AsideRest

\* Steps that concern no run.
LEMMA NoRunRest ==
  ASSUME LInv, row' = row, \A s \in Runs : Stays(s)
  PROVE  RestInv'
<1>1. KeyInv'
  <2> SUFFICES ASSUME NEW s \in Runs PROVE Moved(s)
    BY DEF KeyInv, Moved, BaseKey, RegenKey
  <2>1. Stays(s) /\ (Forced(s)' <=> Forced(s))
    BY DEF Stays, Forced
  <2> QED BY <2>1 DEF LInv, KeyInv, Moved, Stays
<1>2. ASSUME NEW k \in Keys PROVE Told(k)'
  <2>1. row[k].status # "ABSENT" => Keeps(row[k].runId)
    BY Reserved, StaysKeeps DEF LInv
  <2> QED BY <2>1, ToldStays
<1>3. LedgerTellsTheTruth'
  BY <1>2 DEF LedgerTellsTheTruth, Told
<1> QED BY <1>1, <1>3 DEF RestInv

LEMMA LedgerNext == LInv /\ [Next]_vars => LInv'
<1> SUFFICES ASSUME LInv, [Next]_vars PROVE LInv'
  OBVIOUS
<1>1. IInv' /\ IdemP!IInv'
  BY Inductive, ReservationsStep, ReservationsNext DEF LInv
<1>2. ASSUME NEW r \in Runs, RunStep(r) PROVE RestInv'
  BY <1>2, BeginRest, ReserveRest, DecidedRest, WorkingRest, CompleteRest, LandRest, CrashRest
     DEF RunStep
<1>3. ASSUME (\E i \in 1..Len(letters) : DeleteLetter(i)) \/ UNCHANGED vars PROVE RestInv'
  <2>1. UNCHANGED <<row, pc, key, step, request, letterOf, answer, pending>>
    BY <1>3 DEF DeleteLetter, vars, idemVars, letterVars
  <2>2. row' = row /\ \A s \in Runs : Stays(s)
    BY <2>1 DEF Stays
  <2> QED BY <2>2, NoRunRest
<1> QED BY <1>1, <1>2, <1>3 DEF Next, LInv, RestInv

LEMMA LedgerFirst == Init => LInv
<1> SUFFICES ASSUME Init PROVE LInv
  OBVIOUS
<1>1. IInv /\ IdemP!IInv
  BY InitIInv, ReservationsInit DEF Init
<1>2. KeyInv
  BY DEF Init, Idem!Init, KeyInv, Working
<1>3. LedgerTellsTheTruth
  BY DEF Init, Idem!Init, Idem!NoRow, LedgerTellsTheTruth
<1> QED BY <1>1, <1>2, <1>3 DEF LInv

\* However many runs held a key before, what the table of reservations says of it is
\* true of the run that holds it.
THEOREM LedgerTruth == Spec => []LedgerTellsTheTruth
<1>1. LInv => LedgerTellsTheTruth
  BY DEF LInv
<1> QED BY <1>1, LedgerFirst, LedgerNext, PTL DEF Spec

-----------------------------------------------------------------------------
(* A run goes through its handler once, and nobody waits *)

IdemStep(r) ==
    \/ \E k \in Keys : Idem!Reserve(r, k)
    \/ Idem!Find(r) \/ Idem!SaveExisting(r) \/ Idem!InsertRow(r) \/ Idem!Refind(r)
    \/ \E st \in Idem!FailureStatuses : Idem!MarkFailure(r, st)
    \/ Idem!Complete(r) \/ Idem!End(r)
    \/ Idem!Crash(r)

LEMMA SameStep == ASSUME NEW r \in Runs PROVE IdemStep(r) <=> IdemP!StepOf(r)
  BY DEF IdemStep, Idem!Reserve, Idem!Find, Idem!SaveExisting, Idem!InsertRow, Idem!Refind,
         Idem!FoundTaken, Idem!Replied, Idem!GoOn, Idem!Accept, Idem!FailureStatuses,
         Idem!Complete, Idem!Report, Idem!SetRow, Idem!MarkFailure, Idem!End, Idem!Crash,
         IdemP!StepOf, IdemP!Reserve, IdemP!Find, IdemP!SaveExisting, IdemP!InsertRow,
         IdemP!Refind, IdemP!FoundTaken, IdemP!Replied, IdemP!GoOn, IdemP!Accept,
         IdemP!FailureStatuses, IdemP!Complete, IdemP!Report, IdemP!SetRow,
         IdemP!MarkFailure, IdemP!End, IdemP!Crash

LEMMA OneReservation ==
  ASSUME IInv, NEW r \in Runs, RunStep(r)
  PROVE  IdemStep(r) \/ UNCHANGED idemVars
<1>1. ASSUME NEW req \in Requests, Begin(r, req) PROVE IdemStep(r) \/ UNCHANGED idemVars
  <2>1. BaseKey(req) \in Keys
    BY DEF BaseKey, Keys, Requests
  <2> QED BY <1>1, <2>1 DEF Begin, IdemStep
<1>2. CASE ReserveAgain(r)
  <2>1. RegenKey(request[r], r) \in Keys
    BY <1>2 DEF ReserveAgain, RegenKey, Keys, Requests, IInv, RunInv
  <2> QED BY <1>2, <2>1 DEF ReserveAgain, IdemStep
<1>3. CASE ReserveStep(r) \/ TurnAway(r) \/ Complete(r) \/ Crash(r)
  BY <1>3 DEF ReserveStep, TurnAway, Complete, Crash, IdemStep
<1>4. CASE LandRowFailure(r)
  BY <1>4 DEF LandRowFailure, Idem!FailureStatuses, IdemStep
<1>5. CASE \/ RecordInProgress(r) \/ EnsureNoDuplicate(r) \/ SaveLetter(r)
           \/ ResolveConflict(r) \/ OverwriteLetter(r) \/ RefuseLetter(r)
           \/ RecordSuccess(r) \/ LandArtifactFailure(r) \/ DatabaseError(r)
  BY <1>5 DEF RecordInProgress, EnsureNoDuplicate, SaveLetter, ResolveConflict,
              OverwriteLetter, RefuseLetter, RecordSuccess, LandArtifactFailure, DatabaseError
<1> QED BY <1>1, <1>2, <1>3, <1>4, <1>5 DEF RunStep

\* Nothing of run r changes.
Untouched(r) ==
    /\ UNCHANGED <<step[r], request[r], letterOf[r], answer[r], pending[r]>>
    /\ UNCHANGED <<pc[r], key[r], outcome[r], reply[r], updates[r]>>

LEMMA OthersUntouched ==
  ASSUME LInv, NEW r \in Runs, RunStep(r), NEW s \in Runs \ {r}
  PROVE  Untouched(s)
<1>1. UNCHANGED <<pc[s], key[s], outcome[s], reply[s], updates[s]>>
  <2>1. CASE IdemStep(r)
    <3>1. IdemP!TypeOK /\ IdemP!StepOf(r)
      BY <2>1, SameStep DEF LInv, IdemP!IInv
    <3>2. /\ pc'[s] = pc[s] /\ key'[s] = key[s] /\ outcome'[s] = outcome[s]
          /\ reply'[s] = reply[s] /\ updates'[s] = updates[s]
      BY <3>1, IdemP!Frame, NoKeyAssumption, NoRunAssumption, UpsetsAssumption
    <3> QED BY <3>2
  <2>2. CASE UNCHANGED idemVars
    BY <2>2 DEF idemVars
  <2> QED BY <2>1, <2>2, OneReservation DEF LInv
<1>2. UNCHANGED <<step[s], request[s], letterOf[s], answer[s], pending[s]>>
  <2> USE DEF LInv, IInv, TypeOK
  <2>1. CASE (\E req \in Requests : Begin(r, req)) \/ ReserveStep(r) \/ ReserveAgain(r)
    BY <2>1 DEF Begin, ReserveStep, ReserveAgain, letterVars
  <2>2. CASE TurnAway(r) \/ Complete(r) \/ Crash(r)
    BY <2>2 DEF TurnAway, Complete, Crash
  <2>3. CASE RecordInProgress(r) \/ RecordSuccess(r) \/ RefuseLetter(r) \/ DatabaseError(r)
    BY <2>3 DEF RecordInProgress, RecordSuccess, RefuseLetter, DatabaseError, Proceed, Fail
  <2>4. CASE EnsureNoDuplicate(r) \/ SaveLetter(r)
    BY <2>4 DEF EnsureNoDuplicate, SaveLetter, Proceed, Fail
  <2>5. CASE ResolveConflict(r) \/ OverwriteLetter(r)
    BY <2>5 DEF ResolveConflict, OverwriteLetter, Proceed, Fail
  <2>6. CASE LandArtifactFailure(r) \/ LandRowFailure(r)
    BY <2>6 DEF LandArtifactFailure, LandRowFailure, Land
  <2> QED BY <2>1, <2>2, <2>3, <2>4, <2>5, <2>6 DEF RunStep
<1> QED BY <1>1, <1>2 DEF Untouched

\* Every step is a step of one run, or of none.
LEMMA AllSteps ==
  ASSUME LInv, [Next]_vars, NEW s \in Runs
  PROVE  RunStep(s) \/ Untouched(s)
<1>1. CASE \E r \in Runs : RunStep(r)
  BY <1>1, OthersUntouched
<1>2. CASE (\E i \in 1..Len(letters) : DeleteLetter(i)) \/ UNCHANGED vars
  BY <1>2 DEF DeleteLetter, vars, idemVars, letterVars, Untouched
<1> QED BY <1>1, <1>2 DEF Next

\* How many steps a run is from its end at most; a first key that is completed leads to
\* a second.
StepRank(s) ==
    CASE s = "idle" -> 20
      [] s = "starting" -> 9
      [] s = "checking" -> 8
      [] s = "saving" -> 7
      [] s = "resolving" -> 6
      [] s = "overwriting" -> 5
      [] s = "recording" -> 4
      [] s = "completing" -> 3
      [] OTHER -> 0
ReserveRank(p) ==
    CASE p = "finding" -> 13
      [] p \in {"saving", "inserting"} -> 12
      [] p = "refinding" -> 11
      [] OTHER -> 10
SecondKey(r) == key[r] = RegenKey(request[r], r)
LandRank(calls) ==
    IF calls = {} THEN 0 ELSE IF calls = {"artifact", "row"} THEN 2 ELSE 1
Rank(r) ==
    IF step[r] = "reserving" THEN ReserveRank(pc[r]) + (IF SecondKey(r) THEN 0 ELSE 4)
    ELSE IF step[r] = "failing" THEN LandRank(pending[r])
    ELSE StepRank(step[r])

\* A step of the server that run r may take: the guards of ServerStep.
Ready(r) ==
    \/ step[r] = "reserving" /\ pc[r] \in {"finding", "saving", "inserting"}
    \/ step[r] = "reserving" /\ pc[r] = "refinding" /\ row[key[r]].status # "ABSENT"
    \/ step[r] = "reserving" /\ pc[r] = "replied" /\ outcome[r] = "existing_in_flight"
    \/ /\ step[r] = "reserving" /\ pc[r] = "replied" /\ outcome[r] = "existing_completed"
       /\ ~SecondKey(r)
    \/ step[r] \in Working \ {"completing"}
    \/ step[r] = "completing" /\ (Forced(r) \/ (pc[r] = "working" /\ updates[r] < 2))
    \/ "artifact" \in pending[r]
    \/ "row" \in pending[r] /\ pc[r] = "working" /\ updates[r] < 2

\* A step of a run takes it nearer to its end, and a step of another leaves it alone.
ForwardOnly == [][\A r \in Runs : Rank(r)' < Rank(r) \/ Untouched(r)]_vars

\* A run that was called and has not ended can go on, whatever the others do: the row it
\* meets has an answer for it, its second key is nobody else's, its failure has a call
\* left to land, and it has never made all the reports it may make.
NobodyWaits == \A r \in Runs : step[r] \in Working \cup {"reserving", "failing"} => Ready(r)

\* What the progress of r rests on: it reports once, at its end, and takes a letter once.
Own(r) ==
    /\ step[r] \in Working \cup {"idle", "reserving"} => updates[r] = 0
    /\ "row" \in pending[r] => updates[r] = 0
    /\ step[r] = "failing" => pending[r] # {}
    /\ step[r] \in Unsaved \cup {"resolving"} => letterOf[r] = NoRun

\* What a stored result says of the run that computed it.
Repeats(r) ==
    outcome[r] = "existing_completed" =>
        answer[reply[r]] = "success" /\ letterOf[reply[r]] # NoRun

\* The run that had the key of r before, and was refused.
FailedBefore(f, r) ==
    outcome[f] = "accepted_new" /\ key[f] = key[r] /\ answer[f] \in Refusals

PathInv ==
    /\ \A r \in Runs : Own(r) /\ Repeats(r)
    /\ \A r \in Runs : IdemP!Reopens(r) => \E f \in Runs : FailedBefore(f, r)
    /\ \A k \in Keys : row[k].status \notin {"STALE", "PERSISTENCE_CONFLICT"}

AInv == LInv /\ IdemP!AnswersAreHandled /\ PathInv

\* What the reservations say of a run in the words of this module.
LEMMA PhasesOf ==
  ASSUME AInv, NEW r \in Runs
  PROVE  /\ pc[r] \in Idem!Phases /\ updates \in [Runs -> Nat]
         /\ outcome[r] = "existing_completed" =>
               reply[r] \in Runs \ {r} /\ key[reply[r]] = key[r] /\ pc[reply[r]] # "idle"
         /\ pc[r] \in {"idle", "finding", "saving", "inserting", "refinding"} =>
               outcome[r] = "none"
         /\ pc[r] = "working" => outcome[r] \in {"accepted_new", "persistence_conflict"}
         /\ pc[r] = "replied" => outcome[r] \in {"existing_completed", "existing_in_flight"}
         /\ pc[r] = "refinding" => row[key[r]].status # "ABSENT"
  BY DEF AInv, LInv, IdemP!IInv, IdemP!TypeOK, IdemP!PhaseInv, IdemP!Phases, Idem!Phases,
         IdemP!ReplayIsAnAcceptedResult, IdemP!Accepted, IdemP!AnswersAreHandled,
         IdemP!AnswerHandled

LEMMA Typed ==
  ASSUME AInv
  PROVE  /\ step \in [Runs -> Steps] /\ request \in [Runs -> Requests \cup {NoRequest}]
         /\ letterOf \in [Runs -> Runs \cup {NoRun}] /\ answer \in [Runs -> Answers]
         /\ pending \in [Runs -> SUBSET {"artifact", "row"}]
         /\ pc \in [Runs -> Idem!Phases] /\ key \in [Runs -> Keys \cup {NoKey}]
         /\ outcome \in [Runs -> Idem!Outcomes] /\ updates \in [Runs -> Nat]
         /\ reply \in [Runs -> Runs \cup {NoRun}] /\ row \in [Keys -> Idem!Rows]
  BY Reserved DEF AInv, LInv, IInv, TypeOK, IdemP!IInv, IdemP!TypeOK

\* The second key of a run is no key of another run, nor anybody's first.
LEMMA KeysApart ==
  ASSUME NEW r \in Runs, NEW f \in Runs \ {r}, NEW a, NEW b, NEW k,
         k \in {BaseKey(a), RegenKey(a, r)}, k \in {BaseKey(b), RegenKey(b, f)}
  PROVE  k = BaseKey(a) /\ k = BaseKey(b) /\ k # RegenKey(a, r)
<1>1. BaseKey(a) # RegenKey(b, f) /\ RegenKey(a, r) # BaseKey(b) /\ RegenKey(a, r) # RegenKey(b, f)
  BY DEF BaseKey, RegenKey
<1>2. BaseKey(a) # RegenKey(a, r)
  BY DEF BaseKey, RegenKey
<1> QED BY <1>1, <1>2

\* Where a run that moves stands, and what it has done.
LEMMA OwnStep ==
  ASSUME AInv, NEW r \in Runs, RunStep(r)
  PROVE  Own(r)' /\ Rank(r)' < Rank(r)
<1>0. /\ Own(r) /\ RunInv
      /\ step[r] \in Working => pending[r] = {} /\ answer[r] = "none"
      /\ step[r] \in {"idle", "reserving"} => pending[r] = {}
  BY DEF AInv, LInv, IInv, PathInv, RunInv, Working
<1>00. \A calls \in SUBSET {"artifact", "row"} :
          /\ LandRank(calls) \in {0, 1, 2} /\ (calls # {} => LandRank(calls) > 0)
          /\ \A c \in calls : LandRank(calls \ {c}) < LandRank(calls)
  <2>1. ASSUME NEW calls \in SUBSET {"artifact", "row"}
        PROVE  /\ LandRank(calls) \in {0, 1, 2} /\ (calls # {} => LandRank(calls) > 0)
               /\ \A c \in calls : LandRank(calls \ {c}) < LandRank(calls)
    <3>1. CASE calls = {}
      BY <3>1 DEF LandRank
    <3>2. CASE calls = {"artifact", "row"}
      <4>1. \A c \in calls : calls \ {c} # {"artifact", "row"}
        BY <3>2
      <4> QED BY <3>2, <4>1 DEF LandRank
    <3>3. CASE calls # {} /\ calls # {"artifact", "row"}
      <4>0. ~("artifact" \in calls /\ "row" \in calls)
        BY ONLY <3>3, calls \in SUBSET {"artifact", "row"}
      <4>1. calls = {"artifact"} \/ calls = {"row"}
        <5>1. CASE "artifact" \in calls
          BY ONLY <5>1, <4>0, calls \in SUBSET {"artifact", "row"}
        <5>2. CASE "artifact" \notin calls
          BY ONLY <5>2, <3>3, calls \in SUBSET {"artifact", "row"}
        <5> QED BY <5>1, <5>2
      <4>2. \A c \in calls : calls \ {c} = {}
        BY <4>1
      <4>3. LandRank(calls) = 1 /\ LandRank({}) = 0
        BY <3>3 DEF LandRank
      <4>4. \A c \in calls : LandRank(calls \ {c}) = 0
        BY <4>2, <4>3
      <4> QED BY <4>3, <4>4
    <3> QED BY <3>1, <3>2, <3>3
  <2> QED BY <2>1
<1> USE <1>0, Typed DEF Own
<1>1. ASSUME NEW req \in Requests, Begin(r, req) PROVE Own(r)' /\ Rank(r)' < Rank(r)
  <2>1. /\ step[r] = "idle" /\ UNCHANGED <<letterOf, pending>>
        /\ \/ step'[r] = "starting" /\ updates' = updates
           \/ step'[r] = "reserving" /\ pc'[r] = "finding" /\ updates'[r] = 0
    BY <1>1 DEF Begin, Idem!Reserve, idemVars
  <2> QED BY <2>1 DEF Working, Unsaved, Rank, StepRank, ReserveRank
<1>2. CASE ReserveStep(r)
  <2>1. /\ step[r] = "reserving" /\ UNCHANGED <<letterOf, pending, request>>
        /\ step'[r] = IF pc'[r] = "working" THEN "starting" ELSE "reserving"
    BY <1>2 DEF ReserveStep
  <2>2. /\ updates' = updates /\ key' = key /\ ReserveRank(pc[r]) > 9
        /\ ReserveRank(pc[r]) \in Nat /\ ReserveRank(pc'[r]) \in Nat
        /\ pc'[r] = "working" \/ ReserveRank(pc'[r]) < ReserveRank(pc[r])
    <3>1. CASE Idem!Find(r)
      BY <3>1 DEF Idem!Find, Idem!FoundTaken, Idem!Replied, Idem!GoOn, ReserveRank
    <3>2. CASE Idem!SaveExisting(r)
      BY <3>2 DEF Idem!SaveExisting, Idem!Accept, ReserveRank
    <3>3. CASE Idem!InsertRow(r)
      BY <3>3 DEF Idem!InsertRow, Idem!Accept, Idem!GoOn, ReserveRank
    <3>4. CASE Idem!Refind(r)
      BY <3>4 DEF Idem!Refind, Idem!FoundTaken, Idem!Replied, ReserveRank
    <3> QED BY <1>2, <3>1, <3>2, <3>3, <3>4 DEF ReserveStep
  <2>3. SecondKey(r)' <=> SecondKey(r)
    BY <2>1, <2>2 DEF SecondKey, RegenKey
  <2> HIDE DEF ReserveRank, SecondKey
  <2> QED BY <2>1, <2>2, <2>3 DEF Working, Unsaved, Rank, StepRank
<1>3. CASE ReserveAgain(r)
  <2>1. /\ step[r] = "reserving" /\ pc[r] = "replied" /\ step' = step
        /\ UNCHANGED <<letterOf, pending, request>>
        /\ pc'[r] = "finding" /\ updates'[r] = 0
        /\ key'[r] = RegenKey(request[r], r) /\ key[r] # RegenKey(request[r], r)
    BY <1>3 DEF ReserveAgain, Idem!Reserve, letterVars
  <2>2. ~SecondKey(r) /\ SecondKey(r)'
    BY <2>1 DEF SecondKey, RegenKey
  <2> HIDE DEF SecondKey
  <2> QED BY <2>1, <2>2 DEF Working, Unsaved, Rank, ReserveRank
<1>4. CASE TurnAway(r) \/ Complete(r)
  <2>1. /\ step[r] = "completing" \/ (step[r] = "reserving" /\ pc[r] = "replied")
        /\ step'[r] = "ended" /\ pending' = pending
    BY <1>4 DEF TurnAway, Complete
  <2> QED BY <2>1 DEF Working, Unsaved, Rank, StepRank, ReserveRank
<1>5. ASSUME NEW ans, Fail(r, ans), step[r] \in Working, updates' = updates
      PROVE  Own(r)' /\ Rank(r)' < Rank(r)
  <2>1. /\ step'[r] = "failing" /\ pending'[r] # {} /\ updates'[r] = 0
        /\ pending'[r] \in SUBSET {"artifact", "row"}
    BY <1>5 DEF Fail
  <2>2. LandRank(pending'[r]) < 3
    BY <1>00, <2>1
  <2>3. Rank(r)' = LandRank(pending'[r])
    BY <2>1 DEF Rank
  <2>4. Rank(r) \in Nat /\ Rank(r) >= 3
    BY <1>5 DEF Working, Rank, StepRank
  <2>5. LandRank(pending'[r]) \in Nat
    BY <1>00, <2>1
  <2>6. Own(r)'
    BY <2>1 DEF Unsaved, Working
  <2> QED BY <2>2, <2>3, <2>4, <2>5, <2>6
<1>6. ASSUME NEW next, Proceed(r, next), updates' = updates,
             \/ step[r] = "starting" /\ next \in {"saving", "checking"} /\ letterOf' = letterOf
             \/ step[r] = "checking" /\ next = "saving" /\ letterOf' = letterOf
             \/ step[r] = "saving" /\ next = "resolving" /\ letterOf' = letterOf
             \/ step[r] = "saving" /\ next = "recording"
             \/ step[r] = "resolving" /\ next \in {"overwriting", "recording"}
             \/ step[r] = "overwriting" /\ next = "recording"
             \/ step[r] = "recording" /\ next = "completing"
      PROVE  Own(r)' /\ Rank(r)' < Rank(r)
  <2>1. step'[r] = next /\ pending' = pending
    BY <1>6 DEF Proceed
  <2> QED BY <1>6, <2>1 DEF Working, Unsaved, Rank, StepRank
<1>7. CASE RecordInProgress(r) \/ EnsureNoDuplicate(r) \/ SaveLetter(r)
  BY <1>5, <1>6, <1>7
     DEF RecordInProgress, EnsureNoDuplicate, SaveLetter, idemVars, Working, Fail
<1>8. CASE ResolveConflict(r) \/ OverwriteLetter(r)
  BY <1>5, <1>6, <1>8 DEF ResolveConflict, OverwriteLetter, idemVars, Working
<1>9. CASE RefuseLetter(r) \/ RecordSuccess(r) \/ DatabaseError(r)
  BY <1>5, <1>6, <1>9 DEF RefuseLetter, RecordSuccess, DatabaseError, idemVars, Working
<1>10. ASSUME NEW call \in {"artifact", "row"}, Land(r, call),
              updates' = updates \/ call = "row"
       PROVE  Own(r)' /\ Rank(r)' < Rank(r)
  <2>1. /\ step[r] = "failing" /\ pending'[r] = pending[r] \ {call} /\ call \in pending[r]
        /\ step'[r] = IF pending'[r] = {} THEN "ended" ELSE "failing"
        /\ letterOf' = letterOf
    BY <1>10 DEF Land, RunInv
  <2>2. LandRank(pending'[r]) < LandRank(pending[r]) /\ 0 < LandRank(pending[r])
    BY <1>00, <2>1
  <2>3. Rank(r) = LandRank(pending[r])
    BY <2>1 DEF Rank
  <2>4. Rank(r)' < Rank(r)
    BY <2>1, <2>2, <2>3 DEF Rank, StepRank
  <2>5. Own(r)'
    BY <1>10, <2>1 DEF Unsaved, Working
  <2> QED BY <2>4, <2>5
<1>11. CASE LandArtifactFailure(r) \/ LandRowFailure(r)
  BY <1>10, <1>11 DEF LandArtifactFailure, LandRowFailure, idemVars
<1>12. CASE Crash(r)
  <2>1. /\ step[r] \in Working \cup {"reserving", "failing"} /\ step'[r] = "crashed"
        /\ pending'[r] = {}
    BY <1>12 DEF Crash
  <2>2. step[r] = "failing" => 0 < LandRank(pending[r])
    BY <1>00
  <2> QED BY <2>1, <2>2 DEF Working, Unsaved, Rank, StepRank, ReserveRank
<1> QED
  BY <1>1, <1>2, <1>3, <1>4, <1>7, <1>8, <1>9, <1>11, <1>12 DEF RunStep

\* A run that has answered keeps its answer, and one with a letter does nothing more.
LEMMA AnsweredRests ==
  ASSUME AInv, [Next]_vars, NEW r \in Runs, answer[r] # "none"
  PROVE  /\ UNCHANGED <<answer[r], letterOf[r], request[r], key[r], outcome[r]>>
         /\ answer[r] = "success" => Untouched(r)
<1>1. /\ step[r] \in {"failing", "ended", "crashed"}
      /\ answer[r] = "success" => step[r] # "failing" /\ pending[r] = {}
  BY DEF AInv, LInv, IInv, RunInv, PathInv, Own, Refusals
<1>2. CASE Untouched(r)
  BY <1>2 DEF Untouched
<1>3. CASE RunStep(r)
  <2>1. LandArtifactFailure(r) \/ LandRowFailure(r) \/ Crash(r)
    BY <1>1, <1>3 DEF RunStep, Begin, ReserveStep, ReserveAgain, TurnAway, RecordInProgress,
       EnsureNoDuplicate, SaveLetter, ResolveConflict, OverwriteLetter, RefuseLetter,
       RecordSuccess, Complete, DatabaseError, Working
  <2>2. UNCHANGED <<answer, letterOf, request, key, outcome>>
    BY <2>1 DEF LandArtifactFailure, LandRowFailure, Crash, Land, idemVars, Idem!Crash,
                Idem!MarkFailure, Idem!Report
  <2>3. answer[r] # "success"
    BY <1>1, <2>1 DEF LandArtifactFailure, LandRowFailure, Land, Crash, Working
  <2> QED BY <2>2, <2>3
<1> QED BY <1>2, <1>3, AllSteps DEF AInv

\* The steps of the reservations, as WorkflowIdempotencyProofs has them.
LEMMA Reservations ==
  ASSUME AInv, [Next]_vars
  PROVE  IdemP!IInv /\ IdemP!AnswersAreHandled /\ [IdemP!Next]_(IdemP!vars)
  BY ReservationsStep, SameReservations DEF AInv, LInv

LEMMA RepeatsStep ==
  ASSUME AInv, [Next]_vars, NEW s \in Runs, outcome'[s] = "existing_completed"
  PROVE  answer'[reply'[s]] = "success" /\ letterOf'[reply'[s]] # NoRun
<1>1. /\ key[s] \in Keys
      /\ \/ outcome[s] = "existing_completed" /\ reply'[s] = reply[s]
         \/ row[key[s]].status = "COMPLETED" /\ reply'[s] = row[key[s]].runId
  BY Reservations, IdemP!ReplayChange, NoKeyAssumption, NoRunAssumption, UpsetsAssumption
<1>2. PICK f \in Runs : f = reply'[s] /\ answer[f] = "success" /\ letterOf[f] # NoRun
  <2>1. CASE outcome[s] = "existing_completed" /\ reply'[s] = reply[s]
    BY <2>1, PhasesOf DEF AInv, PathInv, Repeats
  <2>2. CASE row[key[s]].status = "COMPLETED" /\ reply'[s] = row[key[s]].runId
    <3>1. PICK k \in Keys : k = key[s]
      BY <1>1
    <3>2. row[k].runId \in Runs
      BY <2>2, <3>1, Reserved DEF AInv, LInv
    <3> QED BY <2>2, <3>1, <3>2 DEF AInv, LInv, LedgerTellsTheTruth
  <2> QED BY <1>1, <2>1, <2>2
<1> QED BY <1>2, AnsweredRests DEF Untouched

LEMMA FailedBeforeStep ==
  ASSUME AInv, [Next]_vars, NEW s \in Runs, IdemP!Reopens(s)'
  PROVE  \E f \in Runs : FailedBefore(f, s)'
<1>1. /\ key'[s] = key[s] /\ key[s] \in Keys
      /\ IdemP!Reopens(s) \/ row[key[s]].status \in IdemP!FailureStatuses
  BY Reservations, IdemP!ReopensChange, NoKeyAssumption, NoRunAssumption, UpsetsAssumption
<1>2. PICK f \in Runs : FailedBefore(f, s)
  <2>1. CASE IdemP!Reopens(s)
    BY <2>1 DEF AInv, PathInv
  <2>2. CASE row[key[s]].status \in IdemP!FailureStatuses
    <3>1. PICK k \in Keys : k = key[s]
      BY <1>1
    <3>2. row[k].status = "FAILED"
      BY <2>2, <3>1 DEF IdemP!FailureStatuses, AInv, PathInv
    <3>3. PICK f \in Runs : f = row[k].runId /\ outcome[f] = "accepted_new" /\ key[f] = k
      BY <3>2, Reserved DEF AInv, LInv
    <3>4. answer[f] \in Refusals
      BY <3>2, <3>3 DEF AInv, LInv, LedgerTellsTheTruth
    <3> QED BY <3>1, <3>3, <3>4 DEF FailedBefore
  <2> QED BY <1>1, <2>1, <2>2
<1>3. UNCHANGED <<answer[f], key[f], outcome[f]>>
  BY <1>2, AnsweredRests DEF FailedBefore, Refusals
<1>4. FailedBefore(f, s)'
  BY <1>1, <1>2, <1>3 DEF FailedBefore
<1> QED BY <1>4

\* The handlers report success and FAILED alone.
LEMMA ReportsStep ==
  ASSUME AInv, [Next]_vars, NEW k \in Keys
  PROVE  row'[k].status \notin {"STALE", "PERSISTENCE_CONFLICT"}
<1>0. row[k].status \notin {"STALE", "PERSISTENCE_CONFLICT"}
  BY DEF AInv, PathInv
<1>1. CASE row' = row
  BY <1>0, <1>1
<1>2. ASSUME NEW r \in Runs, Idem!Accept(r) PROVE row'[k].status \in {row[k].status, "IN_FLIGHT"}
  BY <1>2, Typed DEF Idem!Accept
<1>3. ASSUME NEW r \in Runs, Idem!Complete(r) \/ Idem!MarkFailure(r, "FAILED")
      PROVE  row'[k].status \in {row[k].status, "COMPLETED", "FAILED"}
  BY <1>3, Typed DEF Idem!Complete, Idem!MarkFailure, Idem!SetRow
<1>4. ASSUME NEW r \in Runs, RunStep(r), row' # row
      PROVE  Idem!Accept(r) \/ Idem!Complete(r) \/ Idem!MarkFailure(r, "FAILED")
  BY <1>4 DEF RunStep, Begin, ReserveStep, ReserveAgain, TurnAway, RecordInProgress,
     EnsureNoDuplicate, SaveLetter, ResolveConflict, OverwriteLetter, RefuseLetter,
     RecordSuccess, Complete, LandArtifactFailure, LandRowFailure, DatabaseError, Crash,
     idemVars, Idem!Reserve, Idem!Find, Idem!FoundTaken, Idem!Replied, Idem!GoOn,
     Idem!SaveExisting, Idem!InsertRow, Idem!Refind, Idem!End, Idem!Crash
<1>5. row' = row \/ \E r \in Runs : RunStep(r)
  BY DEF Next, DeleteLetter, vars, idemVars
<1> QED BY <1>0, <1>1, <1>2, <1>3, <1>4, <1>5

LEMMA PathNext == AInv /\ [Next]_vars => AInv'
<1> SUFFICES ASSUME AInv, [Next]_vars PROVE AInv'
  OBVIOUS
<1>1. LInv'
  BY LedgerNext DEF AInv
<1>2. IdemP!AnswersAreHandled'
  BY Reservations, IdemP!AnswersStep, NoKeyAssumption, NoRunAssumption, UpsetsAssumption
<1>3. \A r \in Runs : Own(r)'
  <2> TAKE r \in Runs
  <2>1. CASE Untouched(r)
    BY <2>1 DEF Untouched, AInv, PathInv, Own
  <2> QED BY <2>1, OwnStep, AllSteps DEF AInv
<1>4. \A r \in Runs : Repeats(r)'
  BY RepeatsStep DEF Repeats
<1> QED BY <1>1, <1>2, <1>3, <1>4, FailedBeforeStep, ReportsStep DEF AInv, PathInv

LEMMA PathFirst == Init => AInv
<1> SUFFICES ASSUME Init PROVE AInv
  OBVIOUS
<1>1. LInv
  BY LedgerFirst
<1>2. IdemP!AnswersAreHandled
  <2>1. Idem!Init
    BY DEF Init
  <2>2. IdemP!Init
    BY <2>1, SameReservations
  <2> QED BY <2>2, IdemP!AnswersInit, NoKeyAssumption, NoRunAssumption, UpsetsAssumption
<1>3. PathInv
  BY DEF Init, Idem!Init, Idem!NoRow, PathInv, Own, Repeats, IdemP!Reopens, Working, Unsaved
<1> QED BY <1>1, <1>2, <1>3 DEF AInv

LEMMA PathInvariance == Spec => []AInv
  BY PathFirst, PathNext, PTL DEF Spec

\* A run goes through its handler once: every step of a run takes it nearer to its end,
\* its second reservation too, and no step of another run or of a user sets it back.
THEOREM GoesForward == Spec => ForwardOnly
<1>1. AInv /\ [Next]_vars => [\A r \in Runs : Rank(r)' < Rank(r) \/ Untouched(r)]_vars
  BY OwnStep, AllSteps DEF AInv
<1> QED BY <1>1, PathInvariance, PTL DEF Spec, ForwardOnly

\* A stored result met under the key of the inputs.
LEMMA FirstKey ==
  ASSUME AInv, NEW r \in Runs, outcome[r] = "existing_completed"
  PROVE  /\ reply[r] \in Runs \ {r} /\ BaseKey(request[reply[r]]) = BaseKey(request[r])
         /\ key[r] = BaseKey(request[r]) /\ ~SecondKey(r)
<1>1. PICK f \in Runs \ {r} : f = reply[r] /\ key[f] = key[r] /\ pc[f] # "idle"
  BY PhasesOf
<1>2. pc[r] # "idle"
  BY PhasesOf
<1>3. /\ key[r] \in {BaseKey(request[r]), RegenKey(request[r], r)}
      /\ key[r] \in {BaseKey(request[f]), RegenKey(request[f], f)}
  BY <1>1, <1>2 DEF AInv, LInv, KeyInv
<1>4. key[r] = BaseKey(request[r]) /\ key[r] = BaseKey(request[f])
      /\ key[r] # RegenKey(request[r], r)
  BY <1>3, KeysApart
<1> QED BY <1>1, <1>4 DEF SecondKey

\* A run that was called and has not ended can always go on: with GoesForward, the
\* argument for EveryRequestEnds and GenerationEnds short of the fairness rule.
THEOREM ReadyToGoOn == Spec => []NobodyWaits
<1>1. AInv => NobodyWaits
  <2> SUFFICES ASSUME AInv, NEW r \in Runs, step[r] \in Working \cup {"reserving", "failing"}
               PROVE  Ready(r)
    BY DEF NobodyWaits
  <2>1. CASE step[r] = "reserving"
    <3>1. /\ pc[r] \in Reserving
          /\ pc[r] = "refinding" => row[key[r]].status # "ABSENT"
          /\ pc[r] = "replied" => outcome[r] \in {"existing_completed", "existing_in_flight"}
      BY <2>1, PhasesOf DEF AInv, LInv, KeyInv
    <3>2. outcome[r] = "existing_completed" => ~SecondKey(r)
      BY FirstKey
    <3> QED BY <2>1, <3>1, <3>2 DEF Ready, Reserving
  <2>2. CASE step[r] \in Working
    <3>1. Forced(r) \/ pc[r] = "working"
      BY <2>2 DEF AInv, LInv, KeyInv
    <3>2. updates[r] = 0
      BY <2>2 DEF AInv, PathInv, Own
    <3> QED BY <2>2, <3>1, <3>2 DEF Ready
  <2>3. CASE step[r] = "failing"
    <3>1. /\ "artifact" \in pending[r] \/ "row" \in pending[r]
          /\ "row" \in pending[r] => pc[r] = "working" /\ updates[r] = 0
      BY <2>3, Typed DEF AInv, LInv, KeyInv, PathInv, Own
    <3> QED BY <3>1 DEF Ready
  <2> QED BY <2>1, <2>2, <2>3
<1> QED BY <1>1, PathInvariance, PTL

\* The rank that a run loses with every step is a natural number.
Counted == \A r \in Runs : Rank(r) \in Nat

LEMMA RanksCount == Counted
BY DEF Counted, Rank, StepRank, ReserveRank, LandRank

\* Every request for a letter that has begun can go on until it ends, and gets
\* nearer to its end with every step: what EveryRequestEnds and GenerationEnds need
\* besides fairness.
THEOREM Progress == Spec => ForwardOnly /\ []Counted /\ []NobodyWaits
BY GoesForward, RanksCount, ReadyToGoOn, PTL

\* A run that finds its key completed is told of a letter that another run of the same
\* inputs answered with; and it finds that once, under its first key: the second is its
\* own, so that no request reserves a third time.
ReplaysAreTrue ==
    \A r \in Runs : outcome[r] = "existing_completed" =>
        LET f == reply[r]
        IN  /\ f # r /\ BaseKey(request[f]) = BaseKey(request[r])
            /\ answer[f] = "success" /\ letterOf[f] # NoRun
            /\ key[r] = BaseKey(request[r])

\* However requests interleave, a stored result is that of a run of the same inputs.
THEOREM ReplayTruth == Spec => []ReplaysAreTrue
<1>1. AInv => ReplaysAreTrue
  <2> SUFFICES ASSUME AInv, NEW r \in Runs, outcome[r] = "existing_completed"
               PROVE  /\ reply[r] # r /\ BaseKey(request[reply[r]]) = BaseKey(request[r])
                      /\ answer[reply[r]] = "success" /\ letterOf[reply[r]] # NoRun
                      /\ key[r] = BaseKey(request[r])
    BY DEF ReplaysAreTrue
  <2> QED BY FirstKey DEF AInv, PathInv, Repeats
<1> QED BY <1>1, PathInvariance, PTL

\* Two runs do the work of one key only when one of them wrote over the row of a run that
\* was refused: however requests race, no letter is generated twice for a key before.
RepeatedWorkFollowsAnError ==
    \A r, s \in Runs :
        (r # s /\ Idem!Accepted(r) /\ Idem!Accepted(s) /\ key[r] = key[s]) =>
            \E f \in Runs : Idem!Accepted(f) /\ key[f] = key[r] /\ answer[f] \in Refusals

\* A key is worked on again only after a refusal.
THEOREM RepeatedWork == Spec => []RepeatedWorkFollowsAnError
<1>1. AInv => RepeatedWorkFollowsAnError
  <2> SUFFICES ASSUME AInv, NEW r \in Runs, NEW s \in Runs, r # s,
                      outcome[r] = "accepted_new", outcome[s] = "accepted_new",
                      key[r] = key[s]
               PROVE  \E f \in Runs : /\ outcome[f] = "accepted_new" /\ key[f] = key[r]
                                     /\ answer[f] \in Refusals
    BY DEF RepeatedWorkFollowsAnError, Idem!Accepted
  <2>1. PICK t \in {r, s} : t \in reopened
    BY DEF AInv, LInv, IdemP!IInv, IdemP!DuplicateWorkNeedsAFailure, IdemP!Accepted
  <2>2. PICK f \in Runs : FailedBefore(f, t)
    BY <2>1 DEF AInv, PathInv, IdemP!Reopens
  <2> QED BY <2>2 DEF FailedBefore
<1> QED BY <1>1, PathInvariance, PTL

\* A result stays stored whoever reports, however late, unless a run that had read the
\* row when it was failed writes its own over it (save has no compare-and-swap).
Overwrites(r, h) ==
    /\ pc[r] = "saving" /\ key[r] = h
    /\ row'[h] = [status |-> "IN_FLIGHT", runId |-> r, body |-> NoRun]
StoredResultsLast ==
    [][\A h \in Keys :
          row[h].status = "COMPLETED" /\ row'[h] # row[h] => \E r \in Runs : Overwrites(r, h)]_vars

\* No late report takes a stored result away.
THEOREM StoredResults == Spec => StoredResultsLast
<1>1. ASSUME AInv, [Next]_vars, NEW h \in Keys, row[h].status = "COMPLETED",
             row'[h] # row[h]
      PROVE  \E r \in Runs : Overwrites(r, h)
  <2>1. \/ \E r \in Runs : IdemP!WritesOver(r, h)
        \/ row[h].runId \in Runs /\ updates'[row[h].runId] # updates[row[h].runId]
    BY <1>1, Reservations, IdemP!StoredChange, NoKeyAssumption, NoRunAssumption,
       UpsetsAssumption
  <2>2. row[h].runId \in Runs => answer[row[h].runId] = "success"
    BY <1>1 DEF AInv, LInv, LedgerTellsTheTruth
  <2>3. row[h].runId \in Runs => updates'[row[h].runId] = updates[row[h].runId]
    BY <1>1, <2>2, AnsweredRests DEF Untouched
  <2> QED BY <2>1, <2>3 DEF IdemP!WritesOver, Overwrites
<1>2. AInv /\ [Next]_vars =>
        [\A h \in Keys : row[h].status = "COMPLETED" /\ row'[h] # row[h] =>
            \E r \in Runs : Overwrites(r, h)]_vars
  BY <1>1
<1> QED BY <1>2, PathInvariance, PTL DEF Spec, StoredResultsLast

\* Whatever the handler does, the reservations below it keep the promise of RunLedger.
THEOREM LedgerPromise == Spec => IdemP!ImplementsLedger
<1>1. Init => IdemP!Ledger!LedgerInit
  <2>1. Init => IdemP!Init
    BY SameReservations DEF Init
  <2> QED
    BY <2>1, IdemP!LedgerInitRefined, NoKeyAssumption, NoRunAssumption, UpsetsAssumption
<1>2. AInv /\ [Next]_vars => [IdemP!Ledger!LedgerNext]_(IdemP!Ledger!ledgerVars)
  BY Reservations, IdemP!LedgerStepRefined, NoKeyAssumption, NoRunAssumption,
     UpsetsAssumption
<1> QED BY <1>1, <1>2, PathInvariance, PTL
        DEF Spec, IdemP!ImplementsLedger, IdemP!Ledger!LedgerSpec

-----------------------------------------------------------------------------
(* The letters of the pair and the runs *)

\* Row l is the letter that some run answers with, and has the inputs of that run.
Asked(l) == \E r \in Runs : letterOf[r] = l.id /\ l.inputs = BaseKey(request[r])

\* Nothing is in the table that no request of these inputs stands behind, although runs
\* overwrite letters of others, put deleted ones back, and users delete them.
LettersAreRequested == \A i \in 1..Len(letters) : Asked(letters[i])

DInv == AInv /\ IdsInv /\ LettersAreRequested

\* A run that has a letter keeps it and its request.
LEMMA LetterKept ==
  ASSUME AInv, [Next]_vars, NEW s \in Runs, letterOf[s] # NoRun
  PROVE  letterOf'[s] = letterOf[s] /\ request'[s] = request[s]
<1>1. CASE Untouched(s)
  BY <1>1 DEF Untouched
<1>2. CASE RunStep(s)
  <2>1. step[s] \notin Unsaved \cup {"resolving"}
    BY DEF AInv, PathInv, Own
  <2>2. CASE (\E req \in Requests : Begin(s, req)) \/ ReserveStep(s) \/ ReserveAgain(s)
    BY <2>1, <2>2 DEF Begin, ReserveStep, ReserveAgain, Unsaved
  <2>3. CASE TurnAway(s) \/ Complete(s) \/ Crash(s)
    BY <2>3 DEF TurnAway, Complete, Crash
  <2>4. CASE RecordInProgress(s) \/ RecordSuccess(s) \/ RefuseLetter(s) \/ DatabaseError(s)
    BY <2>4 DEF RecordInProgress, RecordSuccess, RefuseLetter, DatabaseError, Proceed, Fail
  <2>5. CASE EnsureNoDuplicate(s) \/ SaveLetter(s) \/ ResolveConflict(s)
    BY <2>1, <2>5 DEF EnsureNoDuplicate, SaveLetter, ResolveConflict, Unsaved
  <2>6. CASE OverwriteLetter(s)
    BY <2>6 DEF OverwriteLetter, Proceed, Fail
  <2>7. CASE LandArtifactFailure(s) \/ LandRowFailure(s)
    BY <2>7 DEF LandArtifactFailure, LandRowFailure, Land
  <2> QED BY <1>2, <2>2, <2>3, <2>4, <2>5, <2>6, <2>7 DEF RunStep
<1> QED BY <1>1, <1>2, AllSteps DEF AInv

LEMMA AskedStays ==
  ASSUME AInv, [Next]_vars, NEW i \in 1..Len(letters), Asked(letters[i])
  PROVE  \E r \in Runs : letterOf'[r] = letters[i].id /\ letters[i].inputs = BaseKey(request'[r])
<1>1. PICK r \in Runs : letterOf[r] = letters[i].id /\ letters[i].inputs = BaseKey(request[r])
  BY DEF Asked
<1>2. letters[i].id \in Runs
  <2>1. letters \in Seq(LetterRows)
    BY DEF AInv, LInv, IInv, TypeOK, LetterRows
  <2>2. letters[i] \in LetterRows
    BY <2>1, ElementOfSeq
  <2> QED BY <2>2 DEF LetterRows
<1>3. letterOf[r] # NoRun
  BY <1>1, <1>2, NoRunAssumption
<1> QED BY <1>1, <1>3, LetterKept

\* Every row after a step was there before, or is the row that a run has written.
LEMMA WhoseLetters ==
  ASSUME AInv, [Next]_vars, NEW j \in 1..Len(letters')
  PROVE  \/ \E i \in 1..Len(letters) : letters'[j] = letters[i]
         \/ \E r \in Runs : /\ letters'[j] = [id |-> letterOf'[r], inputs |-> BaseKey(request[r])]
                            /\ request'[r] = request[r]
<1>0. letters \in Seq(LetterRows) /\ Len(letters) \in Nat /\ letterOf \in [Runs -> Runs \cup {NoRun}]
  BY DEF AInv, LInv, IInv, TypeOK, LetterRows
<1>1. CASE letters' = letters
  BY <1>1
<1>2. ASSUME NEW i \in 1..Len(letters), DeleteLetter(i)
      PROVE  \E k \in 1..Len(letters) : letters'[j] = letters[k]
  <2>1. letters' = SubSeq(letters, 1, i - 1) \o SubSeq(letters, i + 1, Len(letters))
    BY <1>2 DEF DeleteLetter
  <2>2. /\ Len(letters') = Len(letters) - 1
        /\ \A k \in 1..Len(letters') : letters'[k] = IF k < i THEN letters[k] ELSE letters[k + 1]
    BY <1>0, <2>1, RemovedElements
  <2>3. j \in 1..Len(letters) /\ j + 1 \in 1..Len(letters)
    BY <1>0, <2>2
  <2>4. letters'[j] = IF j < i THEN letters[j] ELSE letters[j + 1]
    BY <2>2
  <2> QED BY <2>3, <2>4
<1>3. ASSUME NEW r \in Runs, SaveLetter(r), letters' # letters
      PROVE  \/ \E i \in 1..Len(letters) : letters'[j] = letters[i]
             \/ /\ letters'[j] = [id |-> letterOf'[r], inputs |-> BaseKey(request[r])]
                /\ request'[r] = request[r]
  <2> DEFINE mine == [id |-> r, inputs |-> BaseKey(request[r])]
  <2>1. /\ letters' = Append(letters, mine) /\ letterOf' = [letterOf EXCEPT ![r] = r]
        /\ request' = request
    BY <1>3 DEF SaveLetter, Proceed
  <2>2. letterOf'[r] = r
    BY <1>0, <2>1
  <2>3. mine = [id |-> letterOf'[r], inputs |-> BaseKey(request[r])]
    BY <2>2
  <2> HIDE DEF mine
  <2>4. /\ Len(letters') = Len(letters) + 1
        /\ \A i \in 1..Len(letters) : letters'[i] = letters[i]
        /\ letters'[Len(letters) + 1] = mine
    BY <1>0, <2>1
  <2>5. j \in 1..Len(letters) \/ j = Len(letters) + 1
    BY <1>0, <2>4
  <2> QED BY <2>1, <2>3, <2>4, <2>5
<1>4. ASSUME NEW r \in Runs, OverwriteLetter(r), letters' # letters
      PROVE  \/ \E i \in 1..Len(letters) : letters'[j] = letters[i]
             \/ /\ letters'[j] = [id |-> letterOf'[r], inputs |-> BaseKey(request[r])]
                /\ request'[r] = request[r]
  <2> DEFINE others == {i \in 1..Len(letters) : letters[i].id # letterOf[r]}
             mine == [id |-> letterOf[r], inputs |-> BaseKey(request[r])]
  <2>1. /\ letterOf' = letterOf /\ request' = request
        /\ letters' = IF others = 1..Len(letters) THEN Append(letters, mine)
                      ELSE [i \in 1..Len(letters) |-> IF i \in others THEN letters[i] ELSE mine]
    BY <1>4 DEF OverwriteLetter, Proceed, Fail
  <2>2. mine = [id |-> letterOf'[r], inputs |-> BaseKey(request[r])]
    BY <2>1
  <2> HIDE DEF mine, others
  <2>3. CASE letters' = Append(letters, mine)
    <3>1. /\ Len(letters') = Len(letters) + 1
          /\ \A i \in 1..Len(letters) : letters'[i] = letters[i]
          /\ letters'[Len(letters) + 1] = mine
      BY <1>0, <2>3
    <3>2. j \in 1..Len(letters) \/ j = Len(letters) + 1
      BY <1>0, <3>1
    <3> QED BY <2>1, <2>2, <3>1, <3>2
  <2>4. CASE letters' = [i \in 1..Len(letters) |-> IF i \in others THEN letters[i] ELSE mine]
    <3>1. Len(letters') = Len(letters)
      BY <1>0, <2>4
    <3>2. j \in 1..Len(letters) /\ letters'[j] = IF j \in others THEN letters[j] ELSE mine
      BY <2>4, <3>1
    <3> QED BY <2>1, <2>2, <3>2
  <2> QED BY <2>1, <2>3, <2>4
<1>5. ASSUME NEW r \in Runs, RunStep(r), letters' # letters
      PROVE  SaveLetter(r) \/ OverwriteLetter(r)
  BY <1>5 DEF RunStep, Begin, ReserveStep, ReserveAgain, TurnAway, RecordInProgress,
              EnsureNoDuplicate, ResolveConflict, RefuseLetter, RecordSuccess, Complete,
              LandArtifactFailure, LandRowFailure, Land, DatabaseError, Crash, Proceed, Fail,
              letterVars
<1>6. CASE UNCHANGED vars
  BY <1>1, <1>6 DEF vars, letterVars
<1> QED BY <1>1, <1>2, <1>3, <1>4, <1>5, <1>6 DEF Next

LEMMA RequestedNext == DInv /\ [Next]_vars => DInv'
<1> SUFFICES ASSUME DInv, [Next]_vars PROVE DInv'
  OBVIOUS
<1>1. AInv' /\ IdsInv' /\ AInv
  BY PathNext, IdsNext DEF DInv
<1>2. ASSUME NEW j \in 1..Len(letters')
      PROVE  \E r \in Runs : letterOf'[r] = letters'[j].id
                             /\ letters'[j].inputs = BaseKey(request'[r])
  <2>1. ASSUME NEW i \in 1..Len(letters), letters'[j] = letters[i]
        PROVE  \E r \in Runs : letterOf'[r] = letters'[j].id
                               /\ letters'[j].inputs = BaseKey(request'[r])
    <3>1. Asked(letters[i])
      BY DEF DInv, LettersAreRequested
    <3> QED BY <1>1, <2>1, <3>1, AskedStays
  <2>2. ASSUME NEW r \in Runs,
               letters'[j] = [id |-> letterOf'[r], inputs |-> BaseKey(request[r])],
               request'[r] = request[r]
        PROVE  letterOf'[r] = letters'[j].id /\ letters'[j].inputs = BaseKey(request'[r])
    BY <2>2
  <2> QED BY <1>1, <2>1, <2>2, WhoseLetters
<1> QED BY <1>1, <1>2 DEF DInv, LettersAreRequested, Asked

\* Every row of cover_letters is the letter that some request answered, or is going to
\* answer, with, and was made from the inputs of that request.
THEOREM LettersRequested == Spec => []LettersAreRequested
<1>1. Init => DInv
  <2> SUFFICES ASSUME Init PROVE DInv
    OBVIOUS
  <2>1. letters = <<>>
    BY DEF Init
  <2>2. LettersAreRequested
    BY <2>1 DEF LettersAreRequested
  <2> QED BY <2>2, PathFirst, IdsFirst DEF DInv
<1>2. DInv => LettersAreRequested
  BY DEF DInv
<1> QED BY <1>1, <1>2, RequestedNext, PTL DEF Spec
=============================================================================
