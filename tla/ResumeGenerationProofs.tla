------------------------- MODULE ResumeGenerationProofs -------------------------
(***************************************************************************)
(* The theorems about ResumeGeneration, for any number of requests,        *)
(* versions and hashes.                                                    *)
(*                                                                         *)
(* The row cannot witness anything, for its writes look at nothing.  What  *)
(* is preserved is about the runs: RunInv says where a run may stand with  *)
(* which label and error, and that all labels of a run, its fallback's     *)
(* included, are of the version it was asked for.                          *)
(***************************************************************************)
EXTENDS ResumeGeneration, TLAPS

\* Where a run has a label, an error and an answer.
RunOk(r) ==
    /\ step[r] # "idle" => request[r] \in Requests
    /\ step[r] \in {"idle", "reading", "labelling"} => label[r] = NoInputs
    /\ step[r] \in {"looking", "composing"} \cup {"starting"} \cup Started =>
          label[r] # NoInputs
    /\ label[r] # NoInputs => label[r].version = request[r].version
    /\ step[r] = "idle" => outer[r] = NoInputs
    /\ outer[r] # NoInputs => outer[r].version = request[r].version /\ request[r].oneTap
    /\ error[r] # "none" => step[r] \in {"catching", "ended", "crashed"}
    /\ step[r] = "catching" => error[r] # "none"
    /\ answer[r] # "none" <=> step[r] = "ended"
    /\ r \in pending => error[r] # "none"

RunInv == \A r \in Runs : RunOk(r)

\* A stored body was answered, and a resume that is generated has a label.
RowInv ==
    /\ studio.body # NoBody => answer[studio.body.run] = "success"
    /\ studio.status = "IN_PROGRESS" => studio.label # NoInputs

IInv == TypeOK /\ RunInv /\ RowInv /\ StudioTellsTheTruth /\ ReusedWasAnswered

-----------------------------------------------------------------------------
(* One step of one run *)

\* What a step leaves of another run.
Stays(s) ==
    /\ step'[s] = step[s] /\ request'[s] = request[s] /\ label'[s] = label[s]
    /\ outer'[s] = outer[s] /\ error'[s] = error[s] /\ answer'[s] = answer[s]
    /\ reused'[s] = reused[s] /\ (s \in pending' <=> s \in pending)

Others(r) == \A s \in Runs \ {r} : Stays(s)

\* The runs behind a resume that failed, and behind one that is being generated.
Failed(r) == error[r] # "none" /\ (studio.label = NoInputs \/ Labelled(r))
Worker(r) ==
    /\ Labelled(r)
    /\ step[r] \in Started \cup {"catching", "crashed"} \/ answer[r] = "error"

\* A run stays behind the resume that it is behind, and an answer is final.
Carries(r) ==
    /\ studio.status = "FAILED" /\ Failed(r) => Failed(r)'
    /\ studio.status = "IN_PROGRESS" /\ Worker(r) => Worker(r)'
    /\ answer[r] = "success" => answer'[r] = "success" /\ label'[r] = label[r]

LEMMA RunInvStep ==
  ASSUME RunInv, NEW r \in Runs, Others(r), RunOk(r)'
  PROVE  RunInv'
<1> SUFFICES ASSUME NEW s \in Runs \ {r} PROVE RunOk(s)'
  BY DEF RunInv
<1> QED BY DEF RunInv, RunOk, Others, Stays

\* All of them but r, where the row has not changed.
LEMMA OthersCarry ==
  ASSUME NEW r \in Runs, Others(r), studio' = studio
  PROVE  \A s \in Runs \ {r} : Carries(s)
  BY DEF Others, Stays, Carries, Failed, Worker, Labelled

\* What is left of the invariant when the row has not changed.
LEMMA RowStays ==
  ASSUME IInv, studio' = studio, \A s \in Runs : Carries(s)
  PROVE  RowInv' /\ StudioTellsTheTruth'
<1>1. studio.body # NoBody => studio.body.run \in Runs
  BY DEF IInv, TypeOK, Bodies
<1>2. RowInv'
  BY <1>1 DEF IInv, RowInv, Carries
<1>3. studio.status = "FAILED" => \E s \in Runs : Failed(s)'
  <2>1. studio.status = "FAILED" => \E s \in Runs : Failed(s)
    BY DEF IInv, StudioTellsTheTruth, Failed
  <2> QED BY <2>1 DEF Carries
<1>4. studio.status = "IN_PROGRESS" => \E s \in Runs : Worker(s)'
  <2>1. studio.status = "IN_PROGRESS" => \E s \in Runs : Worker(s)
    BY DEF IInv, StudioTellsTheTruth, Worker
  <2> QED BY <2>1 DEF Carries
<1>5. studio.status = "COMPLETED" =>
         /\ studio.body # NoBody /\ answer'[studio.body.run] = "success"
         /\ label'[studio.body.run] = studio.label
  BY <1>1 DEF IInv, StudioTellsTheTruth, Carries
<1> QED BY <1>2, <1>3, <1>4, <1>5 DEF StudioTellsTheTruth, Failed, Worker

\* Nobody but r is handed a stored resume, and r only one that was answered.
LEMMA ReusedStays ==
  ASSUME IInv, NEW r \in Runs, Others(r),
         answer[r] = "success" => answer'[r] = "success",
         \/ reused'[r] = reused[r]
         \/ /\ reused'[r] = studio.body /\ studio.body \in Bodies /\ studio.body.good
            /\ answer[r] = "none"
  PROVE  ReusedWasAnswered'
<1> SUFFICES ASSUME NEW s \in Runs, reused'[s] # NoBody
             PROVE  /\ reused'[s].good /\ answer'[reused'[s].run] = "success"
                    /\ reused'[s].run # s
  BY DEF ReusedWasAnswered
<1>1. \A b \in Bodies : answer[b.run] = "success" => answer'[b.run] = "success"
  <2> SUFFICES ASSUME NEW b \in Bodies, answer[b.run] = "success"
               PROVE  answer'[b.run] = "success"
    OBVIOUS
  <2>1. b.run \in Runs
    BY DEF Bodies
  <2> QED BY <2>1 DEF Others, Stays
<1>2. CASE reused'[s] = reused[s]
  <2>1. reused[s] \in Bodies
    BY <1>2 DEF IInv, TypeOK
  <2> QED BY <1>1, <1>2, <2>1 DEF IInv, ReusedWasAnswered
<1>3. CASE s = r /\ reused'[r] # reused[r]
  <2>1. studio.body # NoBody
    BY NoBodyAssumption, <1>3
  <2> QED BY <1>1, <1>3, <2>1 DEF IInv, RowInv
<1> QED BY <1>2, <1>3 DEF Others, Stays

\* Everything but the types, after a step of r that leaves the row alone.
RestInv == RunInv /\ RowInv /\ StudioTellsTheTruth /\ ReusedWasAnswered

LEMMA AsideRest ==
  ASSUME IInv, NEW r \in Runs, studio' = studio, Others(r), RunOk(r)', Carries(r),
         \/ reused'[r] = reused[r]
         \/ /\ reused'[r] = studio.body /\ studio.body \in Bodies /\ studio.body.good
            /\ answer[r] = "none"
  PROVE  RestInv'
<1>1. RunInv'
  BY RunInvStep DEF IInv
<1>2. \A s \in Runs : Carries(s)
  BY OthersCarry
<1>3. RowInv' /\ StudioTellsTheTruth'
  BY <1>2, RowStays
<1>4. ReusedWasAnswered'
  BY ReusedStays DEF Carries
<1> QED BY <1>1, <1>3, <1>4 DEF RestInv

\* The same after one that writes the row.
LEMMA WriteRest ==
  ASSUME IInv, NEW r \in Runs, Others(r), RunOk(r)', reused' = reused,
         answer[r] = "success" => answer'[r] = "success",
         \/ /\ studio' = InProgress(studio, label[r], NoAnalysis)
            /\ label[r] # NoInputs /\ Worker(r)'
         \/ /\ \E good \in BOOLEAN :
                  studio' = Success(studio, label[r], NoAnalysis, [run |-> r, good |-> good])
            /\ answer'[r] = "success" /\ label'[r] = label[r]
         \/ /\ \E l \in Labels \cup {NoInputs} : studio' = Failure(studio, l, NoAnalysis)
            /\ Failed(r)'
  PROVE  RestInv'
<1>1. RunInv'
  BY RunInvStep DEF IInv
<1>2. ReusedWasAnswered'
  BY ReusedStays
<1>3. studio.body # NoBody => answer'[studio.body.run] = "success"
  <2>1. studio.body # NoBody => studio.body.run \in Runs
    BY DEF IInv, TypeOK, Bodies
  <2> QED BY <2>1 DEF IInv, RowInv, Others, Stays
<1>4. CASE studio' = InProgress(studio, label[r], NoAnalysis) /\ label[r] # NoInputs
           /\ Worker(r)'
  <2>1. studio'.body = studio.body /\ studio'.status = "IN_PROGRESS"
        /\ studio'.label = label[r]
    BY <1>4 DEF InProgress
  <2> QED BY <1>1, <1>2, <1>3, <1>4, <2>1 DEF RestInv, RowInv, StudioTellsTheTruth, Worker
<1>5. ASSUME NEW good \in BOOLEAN,
             studio' = Success(studio, label[r], NoAnalysis, [run |-> r, good |-> good]),
             answer'[r] = "success", label'[r] = label[r]
      PROVE  RestInv'
  <2>1. /\ studio'.body = [run |-> r, good |-> good] /\ studio'.status = "COMPLETED"
        /\ studio'.label = label[r]
    BY <1>5 DEF Success
  <2>2. studio'.body \in Bodies /\ studio'.body.run = r
    BY <2>1 DEF Bodies
  <2>3. studio'.body # NoBody
    BY <2>2, NoBodyAssumption
  <2> QED BY <1>1, <1>2, <1>5, <2>1, <2>2, <2>3 DEF RestInv, RowInv, StudioTellsTheTruth
<1>6. ASSUME NEW l \in Labels \cup {NoInputs}, studio' = Failure(studio, l, NoAnalysis),
             Failed(r)'
      PROVE  RestInv'
  <2>1. studio'.body = studio.body /\ studio'.status = "FAILED"
    BY <1>6 DEF Failure
  <2> QED BY <1>1, <1>2, <1>3, <1>6, <2>1 DEF RestInv, RowInv, StudioTellsTheTruth, Failed
<1> QED BY <1>4, <1>5, <1>6

-----------------------------------------------------------------------------
(* The steps *)

\* A function that changes at most at r.
Only(f, g, r) == \E x : g = f \/ g = [f EXCEPT ![r] = x]

LEMMA Frame ==
  ASSUME IInv, NEW r \in Runs, Only(step, step', r), Only(request, request', r),
         Only(label, label', r), Only(outer, outer', r), Only(error, error', r),
         Only(answer, answer', r), Only(reused, reused', r),
         pending' \in {pending, pending \cup {r}, pending \ {r}}
  PROVE  Others(r)
<1> SUFFICES ASSUME NEW s \in Runs \ {r} PROVE Stays(s)
  BY DEF Others
<1>1. step'[s] = step[s]
  BY DEF IInv, TypeOK, Only
<1>2. request'[s] = request[s]
  BY DEF IInv, TypeOK, Only
<1>3. label'[s] = label[s] /\ outer'[s] = outer[s]
  BY DEF IInv, TypeOK, Only
<1>4. error'[s] = error[s] /\ answer'[s] = answer[s]
  BY DEF IInv, TypeOK, Only
<1>5. reused'[s] = reused[s]
  BY DEF IInv, TypeOK, Only
<1>6. s \in pending' <=> s \in pending
  OBVIOUS
<1> QED BY <1>1, <1>2, <1>3, <1>4, <1>5, <1>6 DEF Stays

\* What a run has before a step.
LEMMA Has ==
  ASSUME IInv, NEW r \in Runs
  PROVE  /\ RunOk(r) /\ step[r] \in Steps /\ error[r] \in Errors
         /\ label[r] \in Labels \cup {NoInputs} /\ outer[r] \in Labels \cup {NoInputs}
         /\ answer[r] \in {"none", "success", "error"}
         /\ studio.label \in Labels \cup {NoInputs}
         /\ studio.body \in Bodies \cup {NoBody}
         /\ studio.status = "IN_PROGRESS" => studio.label # NoInputs
  BY DEF IInv, RunInv, RowInv, TypeOK

LEMMA BeginRest ==
  ASSUME IInv, NEW r \in Runs, NEW req \in Requests, Begin(r, req) PROVE RestInv'
<1>1. Others(r)
  BY Frame DEF Begin, Goto, Only
<1>2. step'[r] = "reading" /\ request'[r] = req
  BY DEF Begin, Goto, IInv, TypeOK
<1>3. RunOk(r)' /\ Carries(r)
  BY <1>2, Has DEF Begin, Goto, RunOk, Carries, Failed, Worker, Started
<1> QED BY <1>1, <1>3, AsideRest DEF Begin

\* A run goes on, with what it has.
LEMMA GoesOnRest ==
  ASSUME IInv, NEW r \in Runs,
         \/ ReadBaseline(r) \/ Regenerate(r) \/ Compose(r) \/ Finish(r)
  PROVE  RestInv'
<1>1. PICK next \in {"labelling", "composing", "starting", "recording"} :
         step' = [step EXCEPT ![r] = next]
  BY DEF ReadBaseline, Regenerate, Compose, Finish, Goto
<1>2. UNCHANGED <<studio, request, label, outer, error, reused, answer, pending>>
  BY DEF ReadBaseline, Regenerate, Compose, Finish, Goto
<1>3. Others(r)
  BY <1>1, <1>2, Frame DEF Only
<1>4. step'[r] = next
  BY <1>1 DEF IInv, TypeOK
<1>5. \/ step[r] = "reading" /\ next = "labelling"
      \/ step[r] = "looking" /\ next = "composing"
      \/ step[r] = "composing" /\ next = "starting"
      \/ step[r] = "finishing" /\ next = "recording"
  BY <1>4 DEF ReadBaseline, Regenerate, Compose, Finish, Goto, IInv, TypeOK
<1>6. RunOk(r)' /\ Carries(r)
  BY <1>2, <1>4, <1>5, Has DEF RunOk, Carries, Failed, Worker, Labelled, Started
<1> QED BY <1>2, <1>3, <1>6, AsideRest

LEMMA ReadAssessmentRest ==
  ASSUME IInv, NEW r \in Runs, ReadAssessment(r) PROVE RestInv'
<1> DEFINE new == [version |-> request[r].version, hash |-> assessment]
<1>1. UNCHANGED <<studio, request, outer, error, reused, answer, pending>>
  BY DEF ReadAssessment, Goto
<1>2. Others(r)
  BY Frame DEF ReadAssessment, Goto, Only
<1>3. step'[r] = "looking" /\ label'[r] = new
  BY DEF ReadAssessment, Goto, IInv, TypeOK
<1>4. step[r] = "labelling"
  BY DEF ReadAssessment
<1>5. new \in Labels /\ new.version = request[r].version
  BY <1>4, Has DEF RunOk, Requests, Labels, IInv, TypeOK
<1>6. new # NoInputs
  BY <1>5, NoInputsAssumption
<1>7. RunOk(r)'
  BY <1>1, <1>3, <1>4, <1>5, <1>6, Has DEF RunOk, Started
<1>8. Carries(r)
  BY <1>1, <1>3, <1>4, Has DEF RunOk, Carries, Failed, Worker, Started
<1> QED BY <1>1, <1>2, <1>7, <1>8, AsideRest

LEMMA ReuseRest ==
  ASSUME IInv, NEW r \in Runs, Reuse(r) PROVE RestInv'
<1>1. UNCHANGED <<studio, request, label, outer, error, pending>>
  BY DEF Reuse, Answer, Goto
<1>2. Others(r)
  BY Frame DEF Reuse, Answer, Goto, Only
<1>3. step'[r] = "ended" /\ answer'[r] = "success" /\ reused'[r] = studio.body
  BY DEF Reuse, Answer, Goto, IInv, TypeOK
<1>4. step[r] = "looking" /\ studio.body # NoBody /\ studio.body.good
  BY DEF Reuse, Reusable, ResumeUsable, GoodBody
<1>5. studio.body \in Bodies /\ answer[r] = "none"
  BY <1>4, Has DEF RunOk
<1>6. RunOk(r)' /\ Carries(r)
  BY <1>1, <1>3, <1>4, <1>5, Has DEF RunOk, Carries, Failed, Worker, Started
<1> QED BY <1>1, <1>2, <1>3, <1>4, <1>5, <1>6, AsideRest

LEMMA FallBackRest ==
  ASSUME IInv, NEW r \in Runs, FallBack(r) PROVE RestInv'
<1>1. UNCHANGED <<studio, error, reused, answer, pending>>
  BY DEF FallBack
<1>2. Others(r)
  BY Frame DEF FallBack, Only
<1>3. step[r] = "composing" /\ request[r] \in Requests
  BY Has DEF FallBack, RunOk
<1>4. /\ request'[r] \in Requests /\ request'[r].version = request[r].version
      /\ request'[r].oneTap
  <2>1. request'[r] = [request[r] EXCEPT !.oneTap = TRUE]
    BY DEF FallBack, IInv, TypeOK
  <2> QED BY <1>3, <2>1 DEF Requests
<1>5. step'[r] = "reading" /\ label'[r] = NoInputs /\ outer'[r] = label[r]
  BY DEF FallBack, IInv, TypeOK
<1>6. RunOk(r)'
  BY <1>1, <1>3, <1>4, <1>5, Has DEF RunOk, Started
<1>7. Carries(r)
  BY <1>1, <1>3, <1>5, Has DEF RunOk, Carries, Failed, Worker, Started
<1> QED BY <1>1, <1>2, <1>6, <1>7, AsideRest

LEMMA InProgressRest ==
  ASSUME IInv, NEW r \in Runs, RecordInProgress(r) PROVE RestInv'
<1>1. UNCHANGED <<request, label, outer, error, reused, answer, pending>>
  BY DEF RecordInProgress, Goto
<1>2. Others(r)
  BY Frame DEF RecordInProgress, Goto, Only
<1>3. step[r] = "starting" /\ step'[r] = "finishing"
  BY DEF RecordInProgress, Goto, IInv, TypeOK
<1>4. label[r] # NoInputs /\ RunOk(r)'
  BY <1>1, <1>3, Has DEF RunOk, Started
<1>5. studio' = InProgress(studio, label[r], NoAnalysis) /\ studio'.label = label[r]
  BY DEF RecordInProgress, InProgress
<1>6. Worker(r)'
  BY <1>1, <1>3, <1>5 DEF Worker, Labelled, Started
<1> QED BY <1>1, <1>2, <1>4, <1>5, <1>6, WriteRest

\* A run records its resume, or a fail-safe draft, and is answered.
LEMMA SuccessRest ==
  ASSUME IInv, NEW r \in Runs, RecordSuccess(r) \/ \E good \in BOOLEAN : FailSafe(r, good)
  PROVE  RestInv'
<1>1. UNCHANGED <<request, label, outer, error, reused, pending>>
  BY DEF RecordSuccess, FailSafe, Answer, Goto
<1>2. /\ step' = [step EXCEPT ![r] = "ended"]
      /\ answer' = [answer EXCEPT ![r] = "success"]
  BY DEF RecordSuccess, FailSafe, Answer, Goto
<1>3. Others(r)
  BY <1>1, <1>2, Frame DEF Only
<1>4. step[r] \in {"recording", "catching"}
  BY DEF RecordSuccess, FailSafe, Catching
<1>5. step'[r] = "ended" /\ answer'[r] = "success"
  BY <1>2 DEF IInv, TypeOK
<1>6. RunOk(r)'
  BY <1>1, <1>4, <1>5, Has DEF RunOk, Started
<1>7. \E good \in BOOLEAN :
         studio' = Success(studio, label[r], NoAnalysis, [run |-> r, good |-> good])
  BY DEF RecordSuccess, FailSafe
<1> QED BY <1>1, <1>3, <1>5, <1>6, <1>7, WriteRest

-----------------------------------------------------------------------------
(* The steps that fail *)

\* A run that has failed stays behind whatever it was behind.
LEMMA FailedCarries ==
  ASSUME IInv, NEW r \in Runs, studio' = studio, error'[r] # "none",
         request'[r] = request[r], step[r] \notin {"idle", "ended", "crashed"},
         step'[r] = "catching" \/ answer'[r] = "error",
         label'[r] = label[r] \/ (label'[r] = outer[r] /\ outer[r] # NoInputs)
  PROVE  Carries(r)
<1>1. RunOk(r) /\ answer[r] = "none"
  BY Has DEF RunOk
<1>2. studio.label = label[r] /\ studio.label # NoInputs =>
         studio.label.version = request[r].version
  BY <1>1 DEF RunOk
<1>3. studio.label = outer[r] /\ studio.label # NoInputs =>
         studio.label.version = request[r].version
  BY <1>1 DEF RunOk
<1>4. Labelled(r) /\ studio.label # NoInputs => studio.label.version = request[r].version
  BY <1>2, <1>3 DEF Labelled
<1>5. Failed(r) => Failed(r)'
  BY <1>4 DEF Failed, Labelled
<1>6. studio.status = "IN_PROGRESS" /\ Worker(r) => Worker(r)'
  BY <1>4, Has DEF Worker, Labelled
<1> QED BY <1>1, <1>5, <1>6 DEF Carries

\* A run throws.
LEMMA ThrowRest ==
  ASSUME IInv, NEW r \in Runs, (\E e \in Errors : Refuse(r, e)) \/ DatabaseError(r)
  PROVE  RestInv'
<1>1. PICK e \in Errors \ {"none"} : Throw(r, e)
  BY DEF Refuse, DatabaseError, Errors
<1>2. UNCHANGED <<studio, request, label, outer, reused, answer, pending>>
  BY <1>1 DEF Throw
<1>3. Others(r)
  BY <1>1, Frame DEF Throw, Only
<1>4. step'[r] = "catching" /\ error'[r] = e
  BY <1>1 DEF Throw, IInv, TypeOK
<1>5. step[r] \in Reading \cup Started
  BY DEF Refuse, DatabaseError, Reading, Started
<1>6. step[r] \notin {"idle", "ended", "crashed", "catching"}
  BY <1>5 DEF Reading, Started
<1>7. RunOk(r)'
  BY <1>2, <1>4, <1>6, Has DEF RunOk, Started
<1>8. Carries(r)
  BY <1>2, <1>4, <1>6, FailedCarries
<1> QED BY <1>2, <1>3, <1>7, <1>8, AsideRest

\* A call ends with an error, within another or for good.
Leaves(r) ==
    \/ /\ step' = [step EXCEPT ![r] = "ended"] /\ answer' = [answer EXCEPT ![r] = "error"]
       /\ UNCHANGED <<label, outer>>
    \/ /\ outer[r] # NoInputs /\ step' = [step EXCEPT ![r] = "catching"]
       /\ label' = [label EXCEPT ![r] = outer[r]] /\ outer' = [outer EXCEPT ![r] = NoInputs]
       /\ UNCHANGED answer

LEMMA RethrowLeaves ==
  ASSUME IInv, NEW r \in Runs, step[r] = "catching", Rethrow(r)
  PROVE  Leaves(r) /\ UNCHANGED <<assessment, request, error, reused>>
<1>1. step = [step EXCEPT ![r] = "catching"]
  BY DEF IInv, TypeOK
<1> QED BY <1>1 DEF Rethrow, Leaves

LEMMA LeftOk ==
  ASSUME IInv, NEW r \in Runs, step[r] \in {"recording", "catching"}, Leaves(r),
         UNCHANGED <<request, reused>>,
         error' = error \/ \E e : error' = [error EXCEPT ![r] = e],
         error'[r] # "none", pending' \in {pending, pending \cup {r}}
  PROVE  /\ Others(r) /\ RunOk(r)'
         /\ step'[r] = "catching" \/ answer'[r] = "error"
         /\ label'[r] = label[r] \/ (label'[r] = outer[r] /\ outer[r] # NoInputs)
         /\ answer[r] = "none"
<1>1. Others(r)
  BY Frame DEF Leaves, Only
<1>2. /\ RunOk(r) /\ answer[r] = "none" /\ request[r] \in Requests
  BY Has DEF RunOk
<1>3. CASE /\ step' = [step EXCEPT ![r] = "ended"] /\ answer' = [answer EXCEPT ![r] = "error"]
           /\ UNCHANGED <<label, outer>>
  <2>1. step'[r] = "ended" /\ answer'[r] = "error"
    BY <1>3 DEF IInv, TypeOK
  <2>2. RunOk(r)'
    BY <1>2, <1>3, <2>1 DEF RunOk, Started
  <2> QED BY <1>1, <1>2, <1>3, <2>1, <2>2
<1>4. CASE /\ outer[r] # NoInputs /\ step' = [step EXCEPT ![r] = "catching"]
           /\ label' = [label EXCEPT ![r] = outer[r]]
           /\ outer' = [outer EXCEPT ![r] = NoInputs] /\ UNCHANGED answer
  <2>1. step'[r] = "catching" /\ label'[r] = outer[r] /\ outer'[r] = NoInputs
    BY <1>4 DEF IInv, TypeOK
  <2>2. RunOk(r)'
    BY <1>2, <1>4, <2>1 DEF RunOk, Started
  <2> QED BY <1>1, <1>2, <1>4, <2>1, <2>2
<1> QED BY <1>3, <1>4 DEF Leaves

\* The error is thrown on and the row left as it is.
LEMMA UnrecordedRest ==
  ASSUME IInv, NEW r \in Runs,
         \/ LoseSuccess(r) \/ CatchUnrecorded(r) \/ CatchPersisted(r, FALSE)
         \/ CatchPlain(r) \/ FailSafeThrows(r)
  PROVE  RestInv'
<1>1. CASE LoseSuccess(r)
  <2>1. /\ Leaves(r) /\ step[r] = "recording"
        /\ error' = [error EXCEPT ![r] = "error"]
        /\ UNCHANGED <<studio, request, reused, pending>>
    BY <1>1 DEF LoseSuccess, Leaves, Answer, Goto
  <2>2. error'[r] = "error"
    BY <2>1 DEF IInv, TypeOK
  <2>3. /\ Others(r) /\ RunOk(r)'
        /\ step'[r] = "catching" \/ answer'[r] = "error"
        /\ label'[r] = label[r] \/ (label'[r] = outer[r] /\ outer[r] # NoInputs)
    BY <2>1, <2>2, LeftOk
  <2>4. Carries(r)
    BY <2>1, <2>2, <2>3, FailedCarries
  <2> QED BY <2>1, <2>3, <2>4, AsideRest
<1>2. CASE \/ CatchUnrecorded(r) \/ CatchPersisted(r, FALSE)
           \/ CatchPlain(r) \/ FailSafeThrows(r)
  <2>1. /\ step[r] = "catching" /\ Rethrow(r) /\ studio' = studio
        /\ pending' \in {pending, pending \cup {r}}
    BY <1>2 DEF CatchUnrecorded, CatchPersisted, CatchPlain, FailSafeThrows, Catching
  <2>2. Leaves(r) /\ UNCHANGED <<request, error, reused>>
    BY <2>1, RethrowLeaves
  <2>3. error'[r] # "none"
    BY <2>1, <2>2, Has DEF RunOk
  <2>4. /\ Others(r) /\ RunOk(r)'
        /\ step'[r] = "catching" \/ answer'[r] = "error"
        /\ label'[r] = label[r] \/ (label'[r] = outer[r] /\ outer[r] # NoInputs)
    BY <2>1, <2>2, <2>3, LeftOk
  <2>5. Carries(r)
    BY <2>1, <2>2, <2>3, <2>4, FailedCarries
  <2> QED BY <2>1, <2>2, <2>4, <2>5, AsideRest
<1> QED BY <1>1, <1>2

\* The failure of a persisted baseline's run is recorded and the error thrown on.
LEMMA PersistedRest ==
  ASSUME IInv, NEW r \in Runs, CatchPersisted(r, TRUE) PROVE RestInv'
<1>1. /\ step[r] = "catching" /\ Rethrow(r) /\ pending' = pending
      /\ studio' = Failure(studio, label[r], NoAnalysis)
  BY DEF CatchPersisted, Catching
<1>2. Leaves(r) /\ UNCHANGED <<request, error, reused>>
  BY <1>1, RethrowLeaves
<1>3. error'[r] # "none"
  BY <1>1, <1>2, Has DEF RunOk
<1>4. /\ Others(r) /\ RunOk(r)' /\ answer[r] = "none"
      /\ label'[r] = label[r] \/ (label'[r] = outer[r] /\ outer[r] # NoInputs)
  BY <1>1, <1>2, <1>3, LeftOk
<1>5. studio'.label = label[r] /\ label[r] \in Labels \cup {NoInputs}
  BY <1>1, Has DEF Failure
<1>6. Failed(r)'
  <2>1. label[r] # NoInputs => label[r].version = request[r].version
    BY Has DEF RunOk
  <2> QED BY <1>2, <1>3, <1>5, <2>1 DEF Failed, Labelled
<1> QED BY <1>1, <1>2, <1>4, <1>5, <1>6, WriteRest

\* The fail-safe draft is recorded as a failure, and answered as a success.
LEMMA InvalidRest ==
  ASSUME IInv, NEW r \in Runs, FailSafeInvalid(r) PROVE RestInv'
<1>1. /\ step[r] = "catching" /\ studio' = Failure(studio, label[r], NoAnalysis)
      /\ UNCHANGED <<request, label, outer, error, reused, pending>>
  BY DEF FailSafeInvalid, Catching, Answer, Goto
<1>2. Others(r)
  BY Frame DEF FailSafeInvalid, Answer, Goto, Only
<1>3. step'[r] = "ended" /\ answer'[r] = "success"
  BY DEF FailSafeInvalid, Answer, Goto, IInv, TypeOK
<1>4. RunOk(r)' /\ answer[r] = "none"
  BY <1>1, <1>3, Has DEF RunOk, Started
<1>5. studio'.label = label[r] /\ label[r] \in Labels \cup {NoInputs}
  BY <1>1, Has DEF Failure
<1>6. Failed(r)'
  BY <1>1, <1>5, Has DEF RunOk, Failed, Labelled
<1> QED BY <1>1, <1>2, <1>4, <1>5, <1>6, WriteRest

LEMMA LandRest ==
  ASSUME IInv, NEW r \in Runs, NEW ok \in BOOLEAN, LandFailure(r, ok) PROVE RestInv'
<1>1. /\ UNCHANGED <<step, request, label, outer, error, reused, answer>>
      /\ r \in pending /\ pending' = pending \ {r}
  BY DEF LandFailure
<1>2. Others(r)
  BY <1>1, Frame DEF Only
<1>3. RunOk(r)' /\ error[r] # "none"
  BY <1>1, Has DEF RunOk, Started
<1>4. CASE ok
  <2>1. studio' = Failure(studio, NoInputs, NoAnalysis) /\ studio'.label = NoInputs
    BY <1>4 DEF LandFailure, Failure
  <2>2. Failed(r)'
    BY <1>1, <1>3, <2>1 DEF Failed
  <2> QED BY <1>1, <1>2, <1>3, <2>1, <2>2, WriteRest
<1>5. CASE ~ok
  <2>1. studio' = studio
    BY <1>5 DEF LandFailure
  <2>2. Carries(r)
    BY <1>1, <2>1 DEF Carries, Failed, Worker, Labelled
  <2> QED BY <1>1, <1>2, <1>3, <2>1, <2>2, AsideRest
<1> QED BY <1>4, <1>5

LEMMA CrashRest ==
  ASSUME IInv, NEW r \in Runs, Crash(r) PROVE RestInv'
<1>1. /\ UNCHANGED <<studio, request, label, outer, error, reused, answer>>
      /\ pending' = pending \ {r}
  BY DEF Crash
<1>2. Others(r)
  BY Frame DEF Crash, Only
<1>3. step'[r] = IF step[r] = "ended" THEN "ended" ELSE "crashed"
  BY DEF Crash, IInv, TypeOK
<1>4. step[r] # "idle"
  BY Has DEF Crash, RunOk
<1>5. RunOk(r)'
  BY <1>1, <1>3, <1>4, Has DEF RunOk, Started
<1>6. Carries(r)
  BY <1>1, <1>3, Has DEF RunOk, Carries, Failed, Worker, Labelled, Started
<1> QED BY <1>1, <1>2, <1>5, <1>6, AsideRest

LEMMA UserRest ==
  ASSUME IInv, (\E h \in Hashes : Assess(h)) \/ UNCHANGED vars PROVE RestInv'
<1>1. UNCHANGED <<studio, step, request, label, outer, error, reused, answer, pending>>
  BY DEF Assess, vars
<1> QED
  BY <1>1 DEF IInv, RestInv, RunInv, RunOk, RowInv, StudioTellsTheTruth, Labelled,
              ReusedWasAnswered

-----------------------------------------------------------------------------
(* The types *)

\* What a step does to the row.
Written(l) ==
    \/ studio' = InProgress(studio, l, NoAnalysis)
    \/ studio' = Failure(studio, l, NoAnalysis)
    \/ \E r \in Runs, good \in BOOLEAN :
          /\ studio' = Success(studio, l, NoAnalysis, [run |-> r, good |-> good])
          /\ answer[r] # "success" /\ answer'[r] = "success"

LEMMA RowStep ==
  ASSUME IInv, [Next]_vars
  PROVE  studio' = studio \/ \E l \in Labels \cup {NoInputs} : Written(l)
<1>1. ASSUME NEW r \in Runs, NEW req \in Requests, Begin(r, req) PROVE studio' = studio
  BY <1>1 DEF Begin
<1>2. ASSUME NEW r \in Runs, RecordSuccess(r) \/ \E good \in BOOLEAN : FailSafe(r, good)
      PROVE  Written(label[r])
  <2>1. PICK good \in BOOLEAN :
           studio' = Success(studio, label[r], NoAnalysis, [run |-> r, good |-> good])
    BY <1>2 DEF RecordSuccess, FailSafe
  <2>2. answer'[r] = "success"
    BY <1>2 DEF RecordSuccess, FailSafe, Answer, IInv, TypeOK
  <2>3. answer[r] # "success"
    BY <1>2, Has DEF RecordSuccess, FailSafe, Catching, RunOk
  <2> QED BY <2>1, <2>2, <2>3 DEF Written
<1>3. ASSUME NEW r \in Runs,
             RecordInProgress(r) \/ CatchPersisted(r, TRUE) \/ FailSafeInvalid(r)
      PROVE  Written(label[r])
  BY <1>3 DEF RecordInProgress, CatchPersisted, FailSafeInvalid, Written
<1>4. ASSUME NEW r \in Runs, NEW ok \in BOOLEAN, LandFailure(r, ok)
      PROVE  studio' = studio \/ Written(NoInputs)
  BY <1>4 DEF LandFailure, Written
<1>5. ASSUME NEW r \in Runs,
             \/ ReadBaseline(r) \/ ReadAssessment(r) \/ Reuse(r) \/ Regenerate(r)
             \/ Compose(r) \/ FallBack(r) \/ Finish(r) \/ LoseSuccess(r)
             \/ \E e \in Errors : Refuse(r, e)
             \/ CatchUnrecorded(r) \/ CatchPlain(r) \/ FailSafeThrows(r)
             \/ CatchPersisted(r, FALSE) \/ DatabaseError(r) \/ Crash(r)
      PROVE  studio' = studio
  BY <1>5 DEF ReadBaseline, ReadAssessment, Reuse, Regenerate, Compose, FallBack, Finish,
              LoseSuccess, Refuse, Throw, CatchUnrecorded, CatchPlain, FailSafeThrows,
              CatchPersisted, DatabaseError, Crash
<1>6. \A r \in Runs : label[r] \in Labels \cup {NoInputs}
  BY Has
<1>7. ASSUME (\E h \in Hashes : Assess(h)) \/ UNCHANGED vars PROVE studio' = studio
  BY <1>7 DEF Assess, vars
<1> QED
  BY <1>1, <1>2, <1>3, <1>4, <1>5, <1>6, <1>7 DEF Next, ServerStep

LEMMA RowTyped ==
  ASSUME IInv, [Next]_vars
  PROVE  studio' \in [status : Lifecycle, label : Labels \cup {NoInputs},
                      analysis : {NoAnalysis}, body : Bodies \cup {NoBody}]
<1>1. studio \in [status : Lifecycle, label : Labels \cup {NoInputs},
                 analysis : {NoAnalysis}, body : Bodies \cup {NoBody}]
  BY DEF IInv, TypeOK
<1>2. ASSUME NEW l \in Labels \cup {NoInputs}, Written(l)
      PROVE  studio' \in [status : Lifecycle, label : Labels \cup {NoInputs},
                          analysis : {NoAnalysis}, body : Bodies \cup {NoBody}]
  <2>1. \A r \in Runs, good \in BOOLEAN : [run |-> r, good |-> good] \in Bodies
    BY DEF Bodies
  <2> QED BY <1>1, <1>2, <2>1 DEF Written, InProgress, Failure, Success, Lifecycle
<1> QED BY <1>1, <1>2, RowStep

LEMMA RunTypes ==
  ASSUME IInv, NEW r \in Runs, NEW next \in Steps, step' = [step EXCEPT ![r] = next],
         request' = request \/ \E q \in Requests : request' = [request EXCEPT ![r] = q],
         \/ label' = label
         \/ \E l \in Labels \cup {NoInputs} : label' = [label EXCEPT ![r] = l],
         \/ outer' = outer
         \/ \E l \in Labels \cup {NoInputs} : outer' = [outer EXCEPT ![r] = l],
         error' = error \/ \E e \in Errors : error' = [error EXCEPT ![r] = e],
         reused' = reused \/ \E b \in Bodies \cup {NoBody} : reused' = [reused EXCEPT ![r] = b],
         \/ answer' = answer
         \/ \E a \in {"success", "error"} : answer' = [answer EXCEPT ![r] = a],
         pending' \in {pending, pending \cup {r}, pending \ {r}},
         upsets' \in {upsets, upsets + 1}, assessment' = assessment,
         studio' \in [status : Lifecycle, label : Labels \cup {NoInputs},
                      analysis : {NoAnalysis}, body : Bodies \cup {NoBody}]
  PROVE  TypeOK'
<1>1. step' \in [Runs -> Steps]
  BY DEF IInv, TypeOK
<1>2. request' \in [Runs -> Requests \cup {NoRequest}]
  BY DEF IInv, TypeOK
<1>3. /\ label' \in [Runs -> Labels \cup {NoInputs}]
      /\ outer' \in [Runs -> Labels \cup {NoInputs}]
  BY DEF IInv, TypeOK
<1>4. error' \in [Runs -> Errors]
  BY DEF IInv, TypeOK
<1>5. reused' \in [Runs -> Bodies \cup {NoBody}]
  BY DEF IInv, TypeOK
<1>6. answer' \in [Runs -> {"none", "success", "error"}]
  BY DEF IInv, TypeOK
<1>7. pending' \in SUBSET Runs /\ upsets' \in Nat /\ assessment' \in Hashes
  BY DEF IInv, TypeOK
<1> QED BY <1>1, <1>2, <1>3, <1>4, <1>5, <1>6, <1>7 DEF TypeOK

\* A run goes on with its own inputs, or answers.
LEMMA OnwardTypes ==
  ASSUME IInv, [Next]_vars, NEW r \in Runs,
         \/ \E req \in Requests : Begin(r, req)
         \/ ReadBaseline(r) \/ ReadAssessment(r) \/ Reuse(r) \/ Regenerate(r)
         \/ Compose(r) \/ FallBack(r) \/ RecordInProgress(r) \/ Finish(r)
         \/ RecordSuccess(r) \/ (\E good \in BOOLEAN : FailSafe(r, good))
         \/ FailSafeInvalid(r)
  PROVE  TypeOK'
<1>1. /\ UNCHANGED <<assessment, error, pending, upsets>>
      /\ \E next \in Steps : step' = [step EXCEPT ![r] = next]
  BY DEF Begin, ReadBaseline, ReadAssessment, Reuse, Regenerate, Compose, FallBack,
         RecordInProgress, Finish, RecordSuccess, FailSafe, FailSafeInvalid, Answer, Goto,
         Steps, Reading, Started
<1>2. request' = request \/ \E q \in Requests : request' = [request EXCEPT ![r] = q]
  <2>1. CASE FallBack(r)
    <3>1. request[r] \in Requests
      BY <2>1, Has DEF FallBack, RunOk
    <3>2. [request[r] EXCEPT !.oneTap = TRUE] \in Requests
      BY <3>1 DEF Requests
    <3>3. request' = [request EXCEPT ![r] = [request[r] EXCEPT !.oneTap = TRUE]]
      BY <2>1 DEF FallBack
    <3> QED BY <3>2, <3>3
  <2> QED
    BY <2>1 DEF Begin, ReadBaseline, ReadAssessment, Reuse, Regenerate, Compose,
                RecordInProgress, Finish, RecordSuccess, FailSafe, FailSafeInvalid
<1>3. \/ label' = label
      \/ \E l \in Labels \cup {NoInputs} : label' = [label EXCEPT ![r] = l]
  <2>1. CASE ReadAssessment(r)
    <3>1. request[r] \in Requests
      BY <2>1, Has DEF ReadAssessment, RunOk
    <3>2. [version |-> request[r].version, hash |-> assessment] \in Labels
      BY <3>1 DEF Requests, Labels, IInv, TypeOK
    <3> QED BY <2>1, <3>2 DEF ReadAssessment
  <2> QED
    BY <2>1 DEF Begin, ReadBaseline, Reuse, Regenerate, Compose, FallBack,
                RecordInProgress, Finish, RecordSuccess, FailSafe, FailSafeInvalid
<1>4. \/ outer' = outer
      \/ \E l \in Labels \cup {NoInputs} : outer' = [outer EXCEPT ![r] = l]
  BY Has DEF Begin, ReadBaseline, ReadAssessment, Reuse, Regenerate, Compose, FallBack,
         RecordInProgress, Finish, RecordSuccess, FailSafe, FailSafeInvalid, Answer, Goto
<1>5. reused' = reused \/ \E b \in Bodies \cup {NoBody} : reused' = [reused EXCEPT ![r] = b]
  BY Has DEF Begin, ReadBaseline, ReadAssessment, Reuse, Regenerate, Compose, FallBack,
         RecordInProgress, Finish, RecordSuccess, FailSafe, FailSafeInvalid
<1>6. \/ answer' = answer
      \/ \E a \in {"success", "error"} : answer' = [answer EXCEPT ![r] = a]
  BY DEF Begin, ReadBaseline, ReadAssessment, Reuse, Regenerate, Compose, FallBack,
         RecordInProgress, Finish, RecordSuccess, FailSafe, FailSafeInvalid, Answer
<1> QED BY <1>1, <1>2, <1>3, <1>4, <1>5, <1>6, RowTyped, RunTypes

\* A run throws, throws on or dies, or its failure lands.
LEMMA FailingTypes ==
  ASSUME IInv, [Next]_vars, NEW r \in Runs,
         \/ LoseSuccess(r) \/ (\E e \in Errors : Refuse(r, e)) \/ DatabaseError(r)
         \/ CatchUnrecorded(r) \/ (\E ok \in BOOLEAN : CatchPersisted(r, ok))
         \/ CatchPlain(r) \/ FailSafeThrows(r) \/ (\E ok \in BOOLEAN : LandFailure(r, ok))
         \/ Crash(r)
  PROVE  TypeOK'
<1>1. /\ UNCHANGED <<assessment, request, reused>>
      /\ pending' \in {pending, pending \cup {r}, pending \ {r}}
      /\ upsets' \in {upsets, upsets + 1}
  BY DEF LoseSuccess, Answer, Goto, Refuse, Throw, DatabaseError, CatchUnrecorded,
         CatchPersisted, CatchPlain, FailSafeThrows, Rethrow, LandFailure, Crash
<1>2. \E next \in Steps : step' = [step EXCEPT ![r] = next]
  <2>1. step = [step EXCEPT ![r] = step[r]] /\ step[r] \in Steps
    BY DEF IInv, TypeOK
  <2>2. {"ended", "catching", "crashed"} \subseteq Steps
    BY DEF Steps
  <2>3. CASE Crash(r)
    BY <2>1, <2>2, <2>3 DEF Crash
  <2>4. CASE step' = step
    BY <2>1, <2>4
  <2> QED
    BY <2>2, <2>3, <2>4 DEF LoseSuccess, Answer, Goto, Refuse, Throw, DatabaseError,
       CatchUnrecorded, CatchPersisted, CatchPlain, FailSafeThrows, Rethrow, LandFailure
<1>3. /\ label' = label \/ label' = [label EXCEPT ![r] = outer[r]]
      /\ outer' = outer \/ outer' = [outer EXCEPT ![r] = NoInputs]
      /\ answer' = answer \/ answer' = [answer EXCEPT ![r] = "error"]
  BY DEF LoseSuccess, Answer, Goto, Refuse, Throw, DatabaseError, CatchUnrecorded,
         CatchPersisted, CatchPlain, FailSafeThrows, Rethrow, LandFailure, Crash
<1>4. error' = error \/ \E e \in Errors : error' = [error EXCEPT ![r] = e]
  BY DEF LoseSuccess, Refuse, Throw, DatabaseError, CatchUnrecorded,
         CatchPersisted, CatchPlain, FailSafeThrows, Rethrow, LandFailure, Crash, Errors
<1>5. PICK next \in Steps : step' = [step EXCEPT ![r] = next]
  BY <1>2
<1>6. /\ label' = label \/ \E l \in Labels \cup {NoInputs} : label' = [label EXCEPT ![r] = l]
      /\ outer' = outer \/ \E l \in Labels \cup {NoInputs} : outer' = [outer EXCEPT ![r] = l]
      /\ \/ answer' = answer
         \/ \E a \in {"success", "error"} : answer' = [answer EXCEPT ![r] = a]
  <2>1. outer[r] \in Labels \cup {NoInputs} /\ NoInputs \in Labels \cup {NoInputs}
    BY Has
  <2> QED BY <1>3, <2>1
<1>7. /\ request' = request /\ reused' = reused /\ assessment' = assessment
      /\ pending' \in {pending, pending \cup {r}, pending \ {r}}
      /\ upsets' \in {upsets, upsets + 1}
  BY <1>1
<1> QED BY <1>4, <1>5, <1>6, <1>7, RowTyped, RunTypes

LEMMA TypeStep == IInv /\ [Next]_vars => TypeOK'
<1> SUFFICES ASSUME IInv, [Next]_vars PROVE TypeOK'
  OBVIOUS
<1>1. ASSUME (\E h \in Hashes : Assess(h)) \/ UNCHANGED vars PROVE TypeOK'
  BY <1>1 DEF Assess, vars, IInv, TypeOK
<1>2. ASSUME NEW r \in Runs, CatchPersisted(r, TRUE) \/ CatchPersisted(r, FALSE)
      PROVE  TypeOK'
  <2>1. \E ok \in BOOLEAN : CatchPersisted(r, ok)
    BY <1>2
  <2> QED BY <2>1, FailingTypes
<1> QED
  BY <1>1, <1>2, OnwardTypes, FailingTypes DEF Next, ServerStep

-----------------------------------------------------------------------------
(* The theorems *)

LEMMA RestStep == IInv /\ [Next]_vars => RestInv'
<1> SUFFICES ASSUME IInv, [Next]_vars PROVE RestInv'
  OBVIOUS
<1> QED
  BY BeginRest, GoesOnRest, ReadAssessmentRest, ReuseRest, FallBackRest, InProgressRest,
     SuccessRest, ThrowRest, UnrecordedRest, PersistedRest, InvalidRest, LandRest,
     CrashRest, UserRest DEF Next, ServerStep

LEMMA InvFirst == Init => IInv
<1> SUFFICES ASSUME Init PROVE IInv
  OBVIOUS
<1>1. TypeOK
  BY UpsetsAssumption DEF Init, TypeOK, NoDocument, Lifecycle, Steps, Errors, NoRequest
<1>2. RunInv
  BY DEF Init, RunInv, RunOk, Started
<1>3. RowInv /\ StudioTellsTheTruth /\ ReusedWasAnswered
  BY DEF Init, NoDocument, RowInv, StudioTellsTheTruth, ReusedWasAnswered
<1> QED BY <1>1, <1>2, <1>3 DEF IInv

LEMMA InvNext == IInv /\ [Next]_vars => IInv'
  BY TypeStep, RestStep DEF IInv, RestInv

\* The invariant holds in every state that the program can reach.
THEOREM Invariance == Spec => []IInv
  BY InvFirst, InvNext, PTL DEF Spec

\* The variables of the resume requests stay in their domains.
THEOREM TypeCorrect == Spec => []TypeOK
<1>1. IInv => TypeOK
  BY DEF IInv
<1> QED BY <1>1, Invariance, PTL

\* Whichever exit a request takes, with whatever others beside it, what Studio says of
\* the resume is true of some request with the label on the row.
THEOREM StudioTruth == Spec => []StudioTellsTheTruth
<1>1. IInv => StudioTellsTheTruth
  BY DEF IInv
<1> QED BY <1>1, Invariance, PTL

\* A resume that is handed out again is not a minimal draft, and was the answer of the
\* request it was composed for.
THEOREM ReuseCorrect == Spec => []ReusedWasAnswered
<1>1. IInv => ReusedWasAnswered
  BY DEF IInv
<1> QED BY <1>1, Invariance, PTL

\* Only a success, or another label, takes a usable resume away.
THEOREM UsableSurvives == Spec => UsableSurvivesFailures
<1> DEFINE Taken ==
      \A l \in Labels :
         ResumeUsable(studio, l) /\ ~ResumeUsable(studio', l) =>
             \/ studio'.label # l
             \/ \E r \in Runs : answer[r] # "success" /\ answer'[r] = "success"
<1>1. ASSUME IInv, [Next]_vars PROVE Taken
  <2> SUFFICES ASSUME NEW l \in Labels, ResumeUsable(studio, l), studio'.label = l,
                      ~ResumeUsable(studio', l)
               PROVE  \E r \in Runs : answer[r] # "success" /\ answer'[r] = "success"
    OBVIOUS
  <2>1. PICK m \in Labels \cup {NoInputs} : Written(m)
    BY <1>1, RowStep
  <2>2. ASSUME \/ studio' = InProgress(studio, m, NoAnalysis)
               \/ studio' = Failure(studio, m, NoAnalysis)
        PROVE  FALSE
    <3>1. studio'.body = studio.body /\ studio'.status # "MISSING"
      BY <2>2 DEF InProgress, Failure
    <3> QED BY <3>1 DEF ResumeUsable, ResumeCurrent, GoodBody
  <2> QED BY <2>1, <2>2 DEF Written
<1>2. IInv /\ [Next]_vars => [Taken]_vars
  BY <1>1
<1>3. [][Taken]_vars <=> UsableSurvivesFailures
  BY PTL DEF UsableSurvivesFailures
<1> QED BY <1>2, <1>3, Invariance, PTL DEF Spec

-----------------------------------------------------------------------------
(* A request goes through its handler once, and nobody waits *)

RunStep(r) ==
    \/ \E req \in Requests : Begin(r, req)
    \/ ServerStep(r)
    \/ CatchPersisted(r, FALSE)
    \/ DatabaseError(r) \/ Crash(r)

\* How far a run is from its end, its detached call included: a fallback goes through
\* the handler a second time, and an error through the catch blocks of both calls.
StepRank(s) ==
    CASE s = "idle" -> 50
      [] s = "reading" -> 9
      [] s = "labelling" -> 8
      [] s = "looking" -> 7
      [] s = "composing" -> 6
      [] s = "starting" -> 5
      [] s = "finishing" -> 4
      [] s = "recording" -> 3
      [] s = "catching" -> 1
      [] OTHER -> 0
CallRank(r) == IF step[r] = "catching" /\ outer[r] # NoInputs THEN 2 ELSE 0
DetachedRank(r) == IF r \in pending THEN 1 ELSE 0
FallBackRank(r) == IF step[r] \in Reading /\ ~request[r].oneTap THEN 20 ELSE 0
Rank(r) == 2 * StepRank(step[r]) + CallRank(r) + DetachedRank(r) + FallBackRank(r)

\* Every step of a run takes it nearer to its end, and no other step touches it.
ForwardOnly == [][\A r \in Runs : Rank(r)' < Rank(r) \/ Stays(r)]_vars

\* A step of the server that run r may take: the guards of ServerStep.
Ready(r) ==
    \/ r \in pending
    \/ step[r] \in Reading \cup Started
    \/ step[r] = "catching" /\ \/ error[r] = "blocked"
                               \/ error[r] = "refused" /\ request[r].authority = "persisted"
                               \/ error[r] = "error" /\ request[r].authority = "persisted"
                               \/ error[r] # "blocked" /\ request[r].authority = "parsed"
                               \/ error[r] # "blocked" /\ Early(r)

\* Nobody waits for another request: a run that has not ended may go on.
NobodyWaits ==
    \A r \in Runs : step[r] \notin {"idle", "ended", "crashed"} \/ r \in pending => Ready(r)

\* Without an authority no run gets past the reading of the baseline.
Refused(r) ==
    step[r] # "idle" /\ request[r].authority = "none" =>
        /\ step[r] \in {"reading", "catching", "ended", "crashed"}
        /\ label[r] = NoInputs /\ outer[r] = NoInputs

PathInv == IInv /\ \A r \in Runs : Refused(r)

\* A run that moves on to a later line, or ends.
LEMMA Onward ==
  ASSUME IInv, NEW r \in Runs, NEW next \in Steps,
         step'[r] = next, StepRank(next) < StepRank(step[r]),
         step[r] \notin {"idle", "catching"}, next # "catching", request'[r] = request[r],
         r \in pending' => r \in pending
  PROVE  Rank(r)' < Rank(r)
<1>1. /\ step[r] \in Steps
      /\ StepRank(step[r]) \in Nat /\ StepRank(next) \in Nat
  BY DEF IInv, TypeOK, StepRank
<1>2. CallRank(r) = 0 /\ CallRank(r)' = 0
  BY DEF CallRank
<1>3. DetachedRank(r)' <= DetachedRank(r) /\ DetachedRank(r) \in Nat /\ DetachedRank(r)' \in Nat
  BY DEF DetachedRank
<1>4. /\ FallBackRank(r)' <= FallBackRank(r)
      /\ FallBackRank(r) \in Nat /\ FallBackRank(r)' \in Nat
  BY <1>1 DEF FallBackRank, StepRank, Reading, Steps, Started
<1>5. /\ Rank(r) = 2 * StepRank(step[r]) + CallRank(r) + DetachedRank(r) + FallBackRank(r)
      /\ Rank(r)' = 2 * StepRank(next) + CallRank(r)' + DetachedRank(r)' + FallBackRank(r)'
  BY DEF Rank
<1> QED BY <1>1, <1>2, <1>3, <1>4, <1>5

\* A run that gets an error, or takes it to the call that encloses the one that failed.
LEMMA IntoCatch ==
  ASSUME IInv, NEW r \in Runs, step'[r] = "catching",
         \/ step[r] \in Reading \cup Started
         \/ step[r] = "catching" /\ outer[r] # NoInputs /\ outer'[r] = NoInputs,
         r \in pending' => r \in pending \/ step[r] = "catching"
  PROVE  Rank(r)' < Rank(r)
<1>1. /\ StepRank(step[r]) \in Nat /\ StepRank(step'[r]) = 1
      /\ step[r] \in Reading \cup Started => StepRank(step[r]) >= 3
      /\ step[r] = "catching" => StepRank(step[r]) = 1
  BY DEF IInv, TypeOK, StepRank, Reading, Started
<1>2. /\ CallRank(r) \in {0, 2} /\ CallRank(r)' \in {0, 2}
      /\ step[r] = "catching" => CallRank(r) = 2 /\ CallRank(r)' = 0
  BY DEF CallRank, Reading, Started
<1>3. DetachedRank(r) \in {0, 1} /\ DetachedRank(r)' \in {0, 1}
      /\ (step[r] # "catching" => DetachedRank(r)' <= DetachedRank(r))
  BY DEF DetachedRank
<1>4. FallBackRank(r)' = 0 /\ FallBackRank(r) \in Nat
  BY DEF FallBackRank, Reading
<1>5. CASE step[r] = "catching"
  BY <1>1, <1>2, <1>3, <1>4, <1>5 DEF Rank
<1>6. CASE step[r] \in Reading \cup Started
  <2>1. step[r] # "catching"
    BY <1>6 DEF Reading, Started
  <2> QED BY <1>1, <1>2, <1>3, <1>4, <1>6, <2>1 DEF Rank
<1> QED BY <1>5, <1>6

\* A run that ends out of a catch block.
LEMMA OutOfCatch ==
  ASSUME IInv, NEW r \in Runs, step[r] = "catching", step'[r] \in {"ended", "crashed"}
  PROVE  Rank(r)' < Rank(r)
<1>1. StepRank(step[r]) = 1 /\ StepRank(step'[r]) = 0
  BY DEF StepRank
<1>2. CallRank(r) \in Nat /\ CallRank(r)' = 0
  BY DEF CallRank
<1>3. DetachedRank(r) \in {0, 1} /\ DetachedRank(r)' \in {0, 1}
  BY DEF DetachedRank
<1>4. FallBackRank(r)' = 0 /\ FallBackRank(r) = 0
  BY DEF FallBackRank, Reading
<1> QED BY <1>1, <1>2, <1>3, <1>4 DEF Rank

\* The steps of a run, one by one.
LEMMA OwnStep ==
  ASSUME IInv, NEW r \in Runs, Refused(r), RunStep(r)
  PROVE  Refused(r)' /\ Rank(r)' < Rank(r)
<1> USE DEF IInv, TypeOK
<1>0. /\ RunOk(r) /\ step[r] \in Steps
  BY Has
<1>1. ASSUME NEW req \in Requests, Begin(r, req) PROVE Refused(r)' /\ Rank(r)' < Rank(r)
  <2>1. /\ step[r] = "idle" /\ step'[r] = "reading" /\ request'[r] = req
        /\ UNCHANGED <<label, outer, pending>>
    BY <1>1 DEF Begin, Goto
  <2>2. CallRank(r) = 0 /\ CallRank(r)' = 0
    BY <2>1 DEF CallRank
  <2>3. DetachedRank(r)' = DetachedRank(r) /\ DetachedRank(r) \in Nat
    BY <2>1 DEF DetachedRank
  <2>4. FallBackRank(r) = 0 /\ FallBackRank(r)' \in {0, 20}
    BY <2>1 DEF FallBackRank, Reading
  <2>5. StepRank(step[r]) = 50 /\ StepRank(step'[r]) = 9
    BY <2>1 DEF StepRank
  <2>6. Refused(r)'
    BY <1>0, <2>1 DEF Refused, RunOk
  <2> QED BY <2>2, <2>3, <2>4, <2>5, <2>6 DEF Rank
<1>2. CASE ReadBaseline(r) \/ Reuse(r) \/ Regenerate(r) \/ Compose(r)
  <2>1. PICK next \in Steps :
           /\ step'[r] = next /\ StepRank(next) < StepRank(step[r])
           /\ step[r] \notin {"idle", "catching"} /\ next # "catching"
           /\ UNCHANGED <<request, label, outer, pending>>
           /\ request[r].authority = "none" => step[r] # "reading"
    BY <1>2 DEF ReadBaseline, Reuse, Regenerate, Compose, Answer, Goto, Steps, StepRank,
                Reading, Started
  <2>2. Rank(r)' < Rank(r)
    BY <2>1, Onward
  <2>3. Refused(r)'
    BY <1>2, <2>1 DEF Refused, ReadBaseline, Reuse, Regenerate, Compose
  <2> QED BY <2>2, <2>3
<1>3. CASE RecordInProgress(r) \/ Finish(r) \/ RecordSuccess(r)
  <2>1. PICK next \in Steps :
           /\ step'[r] = next /\ StepRank(next) < StepRank(step[r])
           /\ step[r] \notin {"idle", "catching"} /\ next # "catching"
           /\ UNCHANGED <<request, label, outer, pending>>
    BY <1>3 DEF RecordInProgress, Finish, RecordSuccess, Answer, Goto, Steps, StepRank,
                Reading, Started
  <2>2. Rank(r)' < Rank(r)
    BY <2>1, Onward
  <2>3. Refused(r)'
    BY <1>3, <2>1 DEF Refused, RecordInProgress, Finish, RecordSuccess
  <2> QED BY <2>2, <2>3
<1>4. CASE ReadAssessment(r)
  <2>1. /\ step[r] = "labelling" /\ step'[r] = "looking"
        /\ UNCHANGED <<request, outer, pending>>
    BY <1>4 DEF ReadAssessment, Goto
  <2>2. "looking" \in Steps /\ StepRank("looking") < StepRank("labelling")
    BY DEF Steps, StepRank, Reading
  <2>3. Rank(r)' < Rank(r)
    BY <2>1, <2>2, Onward
  <2>4. Refused(r)'
    BY <2>1 DEF Refused
  <2> QED BY <2>3, <2>4
<1>5. CASE FallBack(r)
  <2>1. /\ step[r] = "composing" /\ step'[r] = "reading" /\ ~request[r].oneTap
        /\ request' = [request EXCEPT ![r].oneTap = TRUE] /\ pending' = pending
    BY <1>5 DEF FallBack
  <2>2. request[r] \in Requests
    BY <1>0, <2>1 DEF RunOk
  <2>3. request'[r].oneTap /\ request'[r].authority = request[r].authority
    BY <2>1, <2>2 DEF Requests
  <2>4. Refused(r)'
    BY <2>1, <2>2, <2>3 DEF Refused
  <2>5. StepRank(step[r]) = 6 /\ StepRank(step'[r]) = 9
    BY <2>1 DEF StepRank
  <2>6. CallRank(r) = 0 /\ CallRank(r)' = 0
    BY <2>1 DEF CallRank
  <2>7. DetachedRank(r)' = DetachedRank(r) /\ DetachedRank(r) \in Nat
    BY <2>1 DEF DetachedRank
  <2>8. FallBackRank(r) = 20 /\ FallBackRank(r)' = 0
    BY <2>1, <2>3 DEF FallBackRank, Reading
  <2> QED BY <2>4, <2>5, <2>6, <2>7, <2>8 DEF Rank
<1>6. CASE (\E e \in Errors : Refuse(r, e)) \/ DatabaseError(r)
  <2>1. /\ step[r] \in Reading \cup Started /\ step'[r] = "catching"
        /\ UNCHANGED <<request, label, outer, pending>>
    BY <1>6 DEF Refuse, DatabaseError, Throw, Reading, Started
  <2>2. Rank(r)' < Rank(r)
    BY <2>1, IntoCatch
  <2>3. Refused(r)'
    BY <2>1 DEF Refused, Reading, Started
  <2> QED BY <2>2, <2>3
<1>7. CASE LoseSuccess(r)
  <2>1. /\ step[r] = "recording" /\ UNCHANGED <<request, pending>>
        /\ \/ step'[r] = "ended" /\ UNCHANGED <<label, outer>>
           \/ /\ step'[r] = "catching" /\ outer'[r] = NoInputs
              /\ label'[r] = outer[r]
    BY <1>7 DEF LoseSuccess, Answer, Goto
  <2>2. CASE step'[r] = "ended"
    <3>1. "ended" \in Steps /\ StepRank("ended") < StepRank("recording")
      BY DEF Steps, StepRank
    <3> QED BY <2>1, <2>2, <3>1, Onward DEF Refused
  <2>3. CASE step'[r] = "catching"
    <3>1. Rank(r)' < Rank(r)
      BY <2>1, <2>3, IntoCatch DEF Started
    <3> QED BY <2>1, <2>3, <3>1 DEF Refused
  <2> QED BY <2>1, <2>2, <2>3
<1>8. ASSUME step[r] = "catching", Rethrow(r), pending' \in {pending, pending \cup {r}}
      PROVE  Refused(r)' /\ Rank(r)' < Rank(r)
  <2>1. request' = request
    BY <1>8 DEF Rethrow
  <2>2. CASE outer[r] = NoInputs
    <3>1. step'[r] = "ended" /\ UNCHANGED <<label, outer>>
      BY <1>8, <2>2 DEF Rethrow
    <3> QED BY <1>8, <2>1, <3>1, OutOfCatch DEF Refused
  <2>3. CASE outer[r] # NoInputs
    <3>1. step'[r] = "catching" /\ outer'[r] = NoInputs
      BY <1>8, <2>3 DEF Rethrow
    <3>2. Rank(r)' < Rank(r)
      BY <1>8, <2>3, <3>1, IntoCatch
    <3>3. Refused(r)'
      BY <1>8, <2>1, <2>3 DEF Refused
    <3> QED BY <3>2, <3>3
  <2> QED BY <2>2, <2>3
<1>9. CASE \/ CatchUnrecorded(r) \/ (\E ok \in BOOLEAN : CatchPersisted(r, ok))
           \/ CatchPlain(r) \/ FailSafeThrows(r)
  BY <1>8, <1>9 DEF CatchUnrecorded, CatchPersisted, CatchPlain, FailSafeThrows, Catching
<1>10. CASE (\E good \in BOOLEAN : FailSafe(r, good)) \/ FailSafeInvalid(r)
  <2>1. /\ step[r] = "catching" /\ step'[r] = "ended" /\ UNCHANGED <<request, label, outer>>
    BY <1>10 DEF FailSafe, FailSafeInvalid, Catching, Answer, Goto
  <2> QED BY <2>1, OutOfCatch DEF Refused
<1>11. ASSUME NEW ok \in BOOLEAN, LandFailure(r, ok) PROVE Refused(r)' /\ Rank(r)' < Rank(r)
  <2>1. /\ UNCHANGED <<step, request, label, outer>> /\ r \in pending /\ r \notin pending'
    BY <1>11 DEF LandFailure
  <2>2. /\ StepRank(step[r])' = StepRank(step[r]) /\ StepRank(step[r]) \in Nat
    BY <2>1 DEF StepRank
  <2>3. CallRank(r)' = CallRank(r) /\ CallRank(r) \in Nat
    BY <2>1 DEF CallRank
  <2>4. FallBackRank(r)' = FallBackRank(r) /\ FallBackRank(r) \in Nat
    BY <2>1 DEF FallBackRank
  <2>5. DetachedRank(r) = 1 /\ DetachedRank(r)' = 0
    BY <2>1 DEF DetachedRank
  <2> QED BY <2>1, <2>2, <2>3, <2>4, <2>5 DEF Rank, Refused
<1>12. CASE Crash(r)
  <2>1. /\ UNCHANGED <<request, label, outer>> /\ r \notin pending'
        /\ step'[r] = IF step[r] = "ended" THEN "ended" ELSE "crashed"
        /\ step[r] \notin {"idle", "ended", "crashed"} \/ r \in pending
    BY <1>12 DEF Crash
  <2>2. CallRank(r) \in Nat /\ CallRank(r)' = 0
    BY <2>1 DEF CallRank
  <2>3. DetachedRank(r) \in Nat /\ DetachedRank(r)' = 0 /\ (r \in pending => DetachedRank(r) = 1)
    BY <2>1 DEF DetachedRank
  <2>4. FallBackRank(r) \in Nat /\ FallBackRank(r)' = 0
    BY <2>1 DEF FallBackRank, Reading
  <2>5. /\ StepRank(step[r]) \in Nat /\ StepRank(step'[r]) = 0
        /\ step[r] \notin {"idle", "ended", "crashed"} => StepRank(step[r]) >= 1
    BY <1>0, <2>1 DEF StepRank, Steps, Reading, Started
  <2>6. Refused(r)'
    BY <1>0, <2>1 DEF Refused, RunOk
  <2> QED BY <2>1, <2>2, <2>3, <2>4, <2>5, <2>6 DEF Rank
<1> QED
  BY <1>1, <1>2, <1>3, <1>4, <1>5, <1>6, <1>7, <1>9, <1>10, <1>11, <1>12
  DEF RunStep, ServerStep

\* The steps of the other runs.
LEMMA OthersStay ==
  ASSUME IInv, NEW r \in Runs, RunStep(r)
  PROVE  Others(r)
<1> USE Frame DEF Only
<1>1. CASE (\E req \in Requests : Begin(r, req)) \/ ReadBaseline(r) \/ ReadAssessment(r)
  BY <1>1 DEF Begin, ReadBaseline, ReadAssessment, Goto
<1>2. CASE Reuse(r) \/ Regenerate(r) \/ Compose(r)
  BY <1>2 DEF Reuse, Regenerate, Compose, Answer, Goto
<1>3. CASE FallBack(r)
  <2>1. Only(request, request', r)
    BY <1>3 DEF FallBack, IInv, TypeOK
  <2> QED BY <1>3, <2>1 DEF FallBack
<1>4. CASE RecordInProgress(r) \/ Finish(r) \/ RecordSuccess(r)
  BY <1>4 DEF RecordInProgress, Finish, RecordSuccess, Answer, Goto
<1>5. CASE LoseSuccess(r)
  BY <1>5 DEF LoseSuccess, Answer, Goto
<1>6. CASE (\E e \in Errors : Refuse(r, e)) \/ DatabaseError(r)
  BY <1>6 DEF Refuse, DatabaseError, Throw
<1>7. CASE CatchUnrecorded(r) \/ \E ok \in BOOLEAN : CatchPersisted(r, ok)
  BY <1>7 DEF CatchUnrecorded, CatchPersisted, Rethrow
<1>8. CASE CatchPlain(r) \/ FailSafeThrows(r)
  BY <1>8 DEF CatchPlain, FailSafeThrows, Rethrow
<1>9. CASE (\E good \in BOOLEAN : FailSafe(r, good)) \/ FailSafeInvalid(r)
  BY <1>9 DEF FailSafe, FailSafeInvalid, Answer, Goto
<1>10. CASE (\E ok \in BOOLEAN : LandFailure(r, ok)) \/ Crash(r)
  BY <1>10 DEF LandFailure, Crash
<1> QED
  BY <1>1, <1>2, <1>3, <1>4, <1>5, <1>6, <1>7, <1>8, <1>9, <1>10 DEF RunStep, ServerStep

\* Every step is a step of one run, or of none.
LEMMA AllSteps ==
  ASSUME IInv, [Next]_vars, NEW s \in Runs
  PROVE  RunStep(s) \/ Stays(s)
<1>1. CASE \E r \in Runs : RunStep(r)
  BY <1>1, OthersStay DEF Others
<1>2. CASE (\E h \in Hashes : Assess(h)) \/ UNCHANGED vars
  BY <1>2 DEF Assess, vars, Stays
<1> QED BY <1>1, <1>2 DEF Next, RunStep

LEMMA PathNext == PathInv /\ [Next]_vars => PathInv'
<1> SUFFICES ASSUME PathInv, [Next]_vars PROVE PathInv'
  OBVIOUS
<1>1. IInv'
  BY InvNext DEF PathInv
<1>2. ASSUME NEW s \in Runs PROVE Refused(s)'
  <2>1. CASE RunStep(s)
    BY <2>1, OwnStep DEF PathInv
  <2>2. CASE Stays(s)
    BY <2>2 DEF PathInv, Stays, Refused
  <2> QED BY <2>1, <2>2, AllSteps DEF PathInv
<1> QED BY <1>1, <1>2 DEF PathInv

LEMMA PathInvariance == Spec => []PathInv
<1>1. Init => PathInv
  BY InvFirst DEF PathInv, Refused, Init
<1> QED BY <1>1, PathNext, PTL DEF Spec

\* A request goes through its handler once, or twice if it falls back: every step of it,
\* also out of the catch blocks of nested calls and of the detached failure call, takes it
\* nearer to its end, and no step of another request or of a user sets it back.
THEOREM GoesForward == Spec => ForwardOnly
<1>1. PathInv /\ [Next]_vars => [\A r \in Runs : Rank(r)' < Rank(r) \/ Stays(r)]_vars
  BY OwnStep, AllSteps DEF PathInv
<1> QED BY <1>1, PathInvariance, PTL DEF Spec, ForwardOnly

\* A request that has not ended, or whose detached call has not landed, can always go
\* on: no error leaves it in a catch block that no exit of the handler fits.
THEOREM ReadyToGoOn == Spec => []NobodyWaits
<1>1. PathInv => NobodyWaits
  <2> SUFFICES ASSUME PathInv, NEW r \in Runs, r \notin pending,
                      step[r] \notin {"idle", "ended", "crashed"}
               PROVE  Ready(r)
    BY DEF NobodyWaits, Ready
  <2>1. /\ step[r] \in Steps /\ RunOk(r) /\ error[r] \in Errors /\ Refused(r)
    BY Has DEF PathInv
  <2>2. CASE step[r] # "catching"
    BY <2>1, <2>2 DEF Ready, Steps, Reading, Started
  <2>3. CASE step[r] = "catching"
    <3>1. /\ error[r] \in {"blocked", "refused", "error"}
          /\ request[r] \in Requests
      BY <2>1, <2>3 DEF RunOk, Errors
    <3>2. request[r].authority \in {"persisted", "parsed", "none"}
      BY <3>1 DEF Requests, Authorities
    <3>3. request[r].authority = "none" => Early(r)
      BY <2>1, <2>3 DEF Refused, Early
    <3> QED BY <2>3, <3>1, <3>2, <3>3 DEF Ready
  <2> QED BY <2>2, <2>3
<1> QED BY <1>1, PathInvariance, PTL

\* The rank that a run loses with every step is a natural number.
Counted == \A r \in Runs : Rank(r) \in Nat

LEMMA RanksCount == Counted
BY DEF Counted, Rank, StepRank, CallRank, DetachedRank, FallBackRank

\* Every request for a resume that has begun can go on until it ends, and gets
\* nearer to its end with every step: what GenerationEnds needs besides fairness.
THEOREM Progress == Spec => ForwardOnly /\ []Counted /\ []NobodyWaits
BY GoesForward, RanksCount, ReadyToGoOn, PTL
=============================================================================
