------------------------- MODULE CoverLetterGeneration -------------------------
(***************************************************************************)
(* generateCoverLetter (cover-letters/cover-letters.service.ts) for one    *)
(* user, baseline and job: any number of requests, each of which reserves  *)
(* its dedupe key, writes the letter's columns of the studio_artifacts row,*)
(* checks and saves the row of cover_letters, and completes its key.       *)
(*                                                                         *)
(* It composes WorkflowIdempotency (the reservation, whose variables and   *)
(* actions it uses) and StudioArtifactRow (the writes of the artifact).    *)
(* Every database call is a step of its own.  The inputs of a letter are   *)
(* the baseline version, with the job's text, and the closing template.    *)
(* A request whose draft is refused before reserve changes nothing and is  *)
(* left out; so is the application record written best effort at the end.  *)
(* The controller gives up on a handler after 12 seconds and tells the     *)
(* user; the handler runs on as if nothing had happened, and so it does    *)
(* here: answer is how the handler ends, whether or not anybody listens.   *)
(***************************************************************************)
EXTENDS Naturals, Sequences, StudioArtifactRow

CONSTANTS
    Runs,        \* the requests, each with the audit id that names its run
    Versions,    \* the baseline version hashes, with the job fingerprint
    Templates,   \* the closing template keys
    NoRun, NoKey,
    MaxUpsets    \* bound: crashes and database errors in a behaviour

ASSUME NoRunAssumption == NoRun \notin Runs
ASSUME NoBodyAssumption == NoBody \notin Runs
ASSUME UpsetsAssumption == MaxUpsets \in Nat

VARIABLES
    row, pc, key, outcome, reply, updates, reopened, faults,  \* the reservations
    step,        \* step[r]: where run r stands in the handler
    request,     \* request[r]: its inputs, and whether its score forces a template
    letters,     \* the rows of cover_letters, by createdAt
    letterOf,    \* letterOf[r]: the id of the letter row r answers with, or NoRun
    studio,      \* the cover letter columns of the studio_artifacts row
    answer,      \* answer[r]: how the handler ended
    pending,     \* pending[r]: the detached failure calls that have not landed
    upsets       \* crashes and database errors so far

idemVars == <<row, pc, key, outcome, reply, updates, reopened, faults>>
letterVars == <<step, request, letters, letterOf, studio, answer, pending, upsets>>
vars == <<idemVars, letterVars>>

\* buildGenerationDedupeKey, and the ":regen:<audit id>" key of a second try.
BaseKey(in) == <<in.version, in.template>>
RegenKey(in, r) == <<in.version, in.template, r>>
Keys == (Versions \X Templates) \cup (Versions \X Templates \X Runs)
ASSUME NoKeyAssumption == NoKey \notin Keys

Idem == INSTANCE WorkflowIdempotency WITH MaxUpdates <- 2, MaxFaults <- MaxUpsets

Steps == {"idle", "reserving", "starting", "checking", "saving", "resolving",
          "overwriting", "recording", "completing", "failing", "ended", "crashed"}
Working == {"starting", "checking", "saving", "resolving", "overwriting",
            "recording", "completing"}
Answers == {"none", "success", "in_flight", "duplicate", "conflict", "error"}
Requests == [version : Versions, template : Templates, forced : BOOLEAN]
NoRequest == NoKey

Forced(r) == request[r].forced
Version(r) == request[r].version

Init ==
    /\ Idem!Init
    /\ step = [r \in Runs |-> "idle"]
    /\ request = [r \in Runs |-> NoRequest]
    /\ letters = <<>>
    /\ letterOf = [r \in Runs |-> NoRun]
    /\ studio = NoDocument
    /\ answer = [r \in Runs |-> "none"]
    /\ pending = [r \in Runs |-> {}]
    /\ upsets = 0

-----------------------------------------------------------------------------
(* The reservation *)

\* From a score of 80 on the request neither reserves a key nor completes one.
Begin(r, req) ==
    /\ step[r] = "idle"
    /\ request' = [request EXCEPT ![r] = req]
    /\ IF req.forced
       THEN /\ step' = [step EXCEPT ![r] = "starting"]
            /\ UNCHANGED idemVars
       ELSE /\ step' = [step EXCEPT ![r] = "reserving"]
            /\ Idem!Reserve(r, BaseKey(req))
    /\ UNCHANGED <<letters, letterOf, studio, answer, pending, upsets>>

\* The calls of reserve; a run that is to work enters the try block.
ReserveStep(r) ==
    /\ step[r] = "reserving"
    /\ Idem!Find(r) \/ Idem!SaveExisting(r) \/ Idem!InsertRow(r) \/ Idem!Refind(r)
    /\ step' = [step EXCEPT ![r] = IF pc'[r] = "working" THEN "starting" ELSE @]
    /\ UNCHANGED <<request, letters, letterOf, studio, answer, pending, upsets>>

ReserveAgain_SameKey(r) ==          \* mutant: the stored letter is outdated, try again
    /\ step[r] = "reserving" /\ pc[r] = "replied" /\ outcome[r] = "existing_completed"
    /\ Idem!Reserve(r, BaseKey(request[r]))
    /\ UNCHANGED letterVars

\* The key is completed.  No stored response is a structured template, since the
\* runs that produce one never complete a key, so none is reused: the run
\* reserves a key of its own and generates the letter again.
ReserveAgain(r) ==
    /\ step[r] = "reserving" /\ pc[r] = "replied" /\ outcome[r] = "existing_completed"
    /\ Idem!Reserve(r, RegenKey(request[r], r))
    /\ UNCHANGED letterVars

\* generation_in_flight, thrown before the try block: nothing is recorded.
TurnAway(r) ==
    /\ step[r] = "reserving" /\ pc[r] = "replied" /\ outcome[r] = "existing_in_flight"
    /\ Idem!End(r)
    /\ step' = [step EXCEPT ![r] = "ended"]
    /\ answer' = [answer EXCEPT ![r] = "in_flight"]
    /\ UNCHANGED <<request, letters, letterOf, studio, pending, upsets>>

-----------------------------------------------------------------------------
(* The work *)

Fail_SilentKey(r, ans) ==           \* mutant: the catch block forgets markFailure
    /\ step' = [step EXCEPT ![r] = "failing"]
    /\ answer' = [answer EXCEPT ![r] = ans]
    /\ pending' = [pending EXCEPT ![r] = {"artifact"}]
    /\ UNCHANGED <<request, letters, letterOf, studio>>

Fail_SilentArtifact(r, ans) ==      \* mutant: ... or recordCoverLetterFailure
    /\ step' = [step EXCEPT ![r] = IF Forced(r) THEN "ended" ELSE "failing"]
    /\ answer' = [answer EXCEPT ![r] = ans]
    /\ pending' = [pending EXCEPT ![r] = IF Forced(r) THEN {} ELSE {"row"}]
    /\ UNCHANGED <<request, letters, letterOf, studio>>

\* The catch block: two detached calls record the failure, some time later, and
\* the user is answered at once.
Fail(r, ans) ==
    /\ step' = [step EXCEPT ![r] = "failing"]
    /\ answer' = [answer EXCEPT ![r] = ans]
    /\ pending' = [pending EXCEPT ![r] =
                      IF Forced(r) THEN {"artifact"} ELSE {"artifact", "row"}]
    /\ UNCHANGED <<request, letters, letterOf, studio>>

Proceed(r, next) ==
    /\ step' = [step EXCEPT ![r] = next]
    /\ UNCHANGED <<request, answer, pending, upsets>>

RecordInProgress(r) ==
    /\ step[r] = "starting"
    /\ studio' = InProgress(studio, Version(r), NoAnalysis)
    /\ Proceed(r, IF Forced(r) THEN "saving" ELSE "checking")
    /\ UNCHANGED <<idemVars, letters, letterOf>>

LatestLetter == letters[Len(letters)]
Matches(letter, r) == letter.inputs = BaseKey(request[r])

\* Only the latest letter of the pair is looked at.
EnsureNoDuplicate(r) ==
    /\ step[r] = "checking"
    /\ IF letters = <<>> \/ Matches(LatestLetter, r)
       THEN Proceed(r, "saving") /\ UNCHANGED <<letters, letterOf, studio>>
       ELSE Fail(r, "duplicate") /\ UNCHANGED upsets
    /\ UNCHANGED idemVars

SaveLetter(r) ==
    /\ step[r] = "saving"
    /\ IF \E i \in 1..Len(letters) : Matches(letters[i], r)
       THEN Proceed(r, "resolving") /\ UNCHANGED <<letters, letterOf>>
       ELSE /\ letters' = Append(letters, [id |-> r, inputs |-> BaseKey(request[r])])
            /\ letterOf' = [letterOf EXCEPT ![r] = r]
            /\ Proceed(r, "recording")
    /\ UNCHANGED <<idemVars, studio>>

\* After the unique conflict: the pair's latest letter, whatever its inputs.
ResolveConflict(r) ==
    /\ step[r] = "resolving"
    /\ IF letters = <<>>
       THEN Fail(r, "error") /\ UNCHANGED upsets
       ELSE /\ letterOf' = [letterOf EXCEPT ![r] = LatestLetter.id]
            /\ Proceed(r, IF Forced(r) THEN "overwriting" ELSE "recording")
            /\ UNCHANGED <<letters, studio>>
    /\ UNCHANGED idemVars

OverwriteLetter_NoUniqueIndex(r) == \* mutant: the unique index is missing
    /\ step[r] = "overwriting"
    /\ letters' = [i \in 1..Len(letters) |->
                     IF letters[i].id # letterOf[r] THEN letters[i]
                     ELSE [id |-> letterOf[r], inputs |-> BaseKey(request[r])]]
    /\ Proceed(r, "recording")
    /\ UNCHANGED <<letterOf, studio, idemVars>>

\* save with the id of that letter: an update in place, an insert if it is gone.
OverwriteLetter(r) ==
    /\ step[r] = "overwriting"
    /\ LET others == {i \in 1..Len(letters) : letters[i].id # letterOf[r]}
           mine == [id |-> letterOf[r], inputs |-> BaseKey(request[r])]
       IN  IF \E i \in others : Matches(letters[i], r)
           THEN Fail(r, "conflict") /\ UNCHANGED upsets
           ELSE /\ letters' = IF others = 1..Len(letters) THEN Append(letters, mine)
                              ELSE [i \in 1..Len(letters) |->
                                      IF i \in others THEN letters[i] ELSE mine]
                /\ Proceed(r, "recording")
                /\ UNCHANGED <<letterOf, studio>>
    /\ UNCHANGED idemVars

\* The output validations and the evidence contract may refuse the letter.
RefuseLetter(r) ==
    /\ step[r] = "recording"
    /\ Fail(r, "error")
    /\ UNCHANGED <<idemVars, upsets>>

RecordSuccess(r) ==
    /\ step[r] = "recording"
    /\ studio' = Success(studio, Version(r), NoAnalysis, r)
    /\ Proceed(r, "completing")
    /\ UNCHANGED <<idemVars, letters, letterOf>>

\* complete, unless the template was forced, and the answer.
Complete(r) ==
    /\ step[r] = "completing"
    /\ IF Forced(r) THEN UNCHANGED idemVars ELSE Idem!Complete(r)
    /\ step' = [step EXCEPT ![r] = "ended"]
    /\ answer' = [answer EXCEPT ![r] = "success"]
    /\ UNCHANGED <<request, letters, letterOf, studio, pending, upsets>>

\* A database call inside the try block throws.
DatabaseError(r) ==
    /\ step[r] \in Working
    /\ upsets < MaxUpsets
    /\ upsets' = upsets + 1
    /\ Fail(r, "error")
    /\ UNCHANGED idemVars

-----------------------------------------------------------------------------
(* The detached calls, the user and the process *)

Land(r, call) ==
    /\ call \in pending[r]
    /\ pending' = [pending EXCEPT ![r] = @ \ {call}]
    /\ step' = [step EXCEPT ![r] = IF pending'[r] = {} THEN "ended" ELSE @]
    /\ UNCHANGED <<request, letters, letterOf, answer, upsets>>

LandArtifactFailure(r) ==
    /\ Land(r, "artifact")
    /\ studio' = Failure(studio, Version(r), NoAnalysis)
    /\ UNCHANGED idemVars

LandRowFailure_AnyRun(r) ==         \* mutant: the key is marked whoever holds it
    /\ Land(r, "row")
    /\ row' = [row EXCEPT ![key[r]].status = "FAILED"]
    /\ updates' = [updates EXCEPT ![r] = @ + 1]
    /\ UNCHANGED <<pc, key, outcome, reply, reopened, faults, studio>>

LandRowFailure(r) ==
    /\ Land(r, "row")
    /\ Idem!MarkFailure(r, "FAILED")
    /\ UNCHANGED studio

\* DELETE /cover-letters/:id removes the row; the artifact keeps its body.
DeleteLetter(i) ==
    /\ i \in 1..Len(letters)
    /\ letters' = SubSeq(letters, 1, i - 1) \o SubSeq(letters, i + 1, Len(letters))
    /\ UNCHANGED <<idemVars, step, request, letterOf, studio, answer, pending, upsets>>

\* The process dies, or reserve throws: the run's detached calls are lost too.
Crash(r) ==
    /\ step[r] \in Working \cup {"reserving", "failing"}
    /\ upsets < MaxUpsets
    /\ upsets' = upsets + 1
    /\ IF Forced(r) THEN UNCHANGED idemVars ELSE Idem!Crash(r)
    /\ step' = [step EXCEPT ![r] = "crashed"]
    /\ pending' = [pending EXCEPT ![r] = {}]
    /\ UNCHANGED <<request, letters, letterOf, studio, answer>>

-----------------------------------------------------------------------------
\* The steps that are taken without a user, a crash or a database error.
ServerStep(r) ==
    \/ ReserveStep(r) \/ ReserveAgain(r) \/ TurnAway(r)
    \/ RecordInProgress(r) \/ EnsureNoDuplicate(r)
    \/ SaveLetter(r) \/ ResolveConflict(r) \/ OverwriteLetter(r)
    \/ RefuseLetter(r) \/ RecordSuccess(r) \/ Complete(r)
    \/ LandArtifactFailure(r) \/ LandRowFailure(r)

RunStep(r) ==
    \/ \E req \in Requests : Begin(r, req)
    \/ ReserveStep(r) \/ ReserveAgain(r) \/ TurnAway(r)
    \/ RecordInProgress(r) \/ EnsureNoDuplicate(r)
    \/ SaveLetter(r) \/ ResolveConflict(r) \/ OverwriteLetter(r)
    \/ RefuseLetter(r) \/ RecordSuccess(r) \/ Complete(r)
    \/ LandArtifactFailure(r) \/ LandRowFailure(r)
    \/ DatabaseError(r) \/ Crash(r)

Next ==
    \/ \E r \in Runs : RunStep(r)
    \/ \E i \in 1..Len(letters) : DeleteLetter(i)

Spec == Init /\ [][Next]_vars

\* Handlers and detached calls run on; no user is made to do anything.
FairSpec == Spec /\ \A r \in Runs : WF_vars(ServerStep(r))

-----------------------------------------------------------------------------
(* Properties *)

\* Every variable of the handlers stays in its domain.
TypeOK ==
    /\ step \in [Runs -> Steps]
    /\ request \in [Runs -> Requests \cup {NoRequest}]
    /\ letters \in Seq([id : Runs, inputs : Versions \X Templates])
    /\ letterOf \in [Runs -> Runs \cup {NoRun}]
    /\ studio \in [status : Lifecycle, label : Versions \cup {NoInputs},
                   analysis : {NoAnalysis}, body : Runs \cup {NoBody}]
    /\ answer \in [Runs -> Answers]
    /\ pending \in [Runs -> SUBSET {"artifact", "row"}]
    /\ upsets \in Nat

Refusals == {"duplicate", "conflict", "error"}
Unfinished(r) == step[r] \in Working \cup {"crashed"}

\* What Studio says of the letter is true of some run with the inputs it is
\* labelled with: a letter that is COMPLETED comes from a run that has a row of
\* cover_letters, one that is FAILED was refused to some request, and one that is
\* IN_PROGRESS is being worked on, died with its process, or has a failure to land.
StudioTellsTheTruth ==
    /\ studio.status = "COMPLETED" =>
          /\ studio.body \in Runs /\ letterOf[studio.body] # NoRun
          /\ Version(studio.body) = studio.label
    /\ studio.status = "FAILED" =>
          \E r \in Runs : answer[r] \in Refusals /\ Version(r) = studio.label
    /\ studio.status = "IN_PROGRESS" =>
          \E r \in Runs : /\ Unfinished(r) \/ "artifact" \in pending[r]
                          /\ step[r] # "idle" /\ Version(r) = studio.label

\* What the table of reservations says of a key is true of the run that holds
\* it, however many runs held it before: the run of a completed key answered with
\* a letter of the key's inputs, that of a failed one was refused, and that of a
\* key in flight works, died with its process, or has a failure to land.
LedgerTellsTheTruth ==
    \A k \in Keys :
        LET r == row[k].runId
        IN  /\ row[k].status = "COMPLETED" =>
                  /\ answer[r] = "success" /\ letterOf[r] # NoRun
                  /\ BaseKey(request[r]) = <<k[1], k[2]>>
            /\ row[k].status = "FAILED" => answer[r] \in Refusals
            /\ row[k].status = "IN_FLIGHT" => Unfinished(r) \/ "row" \in pending[r]

\* The pair never has two letters of the same inputs nor two with one id, in
\* whatever order runs insert, overwrite and users delete.
LettersAreDistinct ==
    \A i, j \in 1..Len(letters) :
        i # j => /\ letters[i].inputs # letters[j].inputs
                 /\ letters[i].id # letters[j].id

\* The handlers use the reservations as their callers may: what
\* WorkflowIdempotency promises of replays, duplicate work and superseded runs
\* holds of cover letters.
UsesReservationsAsSpecified == Idem!Spec

\* Every request ends, unless its own process died: nobody's crash, error or
\* deletion keeps another request running.
EveryRequestEnds ==
    \A r \in Runs : step[r] # "idle" ~> step[r] \in {"ended", "crashed"}

\* Neither Studio nor a key says for ever that a letter is being generated,
\* unless a run with that label, or the holder of that key, died.
GenerationEnds ==
    /\ studio.status = "IN_PROGRESS" ~>
          \/ studio.status # "IN_PROGRESS"
          \/ \E r \in Runs : step[r] = "crashed" /\ Version(r) = studio.label
    /\ \A k \in Keys : Idem!InFlight(k) ~>
          \/ ~Idem!InFlight(k)
          \/ step[row[k].runId] = "crashed"
=============================================================================
