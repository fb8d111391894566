----------------------------- MODULE Opportunities -----------------------------
(***************************************************************************)
(* The opportunities of one user (apps/api/src/opportunities): the three   *)
(* ways to track one, the two ways to change its status, the dormancy      *)
(* sweep and the rescoring of those near a band boundary.                  *)
(*                                                                         *)
(* Every call first reads the rows it is about and later saves them, so    *)
(* two calls can work on copies of one row.  A save is two steps, see      *)
(* EntitySave: it selects the row as it is by then, and updates the columns*)
(* in which the changed copy differs from that.  A call that is refused    *)
(* changes nothing and is left out.                                        *)
(*                                                                         *)
(* A fit score is given in tenths, as requests may carry fractions; the    *)
(* columns hold integers.  A posting stands for its company and title, and *)
(* an analysis for the pair of baseline and job that it analyses.  HTTP    *)
(* requests to the Resume Studio and Fit Review endpoints name a baseline, *)
(* perhaps an analysis and no job; the others name all three.  The saved_* *)
(* columns repeat these.                                                   *)
(***************************************************************************)
EXTENDS Naturals, Sequences, FiniteSets, EntitySave

CONSTANTS
    Calls,       \* the requests, each of which is one call of the service
    Baselines, Postings,
    Fits,        \* the fit scores that requests carry, in tenths
    NoJob, NoAnalysis, NoWant,
    MaxAgeings   \* bound: how often ninety days go by for an opportunity

ASSUME FitsAssumption == Fits \subseteq 0..1000
ASSUME NoJobAssumption == NoJob \notin Postings
ASSUME NoAnalysisAssumption == NoAnalysis \notin Baselines \X Postings
ASSUME AgeingsAssumption == MaxAgeings \in Nat

VARIABLES
    tracker,     \* the rows of opportunities, by dateCreated
    call,        \* call[c]: where a call stands and the copies it still has to save
    ageings      \* how often time has passed

vars == <<tracker, call, ageings>>

-----------------------------------------------------------------------------
(* Scores, bands and statuses *)

Rounded(fit) == (fit + 5) \div 10

\* fitBandFromScore.
Band(fit) == IF fit >= 900 THEN "ELITE" ELSE IF fit >= 800 THEN "STRONG"
             ELSE IF fit >= 700 THEN "VIABLE" ELSE "FIT_REVIEW"
Bands == {"FIT_REVIEW", "VIABLE", "STRONG", "ELITE"}

\* isWithinBoundaryWindow.
NearBoundary(score) == \E b \in {70, 80, 90} : b <= score + 5 /\ score <= b + 5

Terminal == {"REJECTED", "WITHDRAWN"}
Statuses == Terminal \cup {"SAVED", "APPLIED", "RECRUITER_SCREEN", "HIRING_MANAGER",
                           "LOOP", "OFFER", "IN_FIT_REVIEW", "DORMANT"}

\* FORWARD_TRANSITIONS.
Forward == {<<"SAVED", "APPLIED">>, <<"APPLIED", "RECRUITER_SCREEN">>,
            <<"RECRUITER_SCREEN", "HIRING_MANAGER">>, <<"HIRING_MANAGER", "LOOP">>,
            <<"LOOP", "OFFER">>}

\* canTransition of a request; the sweep checks its own guard.
CanTransition(current, next, reset) ==
    \/ current = next
    \/ reset
    \/ next \in Terminal /\ current \notin Terminal
    \/ <<current, next>> \in Forward

SimpleStatuses == {"saved", "ready_to_apply", "applied", "improving_fit", "passed"}

\* toSimpleStatus: what the user is shown.
Simple(o) ==
    IF o.status = "APPLIED" THEN "applied"
    ELSE IF o.status \in Terminal \cup {"DORMANT"} THEN "passed"
    ELSE IF o.status = "IN_FIT_REVIEW" \/ (o.status = "SAVED" /\ o.score < 70)
         THEN "improving_fit"
    ELSE IF o.status = "SAVED" /\ o.generated THEN "ready_to_apply" ELSE "saved"

FromSimple_Shown(simple, score) == simple   \* mutant: the shown status is stored

\* fromSimpleStatus: what is stored for it.
FromSimple(simple, score) ==
    IF simple = "applied" THEN "APPLIED"
    ELSE IF simple = "passed" THEN "REJECTED"
    ELSE IF simple = "ready_to_apply" \/ (simple = "saved" /\ score >= 70) THEN "SAVED"
    ELSE "IN_FIT_REVIEW"

SimpleAllowed_FromReview(current, next) ==  \* mutant: applying while improving the fit
    current = next \/ next = "passed"
        \/ (current \in {"ready_to_apply", "improving_fit"} /\ next = "applied")

\* isSimpleTransitionAllowed.
SimpleAllowed(current, next) ==
    \/ current = next \/ next = "passed"
    \/ <<current, next>> \in {<<"ready_to_apply", "applied">>,
                              <<"improving_fit", "ready_to_apply">>}

-----------------------------------------------------------------------------
(* Rows and calls *)

Analyses == (Baselines \X Postings) \cup {NoAnalysis}

Rows == [baseline : Baselines, job : Postings \cup {NoJob}, posting : Postings,
         analysis : Analyses,
         status : Statuses, score : 0..100, band : Bands, initial : 0..100,
         generated : BOOLEAN, dormant : BOOLEAN, old : BOOLEAN]

\* What a request to track an opportunity names.
Wants == [baseline : Baselines, job : Postings \cup {NoJob}, posting : Postings,
          analysis : Analyses]

Trackings == {"upsert", "studio", "review"}
Kinds == Trackings \cup {"transition", "update", "sweep", "rescore", "none"}
Places == {"idle", "looking", "merging", "creating", "changing", "sweeping",
           "rescoring", "done"}

\* A call: where it stands, what it asked for, the copies it has read and not yet
\* dealt with, and of the one that it is saving what the save selected and the
\* entity that it was given.
None == [i \in {} |-> 0]
Asked(at, kind, want, reset, copies) ==
    [at |-> at, kind |-> kind, want |-> want, reset |-> reset, copies |-> copies,
     saving |-> None]
Idle(at) == Asked(at, "none", NoWant, FALSE, None)
Waiting == Idle("idle")
Done == Idle("done")

Read(ids) == [i \in ids |-> tracker[i]]

Init ==
    /\ tracker = <<>>
    /\ call = [c \in Calls |-> Waiting]
    /\ ageings = 0

\* The unique index over user, baseline and job.
Conflicts(i, o) ==
    o.job # NoJob /\ \E j \in DOMAIN tracker :
        j # i /\ tracker[j].baseline = o.baseline /\ tracker[j].job = o.job

Put(c, rec) == call' = [call EXCEPT ![c] = rec]

\* A call whose copy i is dealt with goes on with the others, if it has any.
Proceed(c, i) ==
    LET rest == DOMAIN call[c].copies \ {i}
    IN  Put(c, IF rest = {} THEN Done
               ELSE Asked(call[c].at, call[c].kind, call[c].want, call[c].reset,
                          [j \in rest |-> call[c].copies[j]]))

\* A call that is not in the middle of a save.
Free(c, at) == call[c].at = at /\ call[c].saving = None

\* repository.save of an entity made of copy i: its SELECT ...
Save(c, i, o) ==
    /\ Put(c, [call[c] EXCEPT !.saving = [j \in {i} |-> [selected |-> tracker[i],
                                                         entity |-> o]]])
    /\ UNCHANGED <<tracker, ageings>>

\* ... and its UPDATE.  On a unique conflict nothing is written and the call ends,
\* with an error or (createFromIntent) with the row it conflicts with.
Write(c) ==
    /\ \E i \in DOMAIN call[c].saving :
          LET o == Updated(tracker[i], call[c].saving[i].selected, call[c].saving[i].entity)
          IN  IF Conflicts(i, o)
              THEN UNCHANGED tracker /\ Put(c, Done)
              ELSE tracker' = [tracker EXCEPT ![i] = o] /\ Proceed(c, i)
    /\ UNCHANGED ageings

-----------------------------------------------------------------------------
(* Tracking: upsertOpportunity, createFromResumeStudio, createFromFitReviewOverride *)

\* findOpportunityForPair.
Track(c, kind, w) ==
    /\ call[c] = Waiting
    /\ kind = "upsert" => w.job = w.posting
    /\ kind = "studio" => w.job \in {NoJob, w.posting}
    /\ kind = "review" => w.job = NoJob
    /\ w.analysis = <<w.baseline, w.posting>> \/ (w.job = NoJob /\ w.analysis = NoAnalysis)
    /\ LET hits == {i \in DOMAIN tracker : /\ w.job # NoJob
                                           /\ tracker[i].baseline = w.baseline
                                           /\ tracker[i].job = w.job}
       IN  \/ /\ hits = {}
              /\ Put(c, Asked("looking", kind, w, FALSE, Read({})))
           \/ \E i \in hits : Put(c, Asked("merging", kind, w, FALSE, Read({i})))
    /\ UNCHANGED <<tracker, ageings>>

\* The second look: for an upsert by its analysis, the last updated; for the
\* others by company and title, the last created.
FindOther(c) ==
    /\ call[c].at = "looking"
    /\ LET w == call[c].want
           byAnalysis == {i \in DOMAIN tracker : tracker[i].analysis = w.analysis}
           byName == {i \in DOMAIN tracker : /\ tracker[i].posting = w.posting
                                             /\ \A j \in i+1..Len(tracker) :
                                                    tracker[j].posting # w.posting}
           hits == IF call[c].kind = "upsert" THEN byAnalysis ELSE byName
       IN  \/ hits = {} /\ Put(c, Asked("creating", call[c].kind, w, FALSE, Read({})))
           \/ \E i \in hits :
                Put(c, Asked("merging", call[c].kind, w, FALSE, Read({i})))
    /\ UNCHANGED <<tracker, ageings>>

\* The fits with which each way of tracking goes ahead.
Accepts(kind, fit) ==
    /\ kind = "studio" => fit >= 800
    /\ kind = "review" => fit < 700

TrackedStatus(kind, fit) ==
    IF kind = "studio" \/ (kind = "upsert" /\ Rounded(fit) >= 70)
    THEN "SAVED" ELSE "IN_FIT_REVIEW"

Kept_Applied(kind) == {"APPLIED"}           \* mutant: an upsert keeps APPLIED only

\* The statuses that tracking an opportunity again leaves alone.
Kept(kind) == IF kind = "upsert" THEN {"APPLIED", "REJECTED"} ELSE Terminal

\* An opportunity that is tracked again, from the copy o.
Merged(o, kind, w, fit) ==
    [o EXCEPT !.baseline = w.baseline,
              !.job = IF w.job = NoJob THEN @ ELSE w.job,
              !.posting = IF kind = "upsert" THEN w.posting ELSE @,
              !.analysis = IF w.analysis = NoAnalysis THEN @ ELSE w.analysis,
              !.score = Rounded(fit),
              !.band = Band(10 * Rounded(fit)),
              !.status = IF @ \in Kept(kind) THEN @ ELSE TrackedStatus(kind, fit)]

Merge(c) ==
    /\ Free(c, "merging")
    /\ \E i \in DOMAIN call[c].copies, fit \in Fits :
          /\ Accepts(call[c].kind, fit)
          /\ Save(c, i, Merged(call[c].copies[i], call[c].kind, call[c].want, fit))

Created(kind, w, fit, generated) ==
    [baseline |-> w.baseline, job |-> w.job, posting |-> w.posting,
     analysis |-> w.analysis, status |-> TrackedStatus(kind, fit),
     score |-> Rounded(fit), band |-> Band(10 * Rounded(fit)), initial |-> Rounded(fit),
     generated |-> generated, dormant |-> FALSE, old |-> FALSE]

\* Only an upsert says whether a document was generated.
Create(c) ==
    /\ call[c].at = "creating"
    /\ \E fit \in Fits, generated \in BOOLEAN :
          LET o == Created(call[c].kind, call[c].want, fit, generated)
          IN  /\ Accepts(call[c].kind, fit)
              /\ generated => call[c].kind = "upsert"
              /\ IF Conflicts(0, o) THEN UNCHANGED tracker
                 ELSE tracker' = Append(tracker, o)
    /\ Put(c, Done)
    /\ UNCHANGED ageings

-----------------------------------------------------------------------------
(* Changing: transitionStatus, updateOpportunity *)

\* mustFindForUser.
Open(c, kind, reset, i) ==
    /\ call[c] = Waiting
    /\ kind = "update" => ~reset
    /\ Put(c, Asked("changing", kind, NoWant, reset, Read({i})))
    /\ UNCHANGED <<tracker, ageings>>

Transition(c) ==
    /\ Free(c, "changing") /\ call[c].kind = "transition"
    /\ \E i \in DOMAIN call[c].copies, next \in Statuses :
          LET o == call[c].copies[i]
          IN  /\ next = "APPLIED" => o.score >= 70
              /\ CanTransition(o.status, next, call[c].reset)
              /\ Save(c, i, [o EXCEPT !.status = next, !.old = FALSE,
                                      !.dormant = (next = "DORMANT")])

\* A request that names no status keeps the one that is shown.
Update(c) ==
    /\ Free(c, "changing") /\ call[c].kind = "update"
    /\ \E i \in DOMAIN call[c].copies, next \in SimpleStatuses :
          LET o == call[c].copies[i]
          IN  /\ SimpleAllowed(Simple(o), next)
              /\ Save(c, i, [o EXCEPT !.status = FromSimple(next, o.score), !.old = FALSE])

-----------------------------------------------------------------------------
(* The sweep and the rescoring: all rows are read, then saved one by one *)

Due(o) == o.old /\ o.status \notin Terminal \cup {"DORMANT"}

OpenAll(c, at, kind, ids) ==
    /\ call[c] = Waiting
    /\ Put(c, IF ids = {} THEN Done ELSE Asked(at, kind, NoWant, FALSE, Read(ids)))
    /\ UNCHANGED <<tracker, ageings>>

Sweep(c) == OpenAll(c, "sweeping", "sweep", {i \in DOMAIN tracker : Due(tracker[i])})
Rescore(c) == OpenAll(c, "rescoring", "rescore",
                      {i \in DOMAIN tracker : NearBoundary(tracker[i].score)})

SweepOne(c) ==
    /\ Free(c, "sweeping")
    /\ \E i \in DOMAIN call[c].copies :
          Save(c, i, [call[c].copies[i] EXCEPT !.status = "DORMANT", !.dormant = TRUE,
                                               !.old = FALSE])

RescoreOne_ScoreOnly(c) ==                  \* mutant: the band is not saved
    /\ Free(c, "rescoring")
    /\ \E i \in DOMAIN call[c].copies, fit \in Fits :
          LET o == call[c].copies[i]
          IN  Band(fit) # o.band /\ Save(c, i, [o EXCEPT !.score = Rounded(fit)])

\* The new band is that of the unrounded score; a row without a new score, or
\* whose band stays, is not saved.
RescoreOne(c) ==
    /\ Free(c, "rescoring")
    /\ \E i \in DOMAIN call[c].copies :
          LET o == call[c].copies[i]
          IN  \/ /\ Proceed(c, i)
                 /\ UNCHANGED <<tracker, ageings>>
              \/ \E fit \in Fits :
                   /\ Band(fit) # o.band
                   /\ Save(c, i, [o EXCEPT !.score = Rounded(fit), !.band = Band(fit)])

\* More than ninety days go by while nobody calls.
GrowOld(i) ==
    /\ ageings < MaxAgeings
    /\ \A c \in Calls : call[c] \in {Waiting, Done}
    /\ tracker' = [tracker EXCEPT ![i].old = TRUE]
    /\ ageings' = ageings + 1
    /\ UNCHANGED call

Next ==
    \/ \E c \in Calls :
          \/ \E kind \in Trackings, w \in Wants : Track(c, kind, w)
          \/ FindOther(c) \/ Merge(c) \/ Create(c)
          \/ \E kind \in {"transition", "update"}, reset \in BOOLEAN,
                i \in DOMAIN tracker : Open(c, kind, reset, i)
          \/ Transition(c) \/ Update(c)
          \/ Sweep(c) \/ SweepOne(c) \/ Rescore(c) \/ RescoreOne(c)
          \/ Write(c)
    \/ \E i \in DOMAIN tracker : GrowOld(i)

Spec == Init /\ [][Next]_vars

-----------------------------------------------------------------------------
(* Properties *)

\* Every variable stays in its domain, and copies are of rows that exist.
TypeOK ==
    /\ tracker \in Seq(Rows)
    /\ ageings \in Nat
    /\ \A c \in Calls :
          /\ DOMAIN call[c].saving \subseteq DOMAIN call[c].copies
          /\ DOMAIN call[c].copies \subseteq DOMAIN tracker
          /\ call[c] \in [at : Places, kind : Kinds, want : Wants \cup {NoWant},
                           reset : BOOLEAN, copies : [DOMAIN call[c].copies -> Rows],
                           saving : [DOMAIN call[c].saving ->
                                        [selected : Rows, entity : Rows]]]

\* The UPDATE of call c lands on row i.
Writes(c, i) == i \in DOMAIN call[c].saving /\ call'[c] # call[c]

\* Another call wrote one of these columns of row i since call c selected it.
CrossedAt(c, i, columns) == Crossed(tracker[i], call[c].saving[i].selected, columns)

\* The band is that of a fit which rounds to the score.
Explained(o) == \E fit \in 0..1000 : Rounded(fit) = o.score /\ Band(fit) = o.band

\* Score and band are columns of their own, and the rescoring takes the band from
\* the unrounded score: the stored band is always that of a fit that rounds to the
\* stored score, whichever copies are saved over one another, unless another call
\* writes one of the two between the two statements of a save, or the copy that is
\* saved was read from such a row.
KeepsBands ==
    \A i \in DOMAIN tracker' :
        ~Explained(tracker'[i]) =>
            \/ i \in DOMAIN tracker /\ ~Explained(tracker[i])
            \/ \E c \in Calls : /\ Writes(c, i)
                                /\ \/ CrossedAt(c, i, {"score", "band"})
                                   \/ ~Explained(call[c].copies[i])
BandsStayExplained == [][KeepsBands]_vars

\* The tracker's cards read the flag, its lists the status: an opportunity with the
\* status DORMANT has the flag, also when copies cross, with the same two exceptions.
Flagged(o) == o.status = "DORMANT" => o.dormant
KeepsFlags ==
    \A i \in DOMAIN tracker' :
        ~Flagged(tracker'[i]) =>
            \/ i \in DOMAIN tracker /\ ~Flagged(tracker[i])
            \/ \E c \in Calls : /\ Writes(c, i)
                                /\ \/ CrossedAt(c, i, {"status", "dormant"})
                                   \/ ~Flagged(call[c].copies[i])
DormantStaysFlagged == [][KeepsFlags]_vars

\* 'captures immutable snapshot fields' (a test): an opportunity is never removed
\* and keeps the score it was first tracked with, so that the cards about a fit
\* that improved compare with what the user started from.
KeepsSnapshots ==
    /\ Len(tracker') >= Len(tracker)
    /\ \A i \in DOMAIN tracker : tracker'[i].initial = tracker[i].initial
SnapshotKept == [][KeepsSnapshots]_vars

\* A rejected opportunity comes back only by a manual reset, or by a call that
\* read it before it was rejected.
KeepsRejections ==
    \A i \in DOMAIN tracker :
        (tracker[i].status = "REJECTED" /\ tracker'[i].status # "REJECTED") =>
            \E c \in Calls :
                /\ Writes(c, i)
                /\ call[c].reset \/ call[c].copies[i].status # "REJECTED"
RejectedIsFinal == [][KeepsRejections]_vars

\* 'blocks APPLIED status when fit score is below 70' (a test): whichever way an
\* opportunity becomes APPLIED, the call had read a score of at least 70, and the row
\* has one too unless another call changed it between the two statements of the
\* save; or the call saves a copy that was APPLIED already.
AppliesFitOnes ==
    \A i \in DOMAIN tracker :
        (tracker[i].status # "APPLIED" /\ tracker'[i].status = "APPLIED") =>
            \E c \in Calls :
                /\ Writes(c, i)
                /\ \/ call[c].copies[i].status = "APPLIED"
                   \/ /\ call[c].copies[i].score >= 70
                      /\ tracker'[i].score >= 70 \/ CrossedAt(c, i, {"score"})
AppliedNeedsFit == [][AppliesFitOnes]_vars
=============================================================================
