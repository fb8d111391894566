----------------------- MODULE InterviewExpansionProofs -----------------------
(***************************************************************************)
(* The theorems about InterviewExpansion, for any number of requests,      *)
(* texts and targets.                                                      *)
(*                                                                         *)
(* FitStaysOfItsAnswers is about what a save writes, which the request has *)
(* made of its copy one step, and any number of foreign steps, before:     *)
(* SavesInv says of every entity that waits to be written that it agrees   *)
(* with itself when the copy did.                                          *)
(***************************************************************************)
EXTENDS InterviewExpansion, TLAPS

\* The theorems about the reservations, here with the hashes of interviews as keys.
IdemP == INSTANCE WorkflowIdempotencyProofs WITH
    Keys <- Hashes, MaxUpdates <- 2, MaxFaults <- MaxUpsets

\* The request has read the interview, and is at work.
Underway(s) == s \notin {"idle", "ended"}

Sound(sv, iv) ==
    /\ sv \in [selected : Interviews, entity : Interviews]
    /\ Agrees(iv) => Agrees(sv.entity)

CopiesInv == \A c \in Calls : Underway(step[c]) => copy[c] \in Interviews
SavesInv == \A c \in Calls : step[c] = "updating" => Sound(saving[c], copy[c])

DataInv == TypeOK /\ CopiesInv /\ SavesInv

\* The phases of a run that waits for reserve, or has its answer.
Reserving == {"finding", "saving", "inserting", "refinding", "replied"}

\* How far a run has come in the handler and in the reservations: the key that it
\* reserved is that of the copy it keeps, and nothing follows its answer.
RunInv ==
    \A r \in Runs :
        /\ step[r] \in {"idle", "read"} => pc[r] = "idle"
        /\ step[r] = "reserving" => pc[r] \in Reserving
        /\ step[r] \in Working \cup {"failing"} => pc[r] = "working"
        /\ pc[r] # "idle" => key[r] = RequestHash(copy[r])
        /\ answer[r] # "none" => step[r] = "ended"
        /\ step[r] = "completing" => result[r] # "none"

IInv == DataInv /\ IdemP!IInv /\ RunInv /\ LedgerTellsTheTruth

-----------------------------------------------------------------------------
(* What the requests make of a copy *)

\* iv may be saved for what was made of c.
Keeps(c, iv) == iv \in Interviews /\ (Agrees(c) => Agrees(iv))

LEMMA ProposedTyped ==
  ASSUME NEW texts \in SUBSET Texts, NEW d \in SUBSET texts
  PROVE  [offered |-> texts, decided |-> d] \in Recommendations
  BY DEF Recommendations

LEMMA StartedTyped == ASSUME NEW t \in Targets PROVE Started(t) \in Interviews
<1>1. Proposed({}) \in Recommendations
  BY ProposedTyped DEF Proposed
<1> QED BY <1>1 DEF Started, Interviews

LEMMA HashTyped == ASSUME NEW iv \in Interviews PROVE RequestHash(iv) \in Hashes
  BY DEF RequestHash, Hashes, Interviews

LEMMA RegeneratedKept ==
  ASSUME NEW iv \in Interviews,
         NEW resp \in SUBSET Texts, NEW t \in Targets, NEW blk \in BOOLEAN
  PROVE  /\ Keeps(iv, [Regenerated(iv, resp, t, blk) EXCEPT !.fit = NoFit])
         /\ resp = iv.responses /\ blk = iv.blocked =>
               Keeps(iv, Regenerated(iv, resp, t, blk))
<1> DEFINE g == Generated(resp, blk)
           n == Regenerated(iv, resp, t, blk)
           m == [n EXCEPT !.fit = NoFit]
<1>1. g \in SUBSET Texts /\ Proposed(g) \in Recommendations /\ Proposed(g).offered = g
  BY ProposedTyped DEF Generated, Proposed
<1>2. /\ n \in Interviews
      /\ n.responses = resp /\ n.target = t /\ n.blocked = blk /\ n.fit = iv.fit
      /\ n.recommended = Proposed(g) /\ n.accepted = iv.accepted \cap g
  BY <1>1 DEF Regenerated, Interviews
<1> HIDE DEF n
<1>3. /\ m \in Interviews /\ m.fit = NoFit
      /\ m.accepted = n.accepted /\ m.recommended = n.recommended
      /\ m.blocked = n.blocked /\ m.responses = n.responses
  BY <1>2 DEF Interviews
<1> HIDE DEF m
<1>4. Keeps(iv, m)
  BY <1>1, <1>2, <1>3 DEF Keeps, Agrees
<1>5. ASSUME resp = iv.responses, blk = iv.blocked, Agrees(iv) PROVE Agrees(n)
  BY <1>1, <1>2, <1>5 DEF Agrees
<1>6. resp = iv.responses /\ blk = iv.blocked => Keeps(iv, n)
  BY <1>2, <1>5 DEF Keeps
<1> QED BY <1>4, <1>6 DEF n, m

LEMMA DecidedKept ==
  ASSUME NEW iv \in Interviews, NEW d \in SUBSET iv.recommended.offered
  PROVE  LET n == [iv EXCEPT !.recommended.decided = d]
         IN  Keeps(iv, n) /\ n.fit = iv.fit
<1> DEFINE n == [iv EXCEPT !.recommended.decided = d]
           a == [offered |-> iv.recommended.offered, decided |-> d]
<1>1. /\ iv.recommended \in Recommendations /\ iv.recommended.offered \in SUBSET Texts
      /\ [iv.recommended EXCEPT !.decided = d] = a
  BY DEF Interviews, Recommendations
<1>2. a \in Recommendations /\ a.offered = iv.recommended.offered
  BY <1>1, ProposedTyped
<1> HIDE DEF a
<1>3. n = [iv EXCEPT !.recommended = a]
  BY <1>1 DEF Interviews
<1>4. /\ n \in Interviews /\ n.recommended = a
      /\ n.accepted = iv.accepted /\ n.fit = iv.fit
      /\ n.blocked = iv.blocked /\ n.responses = iv.responses
  BY <1>2, <1>3 DEF Interviews
<1> HIDE DEF n
<1>5. Keeps(iv, n) /\ n.fit = iv.fit
  BY <1>2, <1>4 DEF Keeps, Agrees
<1> QED BY <1>5 DEF n

LEMMA AcceptedKept ==
  ASSUME NEW iv \in Interviews, NEW a \in SUBSET iv.recommended.offered
  PROVE  LET n == [iv EXCEPT !.accepted = a, !.fit = NoFit]
         IN  Keeps(iv, n) /\ n.fit = NoFit
<1> DEFINE n == [iv EXCEPT !.accepted = a, !.fit = NoFit]
<1>1. a \in SUBSET Texts
  BY DEF Interviews, Recommendations
<1>2. /\ n \in Interviews /\ n.accepted = a /\ n.fit = NoFit
      /\ n.recommended = iv.recommended
      /\ n.blocked = iv.blocked /\ n.responses = iv.responses
  BY <1>1 DEF Interviews
<1> HIDE DEF n
<1>3. Keeps(iv, n) /\ n.fit = NoFit
  BY <1>2 DEF Keeps, Agrees
<1> QED BY <1>3 DEF n

\* The copy of a promotion differs in a column that nothing else speaks of.
LEMMA PromotedTyped ==
  ASSUME NEW iv \in Interviews, NEW v \in Nat
  PROVE  LET n == [iv EXCEPT !.promoted = v]
         IN  n \in Interviews /\ n.fit = iv.fit
  BY DEF Interviews

LEMMA ComputedKept ==
  ASSUME NEW iv \in Interviews, NEW a \in SUBSET Texts
  PROVE  LET f == [hash |-> RequestHash(iv), additions |-> a]
             n == [iv EXCEPT !.fit = f]
         IN  Keeps(iv, n) /\ n.fit = f
<1> DEFINE f == [hash |-> RequestHash(iv), additions |-> a]
           n == [iv EXCEPT !.fit = f]
<1>1. /\ f \in Fits
      /\ f.hash.responses = iv.responses /\ f.hash.accepted = iv.accepted
  BY HashTyped DEF Fits, RequestHash
<1> HIDE DEF f
<1>2. /\ n \in Interviews /\ n.fit = f
      /\ n.accepted = iv.accepted /\ n.recommended = iv.recommended
      /\ n.blocked = iv.blocked /\ n.responses = iv.responses
  BY <1>1 DEF Interviews
<1> HIDE DEF n
<1>3. Keeps(iv, n) /\ n.fit = f
  BY <1>1, <1>2 DEF Keeps, Agrees
<1> QED BY <1>3 DEF n, f

\* The row after a save: column for column what the entity has, or what was there.
LEMMA Lands ==
  ASSUME NEW iv \in Interviews, NEW s \in Interviews, NEW e \in Interviews
  PROVE  LET o == Updated(iv, s, e)
         IN  /\ o \in Interviews /\ o.fit \in {e.fit, iv.fit}
             /\ Agrees(e) => Agrees(o) \/ Crossed(iv, s, Related)
<1> DEFINE o == Updated(iv, s, e)
<1>1. /\ o \in Interviews /\ o.fit \in {e.fit, iv.fit}
      /\ iv.responses = s.responses => o.responses = e.responses
      /\ iv.blocked = s.blocked => o.blocked = e.blocked
      /\ iv.recommended = s.recommended => o.recommended = e.recommended
      /\ iv.accepted = s.accepted => o.accepted = e.accepted
      /\ iv.fit = s.fit => o.fit = e.fit
  BY DEF Updated, Interviews
<1> HIDE DEF o
<1>2. \/ Crossed(iv, s, Related)
      \/ /\ iv.responses = s.responses /\ iv.blocked = s.blocked
         /\ iv.recommended = s.recommended /\ iv.accepted = s.accepted /\ iv.fit = s.fit
  BY DEF Crossed, Related
<1>3. Agrees(e) => Agrees(o) \/ Crossed(iv, s, Related)
  BY <1>1, <1>2 DEF Agrees
<1> QED BY <1>1, <1>3 DEF o

-----------------------------------------------------------------------------
(* The invariant *)

\* What a request may do to its copy, ...
CopyStep(c, next) ==
    \/ copy' = copy /\ (Underway(next) => Underway(step[c]))
    \/ \E iv \in Interviews : copy' = [copy EXCEPT ![c] = iv]
    \/ copy' = [copy EXCEPT ![c] = Nothing] /\ next = "ended"

\* ... and to what it saves.
SavingStep(c, next) ==
    \/ /\ next # "updating"
       /\ saving' \in {saving, [saving EXCEPT ![c] = Nothing]}
    \/ /\ copy' = copy
       /\ \E sv : Sound(sv, copy[c]) /\ saving' = [saving EXCEPT ![c] = sv]

\* What a step of request c has to leave.
LEMMA StepGood ==
  ASSUME DataInv, NEW c \in Calls, NEW next \in Steps,
         step' = [step EXCEPT ![c] = next],
         interview' = interview \/ interview' \in Interviews,
         CopyStep(c, next), SavingStep(c, next),
         verified' \subseteq Texts, versions' \in Nat, upsets' \in Nat,
         additions' \in [Runs -> SUBSET Texts],
         result' \in [Runs -> Results], answer' \in [Runs -> Results]
  PROVE  DataInv'
<1>1. /\ step' \in [Calls -> Steps] /\ interview' \in Interviews
      /\ step'[c] = next /\ \A d \in Calls \ {c} : step'[d] = step[d]
  BY DEF DataInv, TypeOK
<1>2. /\ copy' \in [Calls -> Interviews \cup {Nothing}]
      /\ \A d \in Calls \ {c} : copy'[d] = copy[d]
      /\ Underway(next) => copy'[c] \in Interviews
  <2>1. CASE copy' = copy /\ (Underway(next) => Underway(step[c]))
    BY <2>1 DEF DataInv, TypeOK, CopiesInv
  <2>2. CASE \E iv \in Interviews : copy' = [copy EXCEPT ![c] = iv]
    BY <2>2 DEF DataInv, TypeOK
  <2>3. CASE copy' = [copy EXCEPT ![c] = Nothing] /\ next = "ended"
    BY <2>3 DEF DataInv, TypeOK, Underway
  <2> QED BY <2>1, <2>2, <2>3 DEF CopyStep
<1>3. /\ saving' \in [Calls -> [selected : Interviews, entity : Interviews] \cup {Nothing}]
      /\ \A d \in Calls \ {c} : saving'[d] = saving[d]
      /\ next = "updating" => Sound(saving'[c], copy[c]) /\ copy'[c] = copy[c]
  <2>1. CASE next # "updating" /\ saving' \in {saving, [saving EXCEPT ![c] = Nothing]}
    BY <2>1 DEF DataInv, TypeOK
  <2>2. ASSUME NEW sv, Sound(sv, copy[c]), saving' = [saving EXCEPT ![c] = sv]
        PROVE  /\ saving' \in [Calls -> [selected : Interviews, entity : Interviews]
                                          \cup {Nothing}]
               /\ saving'[c] = sv /\ \A d \in Calls \ {c} : saving'[d] = saving[d]
    BY <2>2 DEF DataInv, TypeOK, Sound
  <2> QED BY <2>1, <2>2 DEF SavingStep
<1>4. TypeOK'
  BY <1>1, <1>2, <1>3 DEF TypeOK
<1>5. ASSUME NEW d \in Calls, Underway(step'[d]) PROVE copy'[d] \in Interviews
  BY <1>1, <1>2, <1>5 DEF DataInv, CopiesInv
<1>6. ASSUME NEW d \in Calls, step'[d] = "updating"
      PROVE  \E sv, iv : Sound(sv, iv) /\ saving'[d] = sv /\ copy'[d] = iv
  <2>1. CASE d = c
    BY <1>1, <1>3, <1>6, <2>1
  <2>2. CASE d # c
    BY <1>1, <1>2, <1>3, <1>6, <2>2 DEF DataInv, SavesInv
  <2> QED BY <2>1, <2>2
<1>7. CopiesInv'
  BY <1>5 DEF CopiesInv, Underway
<1>8. SavesInv'
  BY <1>6 DEF SavesInv, Sound, Agrees, Generated
<1> QED BY <1>4, <1>7, <1>8 DEF DataInv

LEMMA Copies ==
  ASSUME DataInv, NEW c \in Calls
  PROVE  /\ interview \in Interviews
         /\ Underway(step[c]) => copy[c] \in Interviews
         /\ step[c] \in {"read", "promoted"} \cup Working => Underway(step[c])
         /\ step[c] = "updating" => Sound(saving[c], copy[c])
  BY DEF DataInv, TypeOK, CopiesInv, SavesInv, Underway, Working

LEMMA InvInit == Init => DataInv
<1> SUFFICES ASSUME Init PROVE DataInv
  OBVIOUS
<1>1. PICK t \in Targets : interview = Started(t)
  BY DEF Init
<1>2. TypeOK
  BY <1>1, StartedTyped DEF Init, TypeOK, Steps, Results
<1>3. CopiesInv /\ SavesInv
  BY DEF Init, CopiesInv, SavesInv, Underway
<1> QED BY <1>2, <1>3 DEF DataInv

LEMMA ReadGood == ASSUME DataInv, NEW c \in Calls, Read(c) PROVE DataInv'
<1>1. /\ step' = [step EXCEPT ![c] = "read"]
      /\ copy' = [copy EXCEPT ![c] = interview]
      /\ UNCHANGED <<interview, verified, versions, saving, additions, result, answer,
                     upsets>>
  BY DEF Read, Goto
<1>2. "read" \in Steps /\ interview \in Interviews
  BY Copies DEF Steps
<1>3. CopyStep(c, "read") /\ SavingStep(c, "read")
  BY <1>1, <1>2 DEF CopyStep, SavingStep
<1> QED BY <1>1, <1>2, <1>3, StepGood DEF DataInv, TypeOK

\* The SELECT of a save.
LEMMA SelectGood ==
  ASSUME DataInv, NEW c \in Calls, Underway(step[c]), NEW iv, Keeps(copy[c], iv),
         Select(c, iv)
  PROVE  DataInv'
<1> DEFINE sv == [selected |-> interview, entity |-> iv]
<1>1. /\ step' = [step EXCEPT ![c] = "updating"] /\ saving' = [saving EXCEPT ![c] = sv]
      /\ UNCHANGED <<interview, verified, versions, copy, additions, result, answer, upsets>>
  BY DEF Select, Goto
<1>2. "updating" \in Steps /\ Sound(sv, copy[c])
  BY Copies DEF Steps, Working, Sound, Keeps
<1> HIDE DEF sv
<1>3. CopyStep(c, "updating") /\ SavingStep(c, "updating")
  BY <1>1, <1>2 DEF CopyStep, SavingStep
<1> QED BY <1>1, <1>2, <1>3, StepGood DEF DataInv, TypeOK

\* Its UPDATE: the row that is left disagrees with itself only as KeepsAgreement says.
LEMMA WriteGood ==
  ASSUME DataInv, NEW c \in Calls, Write(c)
  PROVE  /\ interview' \in Interviews
         /\ interview'.fit \in {saving[c].entity.fit, interview.fit}
         /\ \/ Agrees(interview') \/ ~Agrees(copy[c])
            \/ Crossed(interview, saving[c].selected, Related)
<1> DEFINE s == saving[c].selected
           e == saving[c].entity
           o == Updated(interview, s, e)
<1>1. /\ interview' = o /\ interview \in Interviews /\ s \in Interviews /\ e \in Interviews
      /\ Agrees(copy[c]) => Agrees(e)
  BY Copies DEF Write, Sound
<1>2. /\ o \in Interviews /\ o.fit \in {e.fit, interview.fit}
      /\ Agrees(e) => Agrees(o) \/ Crossed(interview, s, Related)
  BY <1>1, Lands
<1> HIDE DEF o
<1>3. Agrees(interview') <=> Agrees(o)
  BY <1>1 DEF Agrees, Generated
<1> QED BY <1>1, <1>2, <1>3

LEMMA EditGood == ASSUME DataInv, NEW e \in Edits, Edit(e) PROVE DataInv'
<1>0. /\ e \in Calls /\ "ended" \in Steps
      /\ step[e] \in {"read", "promoted"} => Underway(step[e]) /\ copy[e] \in Interviews
  BY Copies DEF Calls, Steps
<1>1. CASE UpdateAnswers(e)
  <2>1. PICK resp \in SUBSET Texts, t \in Targets, blk \in BOOLEAN :
           Select(e, [Regenerated(copy[e], resp, t, blk) EXCEPT !.fit = NoFit])
    BY <1>1 DEF UpdateAnswers
  <2> QED BY <1>0, <1>1, <2>1, RegeneratedKept, SelectGood DEF UpdateAnswers
<1>2. CASE UpdateTarget(e)
  <2>1. PICK t \in Targets :
           Select(e, Regenerated(copy[e], copy[e].responses, t, copy[e].blocked))
    BY <1>2 DEF UpdateTarget
  <2>2. copy[e].responses \in SUBSET Texts /\ copy[e].blocked \in BOOLEAN
    BY <1>0, <1>2 DEF UpdateTarget, Interviews
  <2>3. Keeps(copy[e], Regenerated(copy[e], copy[e].responses, t, copy[e].blocked))
    BY <1>0, <1>2, <2>2, RegeneratedKept DEF UpdateTarget
  <2> QED BY <1>0, <1>2, <2>1, <2>3, SelectGood DEF UpdateTarget
<1>3. CASE Decide(e)
  <2>1. PICK d \in SUBSET copy[e].recommended.offered :
           Select(e, [copy[e] EXCEPT !.recommended.decided = d])
    BY <1>3 DEF Decide
  <2> QED BY <1>0, <1>3, <2>1, DecidedKept, SelectGood DEF Decide
<1>4. CASE AcceptIds(e)
  <2>1. PICK a \in SUBSET copy[e].recommended.offered :
           Select(e, [copy[e] EXCEPT !.accepted = a, !.fit = NoFit])
    BY <1>4 DEF AcceptIds
  <2> QED BY <1>0, <1>4, <2>1, AcceptedKept, SelectGood DEF AcceptIds
<1>5. CASE AcceptRecommendation(e)
  <2>1. /\ step' = [step EXCEPT ![e] = "ended"] /\ copy' = [copy EXCEPT ![e] = Nothing]
        /\ verified' \subseteq Texts
        /\ UNCHANGED <<interview, versions, saving, additions, result, answer, upsets>>
    BY <1>5 DEF AcceptRecommendation, Over, Goto, DataInv, TypeOK
  <2>2. CopyStep(e, "ended") /\ SavingStep(e, "ended")
    BY <2>1 DEF CopyStep, SavingStep
  <2> QED BY <1>0, <2>1, <2>2, StepGood DEF DataInv, TypeOK
<1>6. CASE Promote(e)
  <2>1. versions' \in Nat /\ "promoted" \in Steps
    BY <1>6 DEF Promote, DataInv, TypeOK, Steps
  <2> DEFINE n == [copy[e] EXCEPT !.promoted = versions']
  <2>2. n \in Interviews
    BY <1>0, <1>6, <2>1, PromotedTyped DEF Promote
  <2>3. /\ step' = [step EXCEPT ![e] = "promoted"]
        /\ copy' = [copy EXCEPT ![e] = n]
        /\ UNCHANGED <<interview, verified, saving, additions, result, answer, upsets>>
    BY <1>0, <1>6 DEF Promote, Goto, DataInv, TypeOK
  <2> HIDE DEF n
  <2>4. CopyStep(e, "promoted") /\ SavingStep(e, "promoted")
    BY <2>2, <2>3 DEF CopyStep, SavingStep
  <2> QED BY <1>0, <2>1, <2>3, <2>4, StepGood DEF DataInv, TypeOK
<1>7. CASE SavePromoted(e)
  <2>1. Keeps(copy[e], copy[e])
    BY <1>0, <1>7 DEF SavePromoted, Keeps
  <2> QED BY <1>0, <1>7, <2>1, SelectGood DEF SavePromoted
<1>8. CASE Saved(e)
  <2>1. /\ step' = [step EXCEPT ![e] = "ended"] /\ copy' = [copy EXCEPT ![e] = Nothing]
        /\ saving' = [saving EXCEPT ![e] = Nothing]
        /\ UNCHANGED <<verified, versions, additions, result, answer, upsets>>
    BY <1>8 DEF Saved, Write, Over, Goto
  <2>2. CopyStep(e, "ended") /\ SavingStep(e, "ended")
    BY <2>1 DEF CopyStep, SavingStep
  <2>3. interview' \in Interviews
    BY <1>0, <1>8, WriteGood DEF Saved
  <2> QED BY <1>0, <2>1, <2>2, <2>3, StepGood DEF DataInv, TypeOK
<1> QED BY <1>1, <1>2, <1>3, <1>4, <1>5, <1>6, <1>7, <1>8 DEF Edit

\* A step of a run, which leaves its copy alone.
LEMMA RunGood ==
  ASSUME DataInv, NEW r \in Runs, NEW next \in Steps,
         step' = [step EXCEPT ![r] = next],
         interview' = interview \/ interview' \in Interviews,
         Underway(step[r]), next # "updating",
         saving' \in {saving, [saving EXCEPT ![r] = Nothing]},
         UNCHANGED <<copy, verified, versions>>, upsets' \in Nat,
         NEW as \in SUBSET Texts, additions' \in {additions, [additions EXCEPT ![r] = as]},
         NEW res \in Results, result' \in {result, [result EXCEPT ![r] = res]},
         NEW ans \in Results, answer' \in {answer, [answer EXCEPT ![r] = ans]}
  PROVE  DataInv'
<1>1. /\ additions' \in [Runs -> SUBSET Texts]
      /\ result' \in [Runs -> Results] /\ answer' \in [Runs -> Results]
  BY DEF DataInv, TypeOK
<1>2. r \in Calls /\ CopyStep(r, next) /\ SavingStep(r, next)
  BY DEF Calls, CopyStep, SavingStep
<1> QED BY <1>1, <1>2, StepGood DEF DataInv, TypeOK

-----------------------------------------------------------------------------
(* The reservations *)

LEMMA SameReservations ==
  /\ Idem!Init <=> IdemP!Init
  /\ [Idem!Next]_(Idem!vars) <=> [IdemP!Next]_(IdemP!vars)
<1>1. Idem!Init <=> IdemP!Init
  BY DEF Idem!Init, IdemP!Init, Idem!NoRow, IdemP!NoRow
<1>2. Idem!Next <=> IdemP!Next
  BY DEF Idem!Next, Idem!Reserve, Idem!Find, Idem!SaveExisting, Idem!InsertRow, Idem!Refind,
         Idem!FoundTaken, Idem!Replied, Idem!GoOn, Idem!Accept, Idem!FailureStatuses,
         Idem!Complete, Idem!Report, Idem!SetRow, Idem!MarkFailure, Idem!End, Idem!Crash,
         IdemP!Next, IdemP!Reserve, IdemP!Find, IdemP!SaveExisting, IdemP!InsertRow,
         IdemP!Refind, IdemP!FoundTaken, IdemP!Replied, IdemP!GoOn, IdemP!Accept,
         IdemP!FailureStatuses, IdemP!Complete, IdemP!Report, IdemP!SetRow,
         IdemP!MarkFailure, IdemP!End, IdemP!Crash
<1>3. [Idem!Next]_(Idem!vars) <=> [IdemP!Next]_(IdemP!vars)
  BY <1>2 DEF Idem!vars, IdemP!vars
<1> QED BY <1>1, <1>3

LEMMA ReservationsInit == Idem!Init => IdemP!IInv
<1>1. IdemP!Init => IdemP!IInv
  BY IdemP!InitIInv, NoKeyAssumption, DisjointAssumption, UpsetsAssumption
<1> QED BY <1>1, SameReservations

LEMMA ReservationsNext == IdemP!IInv /\ [Idem!Next]_(Idem!vars) => IdemP!IInv'
<1>1. IdemP!IInv /\ [IdemP!Next]_(IdemP!vars) => IdemP!TypeOK'
  BY IdemP!TypeStep, NoKeyAssumption, DisjointAssumption, UpsetsAssumption DEF IdemP!IInv
<1>2. IdemP!IInv /\ [IdemP!Next]_(IdemP!vars) => IdemP!RestInv'
  BY IdemP!RestStep, NoKeyAssumption, DisjointAssumption, UpsetsAssumption
<1> QED BY <1>1, <1>2, SameReservations DEF IdemP!IInv, IdemP!RestInv

\* Every step of the handlers is a step, or a stutter, of WorkflowIdempotency.
LEMMA ReservationsStep ==
  ASSUME DataInv, [Next]_vars PROVE [Idem!Next]_(Idem!vars)
<1> SUFFICES ASSUME ~UNCHANGED Idem!vars PROVE Idem!Next
  OBVIOUS
<1> USE DEF Idem!vars, idemVars
<1>1. CASE UNCHANGED vars
  BY <1>1 DEF vars
<1>2. ASSUME NEW c \in Calls, Read(c) PROVE Idem!Next
  BY <1>2 DEF Read
<1>3. ASSUME NEW e \in Edits, Edit(e) PROVE Idem!Next
  BY <1>3 DEF Edit, UpdateAnswers, UpdateTarget, Decide, AcceptIds, Select,
              AcceptRecommendation, Promote, SavePromoted, Saved, Write
<1>4. ASSUME NEW r \in Runs, Begin(r) PROVE Idem!Next
  <2>1. RequestHash(copy[r]) \in Hashes
    BY <1>4, Copies, HashTyped DEF Begin, Calls
  <2> QED BY <1>4, <2>1 DEF Begin, Idem!Next
<1>5. ASSUME NEW r \in Runs,
             ServerStep(r) \/ ComputeThrows(r) \/ DatabaseError(r) \/ Crash(r)
      PROVE  Idem!Next
  <2>1. CASE ReserveStep(r)
    BY <2>1 DEF ReserveStep, Idem!Next
  <2>2. CASE Replay(r) \/ TurnAway(r) \/ Complete(r) \/ Crash(r)
    BY <2>2 DEF Replay, TurnAway, Complete, Crash, Idem!Next
  <2>3. CASE Fail(r)
    BY <2>3 DEF Fail, Idem!Next, Idem!FailureStatuses
  <2> QED
    BY <1>5, <2>1, <2>2, <2>3
       DEF ServerStep, Compute, Recheck, SaveFit, Select, WriteFit, Write, ComputeThrows,
           DatabaseError
<1> QED BY <1>1, <1>2, <1>3, <1>4, <1>5 DEF Next

\* What the invariant of the reservations says, in the words of this module.
LEMMA Reserved ==
  ASSUME IdemP!IInv
  PROVE  /\ row \in [Hashes -> Idem!Rows] /\ pc \in [Runs -> Idem!Phases]
         /\ key \in [Runs -> Hashes \cup {NoKey}] /\ outcome \in [Runs -> Idem!Outcomes]
         /\ \A h \in Hashes :
               row[h].status # "ABSENT" =>
                  /\ row[h].runId \in Runs
                  /\ outcome[row[h].runId] = "accepted_new"
                  /\ key[row[h].runId] = h
         /\ \A r \in Runs :
               /\ pc[r] # "idle" => key[r] \in Hashes
               /\ outcome[r] = "accepted_new" => pc[r] \in {"working", "ended", "crashed"}
               /\ outcome[r] = "existing_completed" => reply[r] \in Runs
  BY DEF IdemP!IInv, IdemP!TypeOK, IdemP!PhaseInv, IdemP!RowInv, IdemP!Accepted,
         IdemP!ReplayIsAnAcceptedResult, IdemP!Rows, IdemP!Phases, IdemP!Outcomes,
         IdemP!Statuses, IdemP!FailureStatuses, Idem!Statuses, Idem!FailureStatuses,
         Idem!Rows, Idem!Phases, Idem!Outcomes

-----------------------------------------------------------------------------
(* What the reservations say *)

RestInv == RunInv /\ LedgerTellsTheTruth

\* A step of others: run r stays where it is.
Stays(r) ==
    /\ step'[r] = step[r] /\ pc'[r] = pc[r] /\ key'[r] = key[r] /\ copy'[r] = copy[r]
    /\ answer'[r] = answer[r] /\ result'[r] = result[r]

\* The run's own part of RunInv after a step.
Moved(r) ==
    /\ step'[r] \in {"idle", "read"} => pc'[r] = "idle"
    /\ step'[r] = "reserving" => pc'[r] \in Reserving
    /\ step'[r] \in Working \cup {"failing"} => pc'[r] = "working"
    /\ pc'[r] # "idle" => key'[r] = RequestHash(copy'[r])
    /\ answer'[r] # "none" => step'[r] = "ended"
    /\ step'[r] = "completing" => result'[r] # "none"

LEMMA RunInvStep ==
  ASSUME RunInv, NEW r \in Runs, Moved(r), \A s \in Runs \ {r} : Stays(s)
  PROVE  RunInv'
<1> SUFFICES ASSUME NEW s \in Runs PROVE Moved(s)
  BY DEF RunInv, Moved, RequestHash
<1>1. CASE s = r
  BY <1>1
<1>2. CASE s # r
  BY <1>2 DEF RunInv, Moved, Stays
<1> QED BY <1>1, <1>2

\* The part of LedgerTellsTheTruth about key h.
Told(h) ==
    LET r == row[h].runId
    IN  /\ row[h].status = "COMPLETED" =>
              /\ RequestHash(copy[r]) = h
              /\ answer[r] = result[r] /\ result[r] # "none"
        /\ row[h].status \in Idem!FailureStatuses => answer[r] = "error"
        /\ row[h].status = "IN_FLIGHT" => Unfinished(r)

LEMMA LedgerIsTold == LedgerTellsTheTruth <=> \A h \in Hashes : Told(h)
  BY DEF LedgerTellsTheTruth, Told

\* A row that names r is that of the key that r holds.
LEMMA Holder ==
  ASSUME IInv, NEW r \in Runs, NEW h \in Hashes, row[h].runId = r
  PROVE  outcome[r] = "accepted_new" /\ key[r] = h
<1>1. row[h].status # "ABSENT"
  BY DisjointAssumption DEF IInv, IdemP!IInv, IdemP!RowInv
<1> QED BY <1>1, Reserved DEF IInv

\* A step that leaves the table alone, and whose run r holds no key or goes on working.
LEMMA LedgerAside ==
  ASSUME IInv, IdemP!IInv', NEW r \in Runs, row' = row, \A s \in Runs \ {r} : Stays(s),
         \/ \A h \in Hashes : row[h].runId # r
         \/ /\ Unfinished(r) /\ Unfinished(r)'
            /\ answer[r] = "none"
  PROVE  LedgerTellsTheTruth'
<1> SUFFICES ASSUME NEW h \in Hashes PROVE Told(h)'
  BY DEF LedgerTellsTheTruth, Told
<1> DEFINE o == row[h].runId
<1>1. Told(h)
  BY LedgerIsTold DEF IInv
<1>2. CASE row[h].status = "ABSENT"
  BY <1>2 DEF Told, Idem!FailureStatuses
<1>3. CASE row[h].status # "ABSENT" /\ o # r
  <2>1. o \in Runs
    BY <1>3, Reserved DEF IInv
  <2>2. Stays(o)
    BY <1>3, <2>1
  <2> QED BY <1>1, <2>2 DEF Told, Stays, Unfinished
<1>4. CASE row[h].status # "ABSENT" /\ o = r
  <2>1. outcome[r] = "accepted_new"
    BY <1>4, Reserved DEF IInv
  <2>2. row[h].status = "IN_FLIGHT"
    BY <1>1, <1>4, <2>1, Reserved DEF Told, IInv, Idem!Rows, Idem!Statuses
  <2> QED BY <1>1, <1>4, <2>1, <2>2 DEF Told, Idem!FailureStatuses
<1> QED BY <1>2, <1>3, <1>4

\* A step that writes the row of key k, and what it says there is told.
LEMMA LedgerWrite ==
  ASSUME IInv, IdemP!IInv', NEW r \in Runs, NEW k \in Hashes,
         \A s \in Runs \ {r} : Stays(s),
         \A h \in Hashes \ {k} : row'[h] = row[h] /\ row[h].runId # r,
         Told(k)'
  PROVE  LedgerTellsTheTruth'
<1> SUFFICES ASSUME NEW h \in Hashes \ {k} PROVE Told(h)'
  BY DEF LedgerTellsTheTruth, Told
<1> DEFINE o == row[h].runId
<1>1. Told(h)
  BY LedgerIsTold DEF IInv
<1>2. CASE row[h].status = "ABSENT"
  BY <1>2 DEF Told, Idem!FailureStatuses
<1>3. CASE row[h].status # "ABSENT"
  <2>1. o \in Runs \ {r}
    BY <1>3, Reserved DEF IInv
  <2>2. Stays(o) /\ row'[h] = row[h]
    BY <2>1
  <2> QED BY <1>1, <2>2 DEF Told, Stays, Unfinished
<1> QED BY <1>2, <1>3

LEMMA AsideRest ==
  ASSUME IInv, IdemP!IInv', NEW r \in Runs, row' = row, \A s \in Runs \ {r} : Stays(s),
         Moved(r),
         outcome[r] # "accepted_new" \/ (Unfinished(r) /\ Unfinished(r)')
  PROVE  RestInv'
<1>1. RunInv'
  BY RunInvStep DEF IInv
<1>2. outcome[r] # "accepted_new" => \A h \in Hashes : row[h].runId # r
  BY Holder
<1>3. Unfinished(r) => answer[r] = "none"
  BY DEF Unfinished, Working, IInv, RunInv
<1>4. LedgerTellsTheTruth'
  BY <1>2, <1>3, LedgerAside
<1> QED BY <1>1, <1>4 DEF RestInv

\* Steps that concern no run.
LEMMA NoRunRest ==
  ASSUME IInv, row' = row, \A s \in Runs : Stays(s)
  PROVE  RestInv'
<1>1. RunInv'
  BY DEF IInv, RunInv, Stays, RequestHash
<1>2. ASSUME NEW h \in Hashes PROVE Told(h)'
  <2>1. Told(h)
    BY LedgerIsTold DEF IInv
  <2>2. row[h].status # "ABSENT" => Stays(row[h].runId)
    BY Reserved DEF IInv
  <2> QED BY <2>1, <2>2 DEF Told, Stays, Unfinished, Idem!FailureStatuses
<1>3. LedgerTellsTheTruth'
  BY <1>2 DEF LedgerTellsTheTruth, Told
<1> QED BY <1>1, <1>3 DEF RestInv

LEMMA EditRest == ASSUME IInv, NEW e \in Edits, Edit(e) PROVE RestInv'
<1>1. UNCHANGED <<row, pc, key, answer, result>>
  BY DEF Edit, UpdateAnswers, UpdateTarget, Decide, AcceptIds, Select,
         AcceptRecommendation, Promote, SavePromoted, Saved, Write, idemVars
<1>2. /\ \E next : step' = [step EXCEPT ![e] = next]
      /\ copy' = copy \/ \E iv : copy' = [copy EXCEPT ![e] = iv]
  <2>1. CASE Promote(e)
    <3>1. copy' = [copy EXCEPT ![e] = [copy[e] EXCEPT !.promoted = versions']]
      BY <2>1 DEF Promote
    <3> QED BY <2>1, <3>1 DEF Promote, Goto
  <2>2. CASE AcceptRecommendation(e) \/ Saved(e)
    BY <2>2 DEF AcceptRecommendation, Saved, Over, Goto
  <2>3. CASE \E iv : Select(e, iv)
    BY <2>3 DEF Select, Goto
  <2> QED
    BY <2>1, <2>2, <2>3 DEF Edit, UpdateAnswers, UpdateTarget, Decide, AcceptIds,
                            SavePromoted
<1>3. \A s \in Runs : s \in Calls /\ s # e
  BY DisjointAssumption DEF Calls
<1>4. \A s \in Runs : Stays(s)
  BY <1>1, <1>2, <1>3 DEF IInv, DataInv, TypeOK, Stays
<1> QED BY <1>1, <1>4, NoRunRest

LEMMA ReadRest == ASSUME IInv, IdemP!IInv', NEW c \in Calls, Read(c) PROVE RestInv'
<1>0. /\ step[c] = "idle" /\ UNCHANGED <<row, pc, key, outcome, answer, result>>
      /\ step' = [step EXCEPT ![c] = "read"] /\ copy' = [copy EXCEPT ![c] = interview]
  BY DEF Read, Goto, idemVars
<1>1. \A s \in Runs \ {c} : Stays(s)
  BY <1>0 DEF Calls, IInv, DataInv, TypeOK, Stays
<1>2. CASE c \in Runs
  <2>1. pc[c] = "idle" /\ answer[c] = "none"
    BY <1>0, <1>2 DEF IInv, RunInv
  <2>2. step'[c] = "read"
    BY <1>0 DEF IInv, DataInv, TypeOK
  <2>3. Moved(c) /\ outcome[c] # "accepted_new"
    BY <1>0, <1>2, <2>1, <2>2, Reserved DEF Moved, Working, IInv
  <2> QED BY <1>0, <1>1, <1>2, <2>3, AsideRest
<1>3. CASE c \notin Runs
  BY <1>0, <1>1, <1>3, NoRunRest
<1> QED BY <1>2, <1>3

\* The run's step, and what it leaves of the others.
LEMMA OneRun ==
  ASSUME IInv, NEW r \in Runs, NEW next, step' = [step EXCEPT ![r] = next],
         pc' = pc \/ \E ph : pc' = [pc EXCEPT ![r] = ph],
         key' = key \/ \E k : key' = [key EXCEPT ![r] = k],
         copy' = copy,
         answer' = answer \/ \E a : answer' = [answer EXCEPT ![r] = a],
         result' = result \/ \E a : result' = [result EXCEPT ![r] = a]
  PROVE  step'[r] = next /\ \A s \in Runs \ {r} : Stays(s)
<1>1. \A s \in Runs : s \in Calls
  BY DEF Calls
<1> QED BY <1>1, Reserved DEF IInv, DataInv, TypeOK, Stays

LEMMA BeginRest == ASSUME IInv, IdemP!IInv', NEW r \in Runs, Begin(r) PROVE RestInv'
<1>0. /\ step[r] = "read"
      /\ row' = row /\ pc' = [pc EXCEPT ![r] = "finding"]
      /\ key' = [key EXCEPT ![r] = RequestHash(copy[r])]
      /\ step' = [step EXCEPT ![r] = "reserving"]
      /\ UNCHANGED <<copy, answer, result>>
  BY DEF Begin, Idem!Reserve, Goto
<1>1. step'[r] = "reserving" /\ \A s \in Runs \ {r} : Stays(s)
  BY <1>0, OneRun
<1>2. pc[r] = "idle" /\ answer[r] = "none" /\ outcome[r] # "accepted_new"
  BY <1>0, Reserved DEF IInv, RunInv
<1>3. pc'[r] = "finding" /\ key'[r] = RequestHash(copy[r])
  BY <1>0, Reserved DEF IInv
<1>4. RequestHash(copy'[r]) = RequestHash(copy[r])
  BY <1>0
<1>5. Moved(r)
  BY <1>0, <1>1, <1>2, <1>3, <1>4 DEF Moved, Working, Reserving
<1> QED BY <1>0, <1>1, <1>2, <1>5, AsideRest

\* A run is accepted: its key's row is in flight and the run sets to work.
LEMMA AcceptRest ==
  ASSUME IInv, IdemP!IInv', NEW r \in Runs, step[r] = "reserving", Idem!Accept(r),
         step' = [step EXCEPT ![r] = "computing"], UNCHANGED <<copy, answer, result>>
  PROVE  RestInv'
<1>0. /\ pc[r] \in Reserving /\ answer[r] = "none" /\ key[r] = RequestHash(copy[r])
      /\ outcome[r] # "accepted_new" /\ key[r] \in Hashes
  BY Reserved DEF IInv, RunInv, Reserving
<1>1. /\ pc' = [pc EXCEPT ![r] = "working"] /\ key' = key
      /\ row' = [row EXCEPT ![key[r]] =
                    [status |-> "IN_FLIGHT", runId |-> r, body |-> NoRun]]
  BY DEF Idem!Accept
<1>2. step'[r] = "computing" /\ \A s \in Runs \ {r} : Stays(s)
  BY <1>1, OneRun
<1>3. pc'[r] = "working"
  BY <1>1, Reserved DEF IInv
<1>4. Moved(r)
  BY <1>0, <1>1, <1>2, <1>3 DEF Moved, Working, Reserving
<1>5. /\ row'[key[r]].status = "IN_FLIGHT" /\ row'[key[r]].runId = r
      /\ \A h \in Hashes \ {key[r]} : row'[h] = row[h]
  BY <1>0, <1>1, Reserved DEF IInv
<1>6. \A h \in Hashes : row[h].runId # r
  BY <1>0, Holder
<1>7. PICK k \in Hashes : k = key[r]
  BY <1>0
<1>8. Told(k)'
  BY <1>1, <1>2, <1>5, <1>7 DEF Told, Unfinished, Working, Idem!FailureStatuses
<1>9. \A h \in Hashes \ {k} : row'[h] = row[h] /\ row[h].runId # r
  BY <1>5, <1>6, <1>7
<1>10. LedgerTellsTheTruth'
  BY <1>2, <1>8, <1>9, LedgerWrite
<1> QED BY <1>2, <1>4, <1>10, RunInvStep DEF RestInv, IInv

LEMMA ReserveRest == ASSUME IInv, IdemP!IInv', NEW r \in Runs, ReserveStep(r) PROVE RestInv'
<1>0. /\ step[r] = "reserving" /\ pc[r] \in Reserving /\ answer[r] = "none"
      /\ key[r] = RequestHash(copy[r]) /\ outcome[r] # "accepted_new"
      /\ UNCHANGED <<copy, answer, result>>
      /\ step' = [step EXCEPT ![r] = IF pc'[r] = "working" THEN "computing" ELSE "reserving"]
  BY Reserved DEF ReserveStep, Go, Goto, IInv, RunInv, Reserving
<1>1. CASE Idem!Accept(r)
  <2>1. pc'[r] = "working"
    BY <1>1, Reserved DEF Idem!Accept, IInv
  <2> QED BY <1>0, <1>1, <2>1, AcceptRest
<1>2. ASSUME NEW ph \in Reserving \cup {"working"}, pc' = [pc EXCEPT ![r] = ph],
             row' = row, key' = key
      PROVE  RestInv'
  <2> DEFINE next == IF ph = "working" THEN "computing" ELSE "reserving"
  <2>1. pc'[r] = ph
    BY <1>2, Reserved DEF IInv
  <2>2. step' = [step EXCEPT ![r] = next]
    BY <1>0, <2>1
  <2> HIDE DEF next
  <2>3. step'[r] = next /\ \A s \in Runs \ {r} : Stays(s)
    BY <1>0, <1>2, <2>2, OneRun
  <2>4. key'[r] = RequestHash(copy'[r]) /\ answer'[r] = "none"
    BY <1>0, <1>2
  <2>5. Moved(r)
    BY <1>2, <2>1, <2>3, <2>4 DEF Moved, Working, Reserving, next
  <2> QED BY <1>0, <1>2, <2>3, <2>5, AsideRest
<1>3. CASE Idem!Find(r)
  BY <1>2, <1>3 DEF Idem!Find, Idem!FoundTaken, Idem!Replied, Idem!GoOn, Reserving
<1>4. CASE Idem!Refind(r)
  BY <1>2, <1>4 DEF Idem!Refind, Idem!FoundTaken, Idem!Replied, Reserving
<1>5. CASE Idem!InsertRow(r)
  BY <1>1, <1>2, <1>5 DEF Idem!InsertRow, Idem!GoOn, Reserving
<1> QED BY <1>1, <1>3, <1>4, <1>5 DEF ReserveStep, Idem!SaveExisting

\* A run that is answered without having worked.
LEMMA DecidedRest ==
  ASSUME IInv, IdemP!IInv', NEW r \in Runs, Replay(r) \/ TurnAway(r)
  PROVE  RestInv'
<1>0. /\ step[r] = "reserving" /\ pc[r] = "replied" /\ key[r] = RequestHash(copy[r])
      /\ outcome[r] # "accepted_new"
      /\ UNCHANGED <<row, key, copy, result>> /\ pc' = [pc EXCEPT ![r] = "ended"]
      /\ step' = [step EXCEPT ![r] = "ended"]
      /\ \E a : answer' = [answer EXCEPT ![r] = a]
  BY Reserved DEF Replay, TurnAway, Decided, Answer, Goto, Idem!End, Idem!GoOn, IInv, RunInv
<1>1. step'[r] = "ended" /\ \A s \in Runs \ {r} : Stays(s)
  BY <1>0, OneRun
<1>2. Moved(r)
  BY <1>0, <1>1 DEF Moved, Working
<1> QED BY <1>0, <1>1, <1>2, AsideRest

\* A run that works goes on, and leaves the reservations alone.
LEMMA WorkRest ==
  ASSUME IInv, IdemP!IInv', NEW r \in Runs, step[r] \in Working, UNCHANGED idemVars,
         NEW next \in Working \cup {"failing"}, step' = [step EXCEPT ![r] = next],
         UNCHANGED <<copy, answer>>,
         \/ result' = result /\ next # "completing"
         \/ \E res \in {"success", "error"} : result' = [result EXCEPT ![r] = res]
  PROVE  RestInv'
<1>0. /\ pc[r] = "working" /\ key[r] = RequestHash(copy[r]) /\ answer[r] = "none"
      /\ UNCHANGED <<row, pc, key>>
  BY DEF IInv, RunInv, Working, idemVars
<1>1. step'[r] = next /\ \A s \in Runs \ {r} : Stays(s)
  BY <1>0, OneRun
<1>2. next = "completing" => result'[r] # "none"
  BY DEF IInv, DataInv, TypeOK
<1>3. Moved(r)
  BY <1>0, <1>1, <1>2 DEF Moved, Working
<1>4. Unfinished(r) /\ Unfinished(r)'
  BY <1>1 DEF Unfinished
<1> QED BY <1>0, <1>1, <1>3, <1>4, AsideRest

LEMMA WorkingRest ==
  ASSUME IInv, IdemP!IInv', NEW r \in Runs,
         \/ Compute(r) \/ Recheck(r) \/ SaveFit(r) \/ WriteFit(r)
         \/ ComputeThrows(r) \/ DatabaseError(r)
  PROVE  RestInv'
<1>1. CASE Compute(r)
  BY <1>1, WorkRest DEF Compute, Go, Goto, Working
<1>2. CASE Recheck(r)
  <2>1. CASE RequestHash(interview) = RequestHash(copy[r])
    BY <1>2, <2>1, WorkRest DEF Recheck, Go, Goto, Working
  <2>2. CASE RequestHash(interview) # RequestHash(copy[r])
    BY <1>2, <2>2, WorkRest DEF Recheck, Ends, Goto, Working
  <2> QED BY <2>1, <2>2
<1>3. CASE SaveFit(r)
  BY <1>3, WorkRest DEF SaveFit, Select, Goto, Working
<1>6. CASE WriteFit(r)
  <2>1. /\ step[r] \in Working /\ step' = [step EXCEPT ![r] = "completing"]
        /\ result' = [result EXCEPT ![r] = "success"]
        /\ UNCHANGED idemVars /\ UNCHANGED <<copy, answer>>
    BY <1>6 DEF WriteFit, Write, Goto, Working
  <2> QED BY <2>1, WorkRest DEF Working
<1>4. CASE ComputeThrows(r)
  BY <1>4, WorkRest DEF ComputeThrows, Goto, Working
<1>5. CASE DatabaseError(r)
  BY <1>5, WorkRest DEF DatabaseError, Upset, Goto, Working
<1> QED BY <1>1, <1>2, <1>3, <1>4, <1>5, <1>6

LEMMA CrashRest == ASSUME IInv, IdemP!IInv', NEW r \in Runs, Crash(r) PROVE RestInv'
<1>0. /\ step[r] \in Working \cup {"reserving", "failing"}
      /\ step' = [step EXCEPT ![r] = "crashed"] /\ pc' = [pc EXCEPT ![r] = "crashed"]
      /\ UNCHANGED <<row, key, copy, answer, result>>
  BY DEF Crash, Upset, Goto, Idem!Crash
<1>1. /\ answer[r] = "none" /\ pc[r] # "idle" /\ key[r] = RequestHash(copy[r])
  BY <1>0 DEF IInv, RunInv, Working, Reserving
<1>2. step'[r] = "crashed" /\ \A s \in Runs \ {r} : Stays(s)
  BY <1>0, OneRun
<1>3. Moved(r)
  BY <1>0, <1>1, <1>2 DEF Moved, Working
<1>4. outcome[r] # "accepted_new" \/ (Unfinished(r) /\ Unfinished(r)')
  <2>1. step[r] = "reserving" => outcome[r] # "accepted_new"
    BY Reserved DEF IInv, RunInv, Reserving
  <2> QED BY <1>0, <1>2, <2>1 DEF Unfinished
<1> QED BY <1>0, <1>2, <1>3, <1>4, AsideRest

\* A run that ends with a report: its row, if it still holds it, tells how it ended.
LEMMA ReportRest ==
  ASSUME IInv, IdemP!IInv', NEW r \in Runs, Complete(r) \/ Fail(r)
  PROVE  RestInv'
<1>1. PICK a \in Results, st \in {"COMPLETED", "FAILED"} :
         /\ st = "COMPLETED" => step[r] = "completing" /\ a = result[r] /\ a # "none"
         /\ st = "FAILED" => a = "error"
         /\ answer' = [answer EXCEPT ![r] = a]
         /\ IF row[key[r]].runId = r THEN \E b : Idem!SetRow(key[r], st, b)
                                 ELSE UNCHANGED row
  <2>1. CASE Complete(r)
    <3>1. step[r] = "completing" /\ result[r] \in Results /\ result[r] # "none"
      BY <2>1 DEF Complete, IInv, RunInv, DataInv, TypeOK
    <3> QED BY <2>1, <3>1 DEF Complete, Answer, Idem!Complete
  <2>2. CASE Fail(r)
    BY <2>2 DEF Fail, Answer, Idem!MarkFailure, Results
  <2> QED BY <2>1, <2>2
<1>2. /\ step[r] \in {"completing", "failing"} /\ step' = [step EXCEPT ![r] = "ended"]
      /\ UNCHANGED <<pc, key, copy, result>>
  BY DEF Complete, Fail, Answer, Goto, Idem!Complete, Idem!MarkFailure, Idem!Report
<1>3. /\ pc[r] = "working" /\ key[r] = RequestHash(copy[r]) /\ key[r] \in Hashes
  BY <1>2, Reserved DEF IInv, RunInv, Working
<1>4. step'[r] = "ended" /\ \A s \in Runs \ {r} : Stays(s)
  BY <1>1, <1>2, OneRun
<1>5. Moved(r) /\ answer'[r] = a
  BY <1>1, <1>2, <1>3, <1>4 DEF Moved, Working, IInv, DataInv, TypeOK
<1>6. PICK k \in Hashes : k = key[r]
  BY <1>3
<1>7. \A h \in Hashes \ {k} : row'[h] = row[h] /\ row[h].runId # r
  BY <1>1, <1>6, Holder, Reserved DEF Idem!SetRow, IInv
<1>8. Told(k)'
  <2>1. CASE row[k].runId = r
    <3>1. row'[k].status = st /\ row'[k].runId = r
      BY <1>1, <1>6, <2>1, Reserved DEF Idem!SetRow, IInv
    <3>2. RequestHash(copy'[r]) = k /\ result'[r] = result[r]
      BY <1>2, <1>3, <1>6
    <3> QED BY <1>1, <1>5, <3>1, <3>2 DEF Told, Idem!FailureStatuses
  <2>2. CASE row[k].runId # r
    <3>1. row' = row
      BY <1>1, <1>6, <2>2
    <3>2. row[k].status # "ABSENT" => Stays(row[k].runId)
      BY <1>4, <2>2, Reserved DEF IInv
    <3>3. Told(k)
      BY LedgerIsTold DEF IInv
    <3> QED BY <3>1, <3>2, <3>3 DEF Told, Stays, Unfinished, Idem!FailureStatuses
  <2> QED BY <2>1, <2>2
<1>9. LedgerTellsTheTruth'
  BY <1>4, <1>7, <1>8, LedgerWrite
<1> QED BY <1>4, <1>5, <1>9, RunInvStep DEF RestInv, IInv

-----------------------------------------------------------------------------
(* The invariant holds *)

\* What the steps of runs do to rows and copies.
LEMMA RunData ==
  ASSUME IInv, NEW r \in Runs,
         Begin(r) \/ ServerStep(r) \/ ComputeThrows(r) \/ DatabaseError(r) \/ Crash(r)
  PROVE  DataInv'
<1> USE DEF IInv
<1>0. /\ r \in Calls /\ verified \in SUBSET Texts
      /\ result[r] \in Results /\ "error" \in Results /\ "success" \in Results
      /\ additions[r] \in SUBSET Texts
      /\ step[r] \in Working \cup {"read", "reserving", "failing"} =>
            Underway(step[r]) /\ copy[r] \in Interviews
  BY Copies DEF Calls, DataInv, TypeOK, Results, Underway, Working
<1>1. CASE Begin(r)
  <2>1. /\ step' = [step EXCEPT ![r] = "reserving"] /\ step[r] = "read"
        /\ additions' = [additions EXCEPT ![r] = verified]
        /\ UNCHANGED <<interview, copy, saving, verified, versions, upsets, result, answer>>
    BY <1>1 DEF Begin, Goto
  <2>2. "reserving" \in Steps
    BY DEF Steps
  <2> QED BY <1>0, <2>1, <2>2, RunGood DEF DataInv, TypeOK
<1>2. ASSUME NEW next \in Steps, next # "updating", Underway(step[r]), Go(r, next)
      PROVE  DataInv'
  BY <1>0, <1>2, RunGood DEF Go, Goto, DataInv, TypeOK
<1>3. ASSUME NEW a \in Results, Underway(step[r]), Answer(r, a) PROVE DataInv'
  <2>1. /\ step' = [step EXCEPT ![r] = "ended"] /\ answer' = [answer EXCEPT ![r] = a]
        /\ UNCHANGED <<interview, copy, saving, verified, versions, upsets, result, additions>>
    BY <1>3 DEF Answer, Goto
  <2>2. "ended" \in Steps
    BY DEF Steps
  <2> QED BY <1>0, <1>3, <2>1, <2>2, RunGood DEF DataInv, TypeOK
<1>4. ASSUME NEW next \in Steps, next # "updating", Underway(step[r]), Upset(r, next)
      PROVE  DataInv'
  <2>1. /\ step' = [step EXCEPT ![r] = next] /\ upsets' \in Nat
        /\ saving' = [saving EXCEPT ![r] = Nothing]
        /\ UNCHANGED <<interview, copy, verified, versions, result, answer, additions>>
    BY <1>4 DEF Upset, Goto, DataInv, TypeOK
  <2> QED BY <1>0, <1>4, <2>1, RunGood DEF DataInv, TypeOK
<1>5. CASE ReserveStep(r)
  BY <1>0, <1>2, <1>5 DEF ReserveStep, Steps, Working
<1>6. CASE Replay(r)
  <2>1. result[reply[r]] \in Results
    BY <1>6, Reserved DEF Replay, Decided, DataInv, TypeOK
  <2> QED BY <1>0, <1>3, <1>6, <2>1 DEF Replay, Decided
<1>7. CASE TurnAway(r) \/ Complete(r) \/ Fail(r)
  BY <1>0, <1>3, <1>7 DEF TurnAway, Decided, Complete, Fail, Working
<1>8. CASE Compute(r)
  BY <1>0, <1>2, <1>8 DEF Compute, Steps, Working
<1>9. CASE Recheck(r)
  <2>1. CASE RequestHash(interview) = RequestHash(copy[r])
    BY <1>0, <1>2, <1>9, <2>1 DEF Recheck, Steps, Working
  <2>2. CASE RequestHash(interview) # RequestHash(copy[r])
    <3>1. /\ step' = [step EXCEPT ![r] = "completing"] /\ step[r] \in Working
          /\ result' = [result EXCEPT ![r] = "error"]
          /\ UNCHANGED <<interview, copy, saving, verified, versions, upsets, answer,
                         additions>>
      BY <1>9, <2>2 DEF Recheck, Ends, Goto, Working
    <3>2. "completing" \in Steps
      BY DEF Steps, Working
    <3> QED BY <1>0, <3>1, <3>2, RunGood DEF DataInv, TypeOK
  <2> QED BY <2>1, <2>2
<1>10. CASE SaveFit(r)
  <2>1. /\ Select(r, [copy[r] EXCEPT !.fit = [hash |-> RequestHash(copy[r]),
                                              additions |-> additions[r]]])
        /\ Underway(step[r]) /\ copy[r] \in Interviews
    BY <1>0, <1>10 DEF SaveFit, Computed, Working
  <2> QED BY <1>0, <2>1, ComputedKept, SelectGood
<1>11. CASE WriteFit(r)
  <2>1. /\ step' = [step EXCEPT ![r] = "completing"] /\ step[r] \in Working
        /\ result' = [result EXCEPT ![r] = "success"]
        /\ saving' = [saving EXCEPT ![r] = Nothing]
        /\ UNCHANGED <<copy, verified, versions, upsets, answer, additions>>
    BY <1>11 DEF WriteFit, Write, Goto, Working
  <2>2. "completing" \in Steps
    BY DEF Steps, Working
  <2>3. interview' \in Interviews
    BY <1>0, <1>11, WriteGood DEF WriteFit
  <2> QED BY <1>0, <2>1, <2>2, <2>3, RunGood DEF DataInv, TypeOK
<1>12. CASE ComputeThrows(r)
  <2>1. /\ step' = [step EXCEPT ![r] = "completing"] /\ upsets' \in Nat
        /\ result' = [result EXCEPT ![r] = "error"] /\ step[r] \in Working
        /\ UNCHANGED <<interview, copy, saving, verified, versions, answer, additions>>
    BY <1>12 DEF ComputeThrows, Goto, DataInv, TypeOK, Working
  <2>2. "completing" \in Steps
    BY DEF Steps, Working
  <2> QED BY <1>0, <2>1, <2>2, RunGood DEF DataInv, TypeOK
<1>13. CASE DatabaseError(r) \/ Crash(r)
  BY <1>0, <1>4, <1>13 DEF DatabaseError, Crash, Steps
<1> QED BY <1>1, <1>5, <1>6, <1>7, <1>8, <1>9, <1>10, <1>11, <1>12, <1>13 DEF ServerStep

LEMMA InvNext == IInv /\ [Next]_vars => IInv'
<1> SUFFICES ASSUME IInv, [Next]_vars PROVE IInv'
  OBVIOUS
<1>1. IdemP!IInv'
  BY ReservationsStep, ReservationsNext DEF IInv
<1>2. ASSUME NEW c \in Calls, Read(c) PROVE DataInv' /\ RestInv'
  BY <1>1, <1>2, ReadGood, ReadRest DEF IInv
<1>3. ASSUME NEW e \in Edits, Edit(e) PROVE DataInv' /\ RestInv'
  BY <1>3, EditGood, EditRest DEF IInv
<1>4. ASSUME NEW r \in Runs,
             Begin(r) \/ ServerStep(r) \/ ComputeThrows(r) \/ DatabaseError(r) \/ Crash(r)
      PROVE  DataInv' /\ RestInv'
  BY <1>1, <1>4, RunData, BeginRest, ReserveRest, DecidedRest, WorkingRest, CrashRest,
     ReportRest DEF ServerStep
<1>5. CASE UNCHANGED vars
  <2>1. DataInv'
    BY <1>5 DEF vars, ivVars, IInv, DataInv, TypeOK, CopiesInv, SavesInv, Sound, Agrees,
                Generated
  <2>2. row' = row /\ \A s \in Runs : Stays(s)
    BY <1>5 DEF vars, ivVars, idemVars, Stays
  <2> QED BY <2>1, <2>2, NoRunRest, <1>1 DEF IInv, RestInv
<1>6. DataInv' /\ RestInv'
  BY <1>2, <1>3, <1>4, <1>5 DEF Next, IInv, RestInv
<1> QED BY <1>1, <1>6 DEF IInv, RestInv

LEMMA InvFirst == Init => IInv
<1> SUFFICES ASSUME Init PROVE IInv
  OBVIOUS
<1>1. DataInv /\ IdemP!IInv
  BY InvInit, ReservationsInit DEF Init
<1>2. RunInv
  <2>1. \A r \in Runs : step[r] = "idle" /\ pc[r] = "idle" /\ answer[r] = "none"
    BY DEF Init, Idem!Init, Calls
  <2> QED BY <2>1 DEF RunInv, Working
<1>3. LedgerTellsTheTruth
  BY DEF Init, Idem!Init, Idem!NoRow, LedgerTellsTheTruth, Idem!FailureStatuses
<1> QED BY <1>1, <1>2, <1>3 DEF IInv

\* The invariant holds in every state that the program can reach.
THEOREM Invariance == Spec => []IInv
  BY InvFirst, InvNext, PTL DEF Spec

\* The variables of the interview and its requests stay in their domains.
THEOREM TypeCorrect == Spec => []TypeOK
<1>1. IInv => TypeOK
  BY DEF IInv, DataInv
<1> QED BY <1>1, Invariance, PTL

\* Only a save writes the row: its UPDATE.
LEMMA RowChange ==
  ASSUME IInv, [Next]_vars, interview' # interview
  PROVE  \E c \in Calls : Write(c) /\ step'[c] # "updating"
<1>0. step \in [Calls -> Steps] /\ Runs \subseteq Calls /\ Edits \subseteq Calls
  BY DEF IInv, DataInv, TypeOK, Calls
<1>1. ASSUME NEW e \in Edits, Edit(e) PROVE Saved(e)
  BY <1>1 DEF Edit, UpdateAnswers, UpdateTarget, Decide, AcceptIds, Select,
              AcceptRecommendation, Promote, SavePromoted
<1>2. ASSUME NEW r \in Runs,
             Begin(r) \/ ServerStep(r) \/ ComputeThrows(r) \/ DatabaseError(r) \/ Crash(r)
      PROVE  WriteFit(r)
  BY <1>2 DEF Begin, ServerStep, ReserveStep, Replay, TurnAway, Compute, Recheck, SaveFit,
              Select, Complete, Fail, ComputeThrows, DatabaseError, Crash, Upset, Go, Ends,
              Answer
<1>3. ~UNCHANGED vars /\ \A c \in Calls : ~Read(c)
  BY DEF vars, ivVars, Read
<1>4. ASSUME NEW e \in Edits, Saved(e) PROVE Write(e) /\ step'[e] # "updating"
  BY <1>0, <1>4 DEF Saved, Over, Goto
<1>5. ASSUME NEW r \in Runs, WriteFit(r) PROVE Write(r) /\ step'[r] # "updating"
  BY <1>0, <1>5 DEF WriteFit, Goto
<1> QED BY <1>0, <1>1, <1>2, <1>3, <1>4, <1>5 DEF Next

\* Whichever copies are saved, and in whatever order, the fit on the row stays that of
\* the answers and the accepted additions beside it, except where two saves cross.
THEOREM FitAgrees == Spec => FitStaysOfItsAnswers
<1>1. ASSUME IInv, [Next]_vars, Agrees(interview), ~Agrees(interview')
      PROVE  KeepsAgreement
  <2>1. interview' # interview
    BY <1>1 DEF Agrees, Generated
  <2>2. PICK c \in Calls : Write(c) /\ step'[c] # "updating"
    BY <1>1, <2>1, RowChange
  <2>3. Crossed(interview, saving[c].selected, Related) \/ ~Agrees(copy[c])
    BY <1>1, <2>2, WriteGood DEF IInv
  <2> QED BY <2>2, <2>3 DEF KeepsAgreement, Write
<1>2. IInv /\ [Next]_vars => [KeepsAgreement]_vars
  BY <1>1 DEF KeepsAgreement
<1> QED BY <1>2, Invariance, PTL DEF Spec, FitStaysOfItsAnswers

\* What the table of reservations says of a key is true of the run that holds it.
THEOREM LedgerTruth == Spec => []LedgerTellsTheTruth
<1>1. IInv => LedgerTellsTheTruth
  BY DEF IInv
<1> QED BY <1>1, Invariance, PTL

\* The handlers use the reservations as WorkflowIdempotency specifies them.
THEOREM Composition == Spec => UsesReservationsAsSpecified
<1>1. Init => Idem!Init
  BY DEF Init
<1>2. IInv /\ [Next]_vars => [Idem!Next]_(Idem!vars)
  BY ReservationsStep DEF IInv
<1> QED BY <1>1, <1>2, Invariance, PTL DEF Spec, UsesReservationsAsSpecified, Idem!Spec

-----------------------------------------------------------------------------
(* A run goes through its handler once, and nobody waits *)

HandlerStep(r) ==
    Read(r) \/ Begin(r) \/ ServerStep(r) \/ ComputeThrows(r) \/ DatabaseError(r) \/ Crash(r)

IdemStep(r) ==
    \/ \E h \in Hashes : Idem!Reserve(r, h)
    \/ Idem!Find(r) \/ Idem!SaveExisting(r) \/ Idem!InsertRow(r) \/ Idem!Refind(r)
    \/ \E st \in Idem!FailureStatuses : Idem!MarkFailure(r, st)
    \/ Idem!Complete(r) \/ Idem!End(r)
    \/ Idem!Crash(r)

LEMMA SameStep == ASSUME NEW r \in Runs PROVE IdemStep(r) <=> IdemP!StepOf(r)
  BY DEF IdemStep, Idem!Reserve, Idem!Find, Idem!SaveExisting, Idem!InsertRow, Idem!Refind,
         Idem!FoundTaken, Idem!Replied, Idem!GoOn, Idem!Accept, Idem!FailureStatuses,
         Idem!Complete, Idem!Report, Idem!SetRow, Idem!MarkFailure, Idem!End, Idem!Crash,
         IdemP!StepOf, IdemP!Reserve, IdemP!Find, IdemP!SaveExisting, IdemP!InsertRow,
         IdemP!Refind, IdemP!FoundTaken, IdemP!Replied, IdemP!GoOn, IdemP!Accept,
         IdemP!FailureStatuses, IdemP!Complete, IdemP!Report, IdemP!SetRow,
         IdemP!MarkFailure, IdemP!End, IdemP!Crash

LEMMA OneReservation ==
  ASSUME DataInv, NEW r \in Runs, HandlerStep(r)
  PROVE  IdemStep(r) \/ UNCHANGED idemVars
<1>1. CASE Begin(r)
  <2>1. RequestHash(copy[r]) \in Hashes
    BY <1>1, Copies, HashTyped DEF Begin, Calls
  <2> QED BY <1>1, <2>1 DEF Begin, IdemStep
<1>2. CASE ReserveStep(r) \/ Replay(r) \/ TurnAway(r) \/ Complete(r) \/ Crash(r)
  BY <1>2 DEF ReserveStep, Replay, TurnAway, Complete, Crash, IdemStep
<1>3. CASE Fail(r)
  BY <1>3 DEF Fail, Idem!FailureStatuses, IdemStep
<1>4. CASE \/ Read(r) \/ Compute(r) \/ Recheck(r) \/ SaveFit(r) \/ WriteFit(r)
           \/ ComputeThrows(r) \/ DatabaseError(r)
  BY <1>4 DEF Read, Compute, Recheck, SaveFit, Select, WriteFit, Write, ComputeThrows,
              DatabaseError
<1> QED BY <1>1, <1>2, <1>3, <1>4 DEF HandlerStep, ServerStep

\* Nothing of run r changes.
Untouched(r) ==
    /\ UNCHANGED <<step[r], copy[r], saving[r], additions[r], result[r], answer[r]>>
    /\ UNCHANGED <<pc[r], key[r], outcome[r], reply[r], updates[r]>>

LEMMA OthersUntouched ==
  ASSUME IInv, NEW r \in Runs, HandlerStep(r), NEW s \in Runs \ {r}
  PROVE  Untouched(s)
<1>1. UNCHANGED <<pc[s], key[s], outcome[s], reply[s], updates[s]>>
  <2>1. CASE IdemStep(r)
    <3>1. IdemP!TypeOK /\ IdemP!StepOf(r)
      BY <2>1, SameStep DEF IInv, IdemP!IInv
    <3>2. /\ pc'[s] = pc[s] /\ key'[s] = key[s] /\ outcome'[s] = outcome[s]
          /\ reply'[s] = reply[s] /\ updates'[s] = updates[s]
      BY <3>1, IdemP!Frame, NoKeyAssumption, DisjointAssumption, UpsetsAssumption
    <3> QED BY <3>2
  <2>2. CASE UNCHANGED idemVars
    BY <2>2 DEF idemVars
  <2> QED BY <2>1, <2>2, OneReservation DEF IInv
<1>2. UNCHANGED <<step[s], copy[s], saving[s], additions[s], result[s], answer[s]>>
  <2> USE DEF IInv, DataInv, TypeOK, Goto, Calls
  <2>1. CASE Read(r) \/ Begin(r)
    BY <2>1 DEF Read, Begin
  <2>2. CASE ReserveStep(r) \/ Compute(r) \/ Recheck(r)
    BY <2>2 DEF ReserveStep, Compute, Recheck, Go, Ends
  <2>3. CASE Replay(r) \/ TurnAway(r) \/ Complete(r) \/ Fail(r)
    BY <2>3 DEF Replay, TurnAway, Complete, Fail, Answer
  <2>4. CASE SaveFit(r) \/ WriteFit(r) \/ ComputeThrows(r)
    BY <2>4 DEF SaveFit, Select, WriteFit, Write, ComputeThrows
  <2>5. CASE DatabaseError(r) \/ Crash(r)
    BY <2>5 DEF DatabaseError, Crash, Upset
  <2> QED BY <2>1, <2>2, <2>3, <2>4, <2>5 DEF HandlerStep, ServerStep
<1> QED BY <1>1, <1>2 DEF Untouched

\* Every step is a step of one run, or of none.
LEMMA AllSteps ==
  ASSUME IInv, [Next]_vars, NEW s \in Runs
  PROVE  HandlerStep(s) \/ Untouched(s)
<1>1. CASE \E r \in Runs : HandlerStep(r)
  BY <1>1, OthersUntouched
<1>2. ASSUME NEW e \in Edits, Read(e) \/ Edit(e) PROVE Untouched(s)
  <2>1. e # s /\ e \in Calls /\ s \in Calls
    BY DisjointAssumption DEF Calls
  <2>2. /\ UNCHANGED <<idemVars, additions, result, answer>>
        /\ step'[s] = step[s] /\ copy'[s] = copy[s] /\ saving'[s] = saving[s]
    BY <1>2, <2>1
       DEF Read, Edit, UpdateAnswers, UpdateTarget, Decide, AcceptIds, Select, Promote,
           AcceptRecommendation, SavePromoted, Saved, Write, Over, Goto, IInv, DataInv, TypeOK
  <2> QED BY <2>2 DEF Untouched, idemVars
<1>3. CASE UNCHANGED vars
  BY <1>3 DEF vars, idemVars, ivVars, Untouched
<1> QED BY <1>1, <1>2, <1>3 DEF Next, HandlerStep, Calls

\* How many steps a run is from its end at most.
StepRank(s) ==
    CASE s = "idle" -> 15
      [] s = "read" -> 14
      [] s = "computing" -> 9
      [] s = "rechecking" -> 8
      [] s = "saving" -> 7
      [] s = "updating" -> 6
      [] s = "completing" -> 5
      [] s = "failing" -> 2
      [] OTHER -> 0
ReserveRank(p) ==
    CASE p = "finding" -> 13
      [] p \in {"saving", "inserting"} -> 12
      [] p = "refinding" -> 11
      [] OTHER -> 10
Rank(r) == IF step[r] = "reserving" THEN ReserveRank(pc[r]) ELSE StepRank(step[r])

\* A step of the server that run r may take: the guards of ServerStep.
Ready(r) ==
    \/ step[r] = "reserving" /\ pc[r] \in {"finding", "saving", "inserting"}
    \/ step[r] = "reserving" /\ pc[r] = "refinding" /\ row[key[r]].status # "ABSENT"
    \/ /\ step[r] = "reserving" /\ pc[r] = "replied"
       /\ outcome[r] \in {"existing_completed", "existing_in_flight"}
    \/ /\ step[r] \in Working \cup {"failing"}
       /\ pc[r] = "working" /\ updates[r] < 2

\* A step of a run takes it nearer to its end, and a step of another leaves it alone.
ForwardOnly == [][\A r \in Runs : Rank(r)' < Rank(r) \/ Untouched(r)]_vars

\* A run that has begun and has not ended can go on, whatever the others do: the row it
\* meets has an answer for it, and it has never made all the reports it may make.
NobodyWaits == \A r \in Runs : step[r] \in Working \cup {"reserving", "failing"} => Ready(r)

\* What the progress of r rests on: it reports once, at its end; and what it computes
\* with are verified additions.
Own(r) ==
    /\ step[r] \in {"idle", "read", "reserving", "computing", "rechecking", "saving",
                   "updating"} => result[r] = "none"
    /\ step[r] \in Working \cup {"idle", "read", "reserving", "failing"} => updates[r] = 0
    /\ step[r] \in Working \cup {"reserving"} => additions[r] # {}
    /\ result[r] = "success" => additions[r] # {}
    /\ additions[r] \subseteq verified

\* What a stored result says of the run that computed it.
Repeats(r) ==
    outcome[r] = "existing_completed" =>
        /\ answer[reply[r]] # "none" /\ answer[reply[r]] = result[reply[r]]
        /\ answer[r] # "none" => answer[r] = answer[reply[r]]

\* The run that had the key of r before, and failed.
FailedBefore(f, r) ==
    outcome[f] = "accepted_new" /\ key[f] = key[r] /\ answer[f] = "error"

\* The fit f was computed by a run.
OfARun(f) == \E r \in Runs : result[r] = "success" /\ f = Computed(r)

\* Request c saves the fit f: that of its copy, or the one that it has computed.
Carried(c, f) == f = NoFit \/ OfARun(f) \/ (c \in Runs /\ f = Computed(c))

PathInv ==
    /\ \A r \in Runs : Own(r) /\ Repeats(r)
    /\ \A r \in Runs : IdemP!Reopens(r) => \E f \in Runs : FailedBefore(f, r)
    /\ interview.fit # NoFit => OfARun(interview.fit)
    /\ \A c \in Calls :
          Underway(step[c]) /\ copy[c].fit # NoFit => OfARun(copy[c].fit)
    /\ \A c \in Calls : step[c] = "updating" => Carried(c, saving[c].entity.fit)

AInv == IInv /\ IdemP!AnswersAreHandled /\ PathInv

\* What the reservations say of a run in the words of this module.
LEMMA PhasesOf ==
  ASSUME AInv, NEW r \in Runs
  PROVE  /\ pc[r] \in Idem!Phases /\ updates \in [Runs -> Nat]
         /\ outcome[r] = "existing_completed" =>
               reply[r] \in Runs \ {r} /\ key[reply[r]] = key[r] /\ pc[reply[r]] # "idle"
         /\ pc[r] \in {"idle", "finding", "saving", "inserting", "refinding"} =>
               outcome[r] = "none"
         /\ pc[r] = "working" => outcome[r] \in {"accepted_new", "persistence_conflict"}
         /\ pc[r] = "replied" => outcome[r] \in {"existing_completed", "existing_in_flight"}
         /\ pc[r] = "refinding" => row[key[r]].status # "ABSENT"
  BY DEF AInv, IInv, IdemP!IInv, IdemP!TypeOK, IdemP!PhaseInv, IdemP!Phases, Idem!Phases,
         IdemP!ReplayIsAnAcceptedResult, IdemP!Accepted, IdemP!AnswersAreHandled,
         IdemP!AnswerHandled

LEMMA Typed ==
  ASSUME AInv
  PROVE  /\ step \in [Calls -> Steps] /\ additions \in [Runs -> SUBSET Texts]
         /\ result \in [Runs -> Results] /\ answer \in [Runs -> Results]
         /\ pc \in [Runs -> Idem!Phases] /\ key \in [Runs -> Hashes \cup {NoKey}]
         /\ outcome \in [Runs -> Idem!Outcomes] /\ updates \in [Runs -> Nat]
         /\ reply \in [Runs -> Runs \cup {NoRun}]
         /\ Runs \subseteq Calls
  BY Reserved DEF AInv, IInv, DataInv, TypeOK, IdemP!IInv, IdemP!TypeOK, Calls

\* Where a run that moves stands, and what it has done.
LEMMA OwnStep ==
  ASSUME AInv, NEW r \in Runs, HandlerStep(r)
  PROVE  Own(r)' /\ Rank(r)' < Rank(r)
<1>0. Own(r) /\ RunInv
  BY DEF AInv, IInv, PathInv
<1> USE <1>0, Typed DEF Own, Goto
<1>1. CASE Read(r)
  <2>1. /\ step[r] = "idle" /\ step'[r] = "read"
        /\ UNCHANGED <<updates, result, additions, verified>>
    BY <1>1 DEF Read, idemVars
  <2> QED BY <2>1 DEF Working, Rank, StepRank
<1>2. CASE Begin(r)
  <2>1. /\ step[r] = "read" /\ step'[r] = "reserving" /\ pc'[r] = "finding"
        /\ updates'[r] = 0 /\ additions'[r] = verified /\ verified # {}
        /\ UNCHANGED <<result, verified>>
    BY <1>2 DEF Begin, Idem!Reserve
  <2> QED BY <2>1 DEF Working, Rank, StepRank, ReserveRank
<1>3. CASE ReserveStep(r)
  <2>1. /\ step[r] = "reserving" /\ UNCHANGED <<result, additions, verified>>
        /\ step'[r] = IF pc'[r] = "working" THEN "computing" ELSE "reserving"
    BY <1>3 DEF ReserveStep, Go
  <2>2. /\ updates' = updates /\ ReserveRank(pc[r]) > 9
        /\ pc'[r] = "working" \/ ReserveRank(pc'[r]) < ReserveRank(pc[r])
    <3>1. CASE Idem!Find(r)
      BY <3>1 DEF Idem!Find, Idem!FoundTaken, Idem!Replied, Idem!GoOn, ReserveRank
    <3>2. CASE Idem!SaveExisting(r)
      BY <3>2 DEF Idem!SaveExisting, Idem!Accept, ReserveRank
    <3>3. CASE Idem!InsertRow(r)
      BY <3>3 DEF Idem!InsertRow, Idem!Accept, Idem!GoOn, ReserveRank
    <3>4. CASE Idem!Refind(r)
      BY <3>4 DEF Idem!Refind, Idem!FoundTaken, Idem!Replied, ReserveRank
    <3> QED BY <1>3, <3>1, <3>2, <3>3, <3>4 DEF ReserveStep
  <2> QED BY <2>1, <2>2 DEF Working, Rank, StepRank
<1>4. CASE Replay(r) \/ TurnAway(r) \/ Complete(r) \/ Fail(r)
  <2>1. /\ step'[r] = "ended" /\ UNCHANGED <<result, additions, verified>>
        /\ \/ step[r] = "reserving" /\ pc[r] = "replied"
           \/ step[r] \in {"completing", "failing"}
    BY <1>4 DEF Replay, TurnAway, Complete, Fail, Answer, Decided
  <2> QED BY <2>1 DEF Working, Rank, StepRank, ReserveRank
<1>5. CASE Compute(r) \/ Recheck(r) \/ SaveFit(r) \/ WriteFit(r) \/ ComputeThrows(r)
  <2>1. /\ \/ /\ step[r] = "computing" /\ step'[r] = "rechecking" /\ result' = result
           \/ /\ step[r] = "rechecking" /\ step'[r] = "saving" /\ result' = result
           \/ /\ step[r] = "saving" /\ step'[r] = "updating" /\ result' = result
           \/ /\ step[r] \in {"computing", "rechecking", "updating"}
              /\ step'[r] = "completing" /\ result'[r] \in {"success", "error"}
        /\ UNCHANGED <<updates, additions, verified>>
    BY <1>5 DEF Compute, Recheck, SaveFit, Select, WriteFit, Write, ComputeThrows, Go, Ends,
                idemVars
  <2> QED BY <2>1 DEF Working, Rank, StepRank
<1>6. CASE DatabaseError(r) \/ Crash(r)
  <2>1. /\ \/ step[r] \in Working /\ step'[r] = "failing" /\ updates' = updates
           \/ /\ step[r] \in Working \cup {"reserving", "failing"}
              /\ step'[r] = "crashed"
        /\ UNCHANGED <<result, additions, verified>>
    BY <1>6 DEF DatabaseError, Crash, Upset, idemVars
  <2> QED BY <2>1 DEF Working, Rank, StepRank, ReserveRank
<1> QED BY <1>1, <1>2, <1>3, <1>4, <1>5, <1>6 DEF HandlerStep, ServerStep

\* A run that has answered does nothing more.
LEMMA AnsweredRests ==
  ASSUME AInv, [Next]_vars, NEW r \in Runs, answer[r] # "none"
  PROVE  Untouched(r)
<1>1. step[r] = "ended"
  BY DEF AInv, IInv, RunInv
<1>2. ~HandlerStep(r)
  BY <1>1 DEF HandlerStep, Read, Begin, ServerStep, ReserveStep, Replay, TurnAway, Decided,
              Compute, Recheck, SaveFit, WriteFit, Write, Complete, Fail, ComputeThrows,
              DatabaseError, Crash, Working
<1> QED BY <1>2, AllSteps DEF AInv

\* The steps of the reservations, as WorkflowIdempotencyProofs has them.
LEMMA Reservations ==
  ASSUME AInv, [Next]_vars
  PROVE  IdemP!IInv /\ IdemP!AnswersAreHandled /\ [IdemP!Next]_(IdemP!vars)
  BY ReservationsStep, SameReservations DEF AInv, IInv

LEMMA RepeatsStep ==
  ASSUME AInv, [Next]_vars, NEW s \in Runs
  PROVE  Repeats(s)'
<1> SUFFICES ASSUME outcome'[s] = "existing_completed"
             PROVE  /\ answer'[reply'[s]] # "none" /\ answer'[reply'[s]] = result'[reply'[s]]
                    /\ answer'[s] # "none" => answer'[s] = answer'[reply'[s]]
  BY DEF Repeats
<1>1. /\ key[s] \in Hashes
      /\ \/ outcome[s] = "existing_completed" /\ reply'[s] = reply[s]
         \/ row[key[s]].status = "COMPLETED" /\ reply'[s] = row[key[s]].runId
  BY Reservations, IdemP!ReplayChange, NoKeyAssumption, DisjointAssumption, UpsetsAssumption
<1>2. PICK f \in Runs : f = reply'[s] /\ answer[f] # "none" /\ answer[f] = result[f]
  <2>1. CASE outcome[s] = "existing_completed" /\ reply'[s] = reply[s]
    BY <2>1, PhasesOf DEF AInv, PathInv, Repeats
  <2>2. CASE row[key[s]].status = "COMPLETED" /\ reply'[s] = row[key[s]].runId
    <3>1. PICK h \in Hashes : h = key[s]
      BY <1>1
    <3>2. row[h].runId \in Runs
      BY <2>2, <3>1, Reserved DEF AInv, IInv
    <3> QED BY <2>2, <3>1, <3>2 DEF AInv, IInv, LedgerTellsTheTruth
  <2> QED BY <1>1, <2>1, <2>2
<1>3. answer'[f] = answer[f] /\ result'[f] = result[f]
  BY <1>2, AnsweredRests DEF Untouched
<1>4. ASSUME answer'[s] # "none" PROVE answer'[s] = answer[f]
  <2>1. CASE Untouched(s)
    BY <1>2, <1>4, <2>1 DEF Untouched, AInv, PathInv, Repeats
  <2>2. CASE HandlerStep(s)
    <3> USE <1>2, <1>4, Typed
    <3>0. /\ answer[s] = "none" \/ step[s] = "ended"
          /\ step[s] \in Working \cup {"failing"} => pc[s] = "working"
      BY DEF AInv, IInv, RunInv
    <3>1. CASE \/ Read(s) \/ Begin(s) \/ ReserveStep(s) \/ Compute(s) \/ Recheck(s)
               \/ SaveFit(s) \/ WriteFit(s) \/ ComputeThrows(s) \/ DatabaseError(s) \/ Crash(s)
      <4>1. answer' = answer /\ step[s] # "ended"
        BY <3>1 DEF Read, Begin, ReserveStep, Compute, Recheck, SaveFit, Select, WriteFit,
                    Write, ComputeThrows, DatabaseError, Crash, Upset, Go, Ends, Working
      <4> QED BY <3>0, <4>1
    <3>2. CASE Complete(s) \/ Fail(s)
      <4>1. pc[s] = "working" /\ outcome' = outcome
        BY <3>0, <3>2 DEF Complete, Fail, Idem!Complete, Idem!MarkFailure, Idem!Report, Working
      <4> QED BY <4>1, PhasesOf
    <3>3. CASE Replay(s)
      <4>1. f = reply[s]
        BY <1>1, <3>3 DEF Replay, Decided, Idem!End, Idem!GoOn
      <4> QED BY <3>3, <4>1 DEF Replay, Answer
    <3>4. CASE TurnAway(s)
      BY <3>4 DEF TurnAway, Decided, Idem!End, Idem!GoOn
    <3> QED BY <2>2, <3>1, <3>2, <3>3, <3>4 DEF HandlerStep, ServerStep
  <2> QED BY <2>1, <2>2, AllSteps DEF AInv
<1> QED BY <1>2, <1>3, <1>4

LEMMA FailedBeforeStep ==
  ASSUME AInv, [Next]_vars, NEW s \in Runs, IdemP!Reopens(s)'
  PROVE  \E f \in Runs : FailedBefore(f, s)'
<1>1. /\ key'[s] = key[s] /\ key[s] \in Hashes
      /\ IdemP!Reopens(s) \/ row[key[s]].status \in IdemP!FailureStatuses
  BY Reservations, IdemP!ReopensChange, NoKeyAssumption, DisjointAssumption, UpsetsAssumption
<1>2. PICK f \in Runs : FailedBefore(f, s)
  <2>1. CASE IdemP!Reopens(s)
    BY <2>1 DEF AInv, PathInv
  <2>2. CASE row[key[s]].status \in IdemP!FailureStatuses
    <3>1. PICK h \in Hashes : h = key[s]
      BY <1>1
    <3>2. row[h].status \in Idem!FailureStatuses /\ row[h].status # "ABSENT"
      BY <2>2, <3>1 DEF Idem!FailureStatuses, IdemP!FailureStatuses
    <3>3. PICK f \in Runs : f = row[h].runId /\ outcome[f] = "accepted_new" /\ key[f] = h
      BY <3>2, Reserved DEF AInv, IInv
    <3>4. answer[f] = "error"
      BY <3>2, <3>3 DEF AInv, IInv, LedgerTellsTheTruth
    <3> QED BY <3>1, <3>3, <3>4 DEF FailedBefore
  <2> QED BY <1>1, <2>1, <2>2
<1>3. Untouched(f)
  BY <1>2, AnsweredRests DEF FailedBefore
<1>4. FailedBefore(f, s)'
  BY <1>1, <1>2, <1>3 DEF FailedBefore, Untouched
<1> QED BY <1>4

\* A run that has computed a fit keeps what it computed it from.
LEMMA ComputedStays ==
  ASSUME AInv, [Next]_vars, NEW r \in Runs, result[r] = "success"
  PROVE  result'[r] = "success" /\ Computed(r)' = Computed(r)
<1>1. CASE Untouched(r)
  BY <1>1 DEF Untouched, Computed, RequestHash
<1>2. CASE HandlerStep(r)
  <2>1. step[r] \notin {"idle", "read", "reserving", "computing", "rechecking", "saving",
                         "updating"}
    BY DEF AInv, PathInv, Own
  <2>2. Complete(r) \/ Fail(r) \/ DatabaseError(r) \/ Crash(r)
    BY <1>2, <2>1 DEF HandlerStep, Read, Begin, ServerStep, ReserveStep, Replay, TurnAway,
                      Decided, Compute, Recheck, SaveFit, WriteFit, Write, ComputeThrows
  <2>3. UNCHANGED <<copy, additions, result>>
    BY <2>2 DEF Complete, Fail, DatabaseError, Crash, Upset, Answer
  <2> QED BY <2>3 DEF Computed, RequestHash
<1> QED BY <1>1, <1>2, AllSteps DEF AInv

LEMMA OfARunStays ==
  ASSUME AInv, [Next]_vars, NEW f, OfARun(f)
  PROVE  OfARun(f)'
<1>1. PICK r \in Runs : result[r] = "success" /\ f = Computed(r)
  BY DEF OfARun
<1>2. result'[r] = "success" /\ f = Computed(r)'
  BY <1>1, ComputedStays
<1> QED BY <1>2 DEF OfARun

\* A step of one request, and what it leaves of the others.
CallStep(c) ==
    \/ Read(c)
    \/ c \in Edits /\ Edit(c)
    \/ /\ c \in Runs
       /\ Begin(c) \/ ServerStep(c) \/ ComputeThrows(c) \/ DatabaseError(c) \/ Crash(c)

LEMMA OtherCalls ==
  ASSUME AInv, NEW c \in Calls, CallStep(c), NEW d \in Calls \ {c}
  PROVE  step'[d] = step[d] /\ copy'[d] = copy[d] /\ saving'[d] = saving[d]
<1> USE DEF Goto
<1>0. /\ step \in [Calls -> Steps] /\ copy \in [Calls -> Interviews \cup {Nothing}]
      /\ saving \in [Calls -> [selected : Interviews, entity : Interviews] \cup {Nothing}]
  BY DEF AInv, IInv, DataInv, TypeOK
<1>1. CASE Read(c)
  BY <1>0, <1>1 DEF Read
<1>2. CASE c \in Edits /\ Edit(c)
  BY <1>0, <1>2
     DEF Edit, UpdateAnswers, UpdateTarget, Decide, AcceptIds, Select, Promote,
         AcceptRecommendation, SavePromoted, Saved, Write, Over
<1>3. CASE /\ c \in Runs
           /\ Begin(c) \/ ServerStep(c) \/ ComputeThrows(c) \/ DatabaseError(c) \/ Crash(c)
  BY <1>0, <1>3
     DEF Begin, ServerStep, ReserveStep, Replay, TurnAway, Compute, Recheck, SaveFit, Select,
         WriteFit, Write, Complete, Fail, ComputeThrows, DatabaseError, Crash, Upset, Go,
         Ends, Answer
<1> QED BY <1>1, <1>2, <1>3 DEF CallStep

\* What a request that moves has read, and what it is going to save.
FitsMove(c) ==
    /\ Underway(step'[c]) =>
          \/ copy'[c].fit = interview.fit
          \/ Underway(step[c]) /\ copy'[c].fit = copy[c].fit
    /\ step'[c] = "updating" =>
          \/ Underway(step[c]) /\ saving'[c].entity.fit \in {NoFit, copy[c].fit}
          \/ c \in Runs /\ saving'[c].entity.fit = Computed(c) /\ copy' = copy

LEMMA SelectMoves ==
  ASSUME AInv, NEW c \in Calls, NEW iv, Select(c, iv), Underway(step[c]),
         iv.fit \in {NoFit, copy[c].fit} \/ (c \in Runs /\ iv.fit = Computed(c))
  PROVE  FitsMove(c)
<1>1. /\ saving'[c].entity = iv /\ copy' = copy
  BY DEF Select, AInv, IInv, DataInv, TypeOK
<1> QED BY <1>1 DEF FitsMove

LEMMA EditMoves ==
  ASSUME AInv, NEW e \in Edits, Edit(e)
  PROVE  FitsMove(e)
<1>0. /\ e \in Calls /\ step \in [Calls -> Steps]
      /\ copy \in [Calls -> Interviews \cup {Nothing}]
      /\ step[e] \in {"read", "promoted"} => Underway(step[e]) /\ copy[e] \in Interviews
  BY Copies DEF Calls, AInv, IInv, DataInv, TypeOK
<1>1. CASE UpdateAnswers(e)
  <2>1. PICK resp \in SUBSET Texts, t \in Targets, blk \in BOOLEAN :
           Select(e, [Regenerated(copy[e], resp, t, blk) EXCEPT !.fit = NoFit])
    BY <1>1 DEF UpdateAnswers
  <2>2. [Regenerated(copy[e], resp, t, blk) EXCEPT !.fit = NoFit].fit = NoFit
    BY <1>0, <1>1 DEF UpdateAnswers, Regenerated, Interviews
  <2> QED BY <1>0, <1>1, <2>1, <2>2, SelectMoves DEF UpdateAnswers
<1>2. CASE UpdateTarget(e)
  <2>1. PICK t \in Targets :
           Select(e, Regenerated(copy[e], copy[e].responses, t, copy[e].blocked))
    BY <1>2 DEF UpdateTarget
  <2>2. Regenerated(copy[e], copy[e].responses, t, copy[e].blocked).fit = copy[e].fit
    BY <1>0, <1>2 DEF UpdateTarget, Regenerated, Interviews
  <2> QED BY <1>0, <1>2, <2>1, <2>2, SelectMoves DEF UpdateTarget
<1>3. CASE Decide(e)
  <2>1. PICK d \in SUBSET copy[e].recommended.offered :
           Select(e, [copy[e] EXCEPT !.recommended.decided = d])
    BY <1>3 DEF Decide
  <2> QED BY <1>0, <1>3, <2>1, DecidedKept, SelectMoves DEF Decide
<1>4. CASE AcceptIds(e)
  <2>1. PICK a \in SUBSET copy[e].recommended.offered :
           Select(e, [copy[e] EXCEPT !.accepted = a, !.fit = NoFit])
    BY <1>4 DEF AcceptIds
  <2> QED BY <1>0, <1>4, <2>1, AcceptedKept, SelectMoves DEF AcceptIds
<1>5. CASE AcceptRecommendation(e) \/ Saved(e)
  <2>1. step'[e] = "ended"
    BY <1>0, <1>5 DEF AcceptRecommendation, Saved, Over, Goto
  <2> QED BY <2>1 DEF FitsMove, Underway
<1>6. CASE Promote(e)
  <2>1. /\ copy' = [copy EXCEPT ![e] = [copy[e] EXCEPT !.promoted = versions']]
        /\ step'[e] = "promoted" /\ Underway(step[e])
    BY <1>0, <1>6 DEF Promote, Goto
  <2>2. [copy[e] EXCEPT !.promoted = versions'].fit = copy[e].fit
    BY <1>0, <1>6 DEF Promote, Interviews
  <2> QED BY <1>0, <2>1, <2>2 DEF FitsMove
<1>7. CASE SavePromoted(e)
  BY <1>0, <1>7, SelectMoves DEF SavePromoted
<1> QED BY <1>1, <1>2, <1>3, <1>4, <1>5, <1>6, <1>7 DEF Edit

LEMMA RunMoves ==
  ASSUME AInv, NEW r \in Runs,
         Begin(r) \/ ServerStep(r) \/ ComputeThrows(r) \/ DatabaseError(r) \/ Crash(r)
  PROVE  FitsMove(r)
<1>0. /\ r \in Calls /\ step \in [Calls -> Steps]
      /\ step[r] \in Working \cup {"read", "reserving", "failing"} => Underway(step[r])
      /\ Underway(step[r]) => copy[r] \in Interviews
      /\ additions[r] \in SUBSET Texts
  BY Copies DEF Calls, AInv, IInv, DataInv, TypeOK, Underway, Working
<1>1. CASE SaveFit(r)
  <2>1. /\ Select(r, [copy[r] EXCEPT !.fit = [hash |-> RequestHash(copy[r]),
                                              additions |-> additions[r]]])
        /\ Underway(step[r]) /\ copy[r] \in Interviews
    BY <1>0, <1>1 DEF SaveFit, Computed, Working
  <2>2. [copy[r] EXCEPT !.fit = [hash |-> RequestHash(copy[r]),
                                 additions |-> additions[r]]].fit = Computed(r)
    BY <1>0, <2>1, ComputedKept DEF Computed
  <2> QED BY <1>0, <2>1, <2>2, SelectMoves
<1>2. CASE ~SaveFit(r)
  <2>1. copy' = copy /\ Underway(step[r]) /\ step'[r] # "updating"
    BY <1>0, <1>2
       DEF Begin, ServerStep, ReserveStep, Replay, TurnAway, Decided, Compute, Recheck,
           WriteFit, Write, Complete, Fail, ComputeThrows, DatabaseError, Crash, Upset, Go,
           Ends, Answer, Goto, Working
  <2> QED BY <2>1 DEF FitsMove
<1> QED BY <1>1, <1>2

LEMMA CallMoves ==
  ASSUME AInv, NEW c \in Calls, CallStep(c)
  PROVE  FitsMove(c)
<1>1. CASE Read(c)
  <2>1. copy'[c] = interview /\ step'[c] = "read"
    BY <1>1 DEF Read, Goto, AInv, IInv, DataInv, TypeOK
  <2> QED BY <2>1 DEF FitsMove
<1> QED BY <1>1, EditMoves, RunMoves DEF CallStep

\* What is saved as the row's fit.
LEMMA FitWritten ==
  ASSUME AInv, [Next]_vars, NEW f, f = interview'.fit, f # NoFit
  PROVE  OfARun(f)'
<1>1. CASE interview' = interview
  BY <1>1, OfARunStays DEF AInv, PathInv
<1>2. CASE interview' # interview
  <2>1. PICK c \in Calls : Write(c) /\ step'[c] # "updating"
    BY <1>2, RowChange DEF AInv
  <2>2. f \in {saving[c].entity.fit, interview.fit} /\ step[c] = "updating"
    BY <2>1, WriteGood DEF AInv, IInv, Write
  <2>3. CASE OfARun(f)
    BY <2>3, OfARunStays
  <2>4. CASE c \in Runs /\ f = Computed(c)
    <3>1. HandlerStep(c)
      <4>1. ~Untouched(c)
        BY <2>1, <2>2 DEF Untouched
      <4> QED BY <2>4, <4>1, AllSteps DEF AInv
    <3>2. WriteFit(c)
      BY <1>2, <2>2, <3>1
         DEF HandlerStep, Read, Begin, ServerStep, ReserveStep, Replay, TurnAway, Compute,
             Recheck, SaveFit, Complete, Fail, ComputeThrows, DatabaseError, Crash, Upset,
             Go, Ends, Answer, Decided, Select
    <3>3. result'[c] = "success" /\ UNCHANGED <<copy, additions>>
      BY <2>4, <3>2, Typed DEF WriteFit, Write
    <3>4. f = Computed(c)'
      BY <2>4, <3>3 DEF Computed, RequestHash
    <3> QED BY <2>4, <3>3, <3>4 DEF OfARun
  <2> QED BY <2>2, <2>3, <2>4 DEF AInv, PathInv, Carried
<1> QED BY <1>1, <1>2

LEMMA FitStep ==
  ASSUME AInv, [Next]_vars
  PROVE  /\ interview'.fit # NoFit => OfARun(interview.fit)'
         /\ \A c \in Calls :
               Underway(step'[c]) /\ copy'[c].fit # NoFit => OfARun(copy[c].fit)'
         /\ \A c \in Calls : step'[c] = "updating" => Carried(c, saving[c].entity.fit)'
<1>0. ASSUME NEW d \in Calls
      PROVE  \/ FitsMove(d)
             \/ step'[d] = step[d] /\ copy'[d] = copy[d] /\ saving'[d] = saving[d]
  <2>1. CASE \E c \in Calls : CallStep(c)
    BY <2>1, CallMoves, OtherCalls
  <2>2. CASE UNCHANGED vars
    BY <2>2 DEF vars, ivVars
  <2> QED BY <2>1, <2>2 DEF Next, CallStep, Calls
<1>1. interview'.fit # NoFit => OfARun(interview.fit)'
  <2>1. ASSUME NEW f, f = interview'.fit, f # NoFit PROVE OfARun(f)'
    BY <2>1, FitWritten
  <2> QED BY <2>1 DEF OfARun
<1>2. ASSUME NEW d \in Calls, NEW f, f = copy'[d].fit, f # NoFit, Underway(step'[d])
      PROVE  OfARun(f)'
  <2>1. OfARun(f)
    BY <1>0, <1>2 DEF FitsMove, AInv, PathInv
  <2> QED BY <2>1, OfARunStays
<1>3. ASSUME NEW d \in Calls, NEW f, f = saving'[d].entity.fit, step'[d] = "updating"
      PROVE  f = NoFit \/ OfARun(f)' \/ (d \in Runs /\ f = Computed(d)')
  <2>1. CASE FitsMove(d)
    <3>1. CASE d \in Runs /\ f = Computed(d) /\ copy' = copy
      <4>1. HandlerStep(d) \/ Untouched(d)
        BY <3>1, AllSteps DEF AInv
      <4>2. additions'[d] = additions[d]
        BY <1>3, <3>1, <4>1, Typed
           DEF Untouched, HandlerStep, Read, Begin, ServerStep, ReserveStep, Replay, TurnAway,
               Compute, Recheck, SaveFit, Select, WriteFit, Write, Complete, Fail,
               ComputeThrows, DatabaseError, Crash, Upset, Go, Ends, Answer, Goto
      <4> QED BY <3>1, <4>2 DEF Computed, RequestHash
    <3>2. CASE f = NoFit \/ OfARun(f)
      BY <3>2, OfARunStays
    <3> QED BY <1>3, <2>1, <3>1, <3>2 DEF FitsMove, AInv, PathInv
  <2>2. CASE step'[d] = step[d] /\ copy'[d] = copy[d] /\ saving'[d] = saving[d]
    <3>1. Carried(d, f)
      BY <1>3, <2>2 DEF AInv, PathInv
    <3>2. CASE d \in Runs /\ f = Computed(d)
      <4>1. ~HandlerStep(d)
        <5>1. step'[d] = "updating" /\ step[d] = "updating"
          BY <1>3, <2>2
        <5>2. ~(Rank(d)' < Rank(d))
          BY <5>1 DEF Rank, StepRank
        <5> QED BY <3>2, <5>2, OwnStep
      <4>2. Untouched(d)
        BY <3>2, <4>1, AllSteps DEF AInv
      <4> QED BY <3>2, <4>2 DEF Untouched, Computed, RequestHash
    <3> QED BY <3>1, <3>2, OfARunStays DEF Carried
  <2> QED BY <1>0, <2>1, <2>2
<1>4. \A c \in Calls :
         Underway(step'[c]) /\ copy'[c].fit # NoFit => OfARun(copy[c].fit)'
  BY <1>2 DEF OfARun
<1>5. \A c \in Calls : step'[c] = "updating" => Carried(c, saving[c].entity.fit)'
  BY <1>3 DEF Carried, OfARun
<1> QED BY <1>1, <1>4, <1>5

LEMMA PathNext == AInv /\ [Next]_vars => AInv'
<1> SUFFICES ASSUME AInv, [Next]_vars PROVE AInv'
  OBVIOUS
<1>1. IInv'
  BY InvNext DEF AInv
<1>2. IdemP!AnswersAreHandled'
  BY Reservations, IdemP!AnswersStep, NoKeyAssumption, DisjointAssumption, UpsetsAssumption
<1>3. verified \subseteq verified'
  BY DEF Next, Read, Edit, UpdateAnswers, UpdateTarget, Decide, AcceptIds, Select, Promote,
         AcceptRecommendation, SavePromoted, Saved, Begin, ServerStep, ReserveStep, Replay,
         TurnAway, Compute, Recheck, SaveFit, WriteFit, Write, Complete, Fail, ComputeThrows,
         DatabaseError, Crash, Upset, Go, Ends, Answer, vars, ivVars
<1>4. \A r \in Runs : Own(r)'
  <2> TAKE r \in Runs
  <2>1. CASE Untouched(r)
    BY <1>3, <2>1 DEF Untouched, AInv, PathInv, Own
  <2> QED BY <2>1, OwnStep, AllSteps DEF AInv
<1> QED BY <1>1, <1>2, <1>4, RepeatsStep, FailedBeforeStep, FitStep DEF AInv, PathInv

LEMMA PathFirst == Init => AInv
<1> SUFFICES ASSUME Init PROVE AInv
  OBVIOUS
<1>1. IInv
  BY InvFirst
<1>2. IdemP!AnswersAreHandled
  <2>1. Idem!Init
    BY DEF Init
  <2>2. IdemP!Init
    BY <2>1, SameReservations
  <2> QED BY <2>2, IdemP!AnswersInit, NoKeyAssumption, DisjointAssumption, UpsetsAssumption
<1>3. interview.fit = NoFit /\ \A c \in Calls : step[c] = "idle"
  BY DEF Init, Started
<1>4. PathInv
  BY <1>3 DEF Init, Idem!Init, PathInv, Own, Repeats, IdemP!Reopens, Working, Calls,
                 Underway
<1> QED BY <1>1, <1>2, <1>4 DEF AInv

LEMMA PathInvariance == Spec => []AInv
  BY PathFirst, PathNext, PTL DEF Spec

\* A run goes through its handler once: every step of a run takes it nearer to its end,
\* and no step of another run or of an edit sets it back.
THEOREM GoesForward == Spec => ForwardOnly
<1>1. AInv /\ [Next]_vars => [\A r \in Runs : Rank(r)' < Rank(r) \/ Untouched(r)]_vars
  BY OwnStep, AllSteps DEF AInv
<1> QED BY <1>1, PathInvariance, PTL DEF Spec, ForwardOnly

\* A run that has begun and has not ended can always go on: with GoesForward, the
\* argument for KeysSettle short of the fairness rule.
THEOREM ReadyToGoOn == Spec => []NobodyWaits
<1>1. AInv => NobodyWaits
  <2> SUFFICES ASSUME AInv, NEW r \in Runs, step[r] \in Working \cup {"reserving", "failing"}
               PROVE  Ready(r)
    BY DEF NobodyWaits
  <2>1. CASE step[r] = "reserving"
    BY <2>1, PhasesOf DEF Ready, AInv, IInv, RunInv, Reserving
  <2>2. CASE step[r] \in Working \cup {"failing"}
    BY <2>2, Typed DEF Ready, AInv, IInv, RunInv, PathInv, Own
  <2> QED BY <2>1, <2>2
<1> QED BY <1>1, PathInvariance, PTL

\* The rank that a run loses with every step is a natural number.
Counted == \A r \in Runs : Rank(r) \in Nat

LEMMA RanksCount == Counted
BY DEF Counted, Rank, StepRank, ReserveRank

\* Every interview request that has begun can go on until it ends, and gets
\* nearer to its end with every step: what KeysSettle needs besides fairness.
THEOREM Progress == Spec => ForwardOnly /\ []Counted /\ []NobodyWaits
BY GoesForward, RanksCount, ReadyToGoOn, PTL

\* A request whose key was completed is given the answer of the run that completed it,
\* an error too, and that run had read an interview of the same content.
ReplaysAreTrue ==
    \A r \in Runs : outcome[r] = "existing_completed" =>
        LET f == reply[r]
        IN  /\ f # r /\ RequestHash(copy[f]) = RequestHash(copy[r]) /\ answer[f] # "none"
            /\ answer[r] # "none" => answer[r] = answer[f]

\* However requests interleave, a replayed answer is that of a run of the same content.
THEOREM ReplayTruth == Spec => []ReplaysAreTrue
<1>1. AInv => ReplaysAreTrue
  <2> SUFFICES ASSUME AInv, NEW r \in Runs, outcome[r] = "existing_completed"
               PROVE  /\ reply[r] # r /\ answer[reply[r]] # "none"
                      /\ RequestHash(copy[reply[r]]) = RequestHash(copy[r])
                      /\ answer[r] # "none" => answer[r] = answer[reply[r]]
    BY DEF ReplaysAreTrue
  <2>1. PICK f \in Runs \ {r} : f = reply[r] /\ key[f] = key[r] /\ pc[f] # "idle"
    BY PhasesOf
  <2>2. pc[r] # "idle"
    BY PhasesOf
  <2>3. RequestHash(copy[f]) = RequestHash(copy[r])
    BY <2>1, <2>2 DEF AInv, IInv, RunInv
  <2> QED BY <2>1, <2>3 DEF AInv, PathInv, Repeats
<1> QED BY <1>1, PathInvariance, PTL

\* Two runs compute the fit of one content only when one of them wrote over the row of
\* a run that answered an error: however requests race, none is computed twice before.
RepeatedWorkFollowsAnError ==
    \A r, s \in Runs :
        (/\ r # s /\ Idem!Accepted(r) /\ Idem!Accepted(s)
         /\ RequestHash(copy[r]) = RequestHash(copy[s])) =>
            \E f \in Runs : /\ Idem!Accepted(f) /\ answer[f] = "error"
                            /\ RequestHash(copy[f]) = RequestHash(copy[r])

\* A fit is computed again for the same content only after an error.
THEOREM RepeatedWork == Spec => []RepeatedWorkFollowsAnError
<1>1. AInv => RepeatedWorkFollowsAnError
  <2> SUFFICES ASSUME AInv, NEW r \in Runs, NEW s \in Runs, r # s,
                      outcome[r] = "accepted_new", outcome[s] = "accepted_new",
                      RequestHash(copy[r]) = RequestHash(copy[s])
               PROVE  \E f \in Runs :
                         /\ outcome[f] = "accepted_new" /\ answer[f] = "error"
                         /\ RequestHash(copy[f]) = RequestHash(copy[r])
    BY DEF RepeatedWorkFollowsAnError, Idem!Accepted
  <2>1. \A t \in Runs : outcome[t] = "accepted_new" => key[t] = RequestHash(copy[t])
    BY Reserved, PhasesOf DEF AInv, IInv, RunInv
  <2>2. PICK t \in {r, s} : t \in reopened
    BY <2>1 DEF AInv, IInv, IdemP!IInv, IdemP!DuplicateWorkNeedsAFailure, IdemP!Accepted
  <2>3. PICK f \in Runs : FailedBefore(f, t)
    BY <2>2 DEF AInv, PathInv, IdemP!Reopens
  <2> QED BY <2>1, <2>3 DEF FailedBefore
<1> QED BY <1>1, PathInvariance, PTL

\* The fit on the row was computed by a run, from verified additions, at least one,
\* whichever copies of the row carried it about since: no request makes one up.
FitIsComputed ==
    interview.fit # NoFit =>
        /\ \E r \in Runs : result[r] = "success" /\ interview.fit = Computed(r)
        /\ interview.fit.additions # {} /\ interview.fit.additions \subseteq verified

\* Whichever copy is saved last, the fit on the row is one that a run computed.
THEOREM FitFromARun == Spec => []FitIsComputed
<1>1. AInv => FitIsComputed
  <2> SUFFICES ASSUME AInv, interview.fit # NoFit PROVE FitIsComputed
    BY DEF FitIsComputed
  <2>1. PICK r \in Runs : result[r] = "success" /\ interview.fit = Computed(r)
    BY DEF AInv, PathInv, OfARun
  <2>2. interview.fit.additions = additions[r]
    BY <2>1 DEF Computed
  <2> QED BY <2>1, <2>2 DEF FitIsComputed, AInv, PathInv, Own
<1> QED BY <1>1, PathInvariance, PTL

\* A result stays stored whoever reports, however late, unless a run that had read the
\* row when it was failed writes its own over it (save has no compare-and-swap).
Overwrites(r, h) ==
    /\ pc[r] = "saving" /\ key[r] = h
    /\ row'[h] = [status |-> "IN_FLIGHT", runId |-> r, body |-> NoRun]
StoredResultsLast ==
    [][\A h \in Hashes :
          row[h].status = "COMPLETED" /\ row'[h] # row[h] => \E r \in Runs : Overwrites(r, h)]_vars

\* No late report takes a stored result away.
THEOREM StoredResults == Spec => StoredResultsLast
<1>1. ASSUME AInv, [Next]_vars, NEW h \in Hashes, row[h].status = "COMPLETED",
             row'[h] # row[h]
      PROVE  \E r \in Runs : Overwrites(r, h)
  <2>1. \/ \E r \in Runs : IdemP!WritesOver(r, h)
        \/ row[h].runId \in Runs /\ updates'[row[h].runId] # updates[row[h].runId]
    BY <1>1, Reservations, IdemP!StoredChange, NoKeyAssumption, DisjointAssumption,
       UpsetsAssumption
  <2>2. row[h].runId \in Runs => answer[row[h].runId] # "none"
    BY <1>1 DEF AInv, IInv, LedgerTellsTheTruth
  <2>3. row[h].runId \in Runs => updates'[row[h].runId] = updates[row[h].runId]
    BY <1>1, <2>2, AnsweredRests DEF Untouched
  <2> QED BY <2>1, <2>3 DEF IdemP!WritesOver, Overwrites
<1>2. AInv /\ [Next]_vars =>
        [\A h \in Hashes : row[h].status = "COMPLETED" /\ row'[h] # row[h] =>
            \E r \in Runs : Overwrites(r, h)]_vars
  BY <1>1
<1> QED BY <1>2, PathInvariance, PTL DEF Spec, StoredResultsLast

\* Whatever the handler does, the reservations below it keep the promise of RunLedger.
THEOREM LedgerPromise == Spec => IdemP!ImplementsLedger
<1>1. Init => IdemP!Ledger!LedgerInit
  <2>1. Init => IdemP!Init
    BY SameReservations DEF Init
  <2> QED
    BY <2>1, IdemP!LedgerInitRefined, NoKeyAssumption, DisjointAssumption, UpsetsAssumption
<1>2. AInv /\ [Next]_vars => [IdemP!Ledger!LedgerNext]_(IdemP!Ledger!ledgerVars)
  BY Reservations, IdemP!LedgerStepRefined, NoKeyAssumption, DisjointAssumption,
     UpsetsAssumption
<1> QED BY <1>1, <1>2, PathInvariance, PTL
        DEF Spec, IdemP!ImplementsLedger, IdemP!Ledger!LedgerSpec
=============================================================================
