-------------------------- MODULE OpportunitiesProofs --------------------------
(***************************************************************************)
(* What the opportunities guarantee for any number of calls, baselines,    *)
(* postings and fits, whichever copies are saved over one another.         *)
(*                                                                         *)
(* A call makes a proper entity of its copy: if the copy was in order, the *)
(* entity is (Proper), and this is remembered until the UPDATE.  When      *)
(* nobody wrote the columns in question between the two statements, they   *)
(* hold what the entity has in them after the UPDATE (Lands), so the row   *)
(* is in order too.  The snapshot differs in no save, so no UPDATE has it. *)
(***************************************************************************)
EXTENDS Opportunities, SequenceTheorems, TLAPS

\* What a call makes of a copy: it keeps the snapshot, keeps the copy in order, undoes
\* a rejection only with a reset, and applies only to what is fit or was applied to.
Proper(reset, copy, o) ==
    /\ o \in Rows
    /\ o.initial = copy.initial
    /\ Explained(copy) => Explained(o)
    /\ Flagged(copy) => Flagged(o)
    /\ copy.status = "REJECTED" /\ o.status # "REJECTED" => reset
    /\ o.status = "APPLIED" =>
          copy.status = "APPLIED" \/ (copy.score >= 70 /\ o.score = copy.score)

\* A call holds copies of rows that exist, which agree on the snapshot.
CopiesOK(f) ==
    /\ f = [i \in DOMAIN f |-> f[i]]
    /\ \A i \in DOMAIN f : /\ i \in 1..Len(tracker) /\ f[i] \in Rows
                           /\ f[i].initial = tracker[i].initial

\* What it is saving is a proper entity of its copy.
SavingOK(reset, f, g) ==
    /\ g = [i \in DOMAIN g |-> g[i]]
    /\ \A i \in DOMAIN g : /\ i \in DOMAIN f
                           /\ g[i] \in [selected : Rows, entity : Rows]
                           /\ g[i].selected.initial = f[i].initial
                           /\ Proper(reset, f[i], g[i].entity)

CallOK(x) ==
    /\ x = [at |-> x.at, kind |-> x.kind, want |-> x.want, reset |-> x.reset,
            copies |-> x.copies, saving |-> x.saving]
    /\ x.at \in Places /\ x.kind \in Kinds /\ x.want \in Wants \cup {NoWant}
    /\ x.reset \in BOOLEAN
    /\ x.at \in {"looking", "merging", "creating"} => x.want \in Wants
    /\ x.at = "sweeping" => \A i \in DOMAIN x.copies : Due(x.copies[i])
    /\ CopiesOK(x.copies)
    /\ SavingOK(x.reset, x.copies, x.saving)

IInv ==
    /\ tracker \in Seq(Rows)
    /\ ageings \in Nat
    /\ call = [c \in Calls |-> call[c]]
    /\ \A c \in Calls : CallOK(call[c])

-----------------------------------------------------------------------------
(* Rounding, and the entities that the calls make of a copy *)

\* A fit is rounded to a score, and the rounded fit rounds to the same score.
LEMMA Rounding ==
  ASSUME NEW fit \in 0..1000
  PROVE  /\ Rounded(fit) \in 0..100
         /\ 10 * Rounded(fit) \in 0..1000
         /\ Rounded(10 * Rounded(fit)) = Rounded(fit)
         /\ Band(fit) \in Bands
         /\ Band(10 * Rounded(fit)) \in Bands
BY DEF Rounded, Band, Bands

\* An opportunity that is tracked again.
LEMMA MergedProper ==
  ASSUME NEW o \in Rows, NEW kind \in Kinds, NEW w \in Wants, NEW fit \in Fits,
         NEW reset \in BOOLEAN
  PROVE  Proper(reset, o, Merged(o, kind, w, fit))
<1> DEFINE m == Merged(o, kind, w, fit)
<1>1. fit \in 0..1000
  BY FitsAssumption
<1>2. /\ Rounded(fit) \in 0..100 /\ 10 * Rounded(fit) \in 0..1000
      /\ Rounded(10 * Rounded(fit)) = Rounded(fit)
      /\ Band(10 * Rounded(fit)) \in Bands
  BY <1>1, Rounding
<1>4. TrackedStatus(kind, fit) \in {"SAVED", "IN_FIT_REVIEW"}
  BY DEF TrackedStatus
<1>5. w.analysis \in Analyses
  BY DEF Wants
<1>6. m \in Rows /\ m.initial = o.initial
  <2> DEFINE job == IF w.job = NoJob THEN o.job ELSE w.job
             posting == IF kind = "upsert" THEN w.posting ELSE o.posting
             analysis == IF w.analysis = NoAnalysis THEN o.analysis ELSE w.analysis
             status == IF o.status \in Kept(kind) THEN o.status ELSE TrackedStatus(kind, fit)
             score == Rounded(fit)
             band == Band(10 * Rounded(fit))
  <2>1. /\ w.baseline \in Baselines /\ job \in Postings \cup {NoJob} /\ posting \in Postings
        /\ analysis \in Analyses /\ status \in Statuses
    BY <1>4, <1>5 DEF Rows, Wants, Statuses
  <2>2. m = [o EXCEPT !.baseline = w.baseline, !.job = job, !.posting = posting,
                      !.analysis = analysis, !.score = score, !.band = band,
                      !.status = status]
    BY DEF Merged, Rows
  <2>3. score \in 0..100 /\ band \in Bands
    BY <1>2
  <2> HIDE DEF job, posting, analysis, status, score, band, m
  <2> QED
    BY <2>1, <2>2, <2>3 DEF Rows
<1>7. m.score = Rounded(fit) /\ m.band = Band(10 * Rounded(fit)) /\ m.dormant = o.dormant
  BY DEF Merged, Rows
<1>8. /\ m.status = "DORMANT" => o.status = "DORMANT"
      /\ o.status = "REJECTED" => m.status = "REJECTED"
      /\ m.status = "APPLIED" => o.status = "APPLIED"
  BY <1>4 DEF Merged, Rows, Kept, Terminal
<1> HIDE DEF m
<1>9. Explained(m)
  BY <1>2, <1>7 DEF Explained
<1> QED
  BY <1>6, <1>7, <1>8, <1>9 DEF Proper, Flagged, m

\* An opportunity that is tracked for the first time.
LEMMA CreatedGood ==
  ASSUME NEW kind \in Kinds, NEW w \in Wants, NEW fit \in Fits, NEW generated \in BOOLEAN
  PROVE  LET m == Created(kind, w, fit, generated)
         IN  m \in Rows /\ Explained(m) /\ Flagged(m)
<1> DEFINE m == Created(kind, w, fit, generated)
<1>1. fit \in 0..1000
  BY FitsAssumption
<1>2. /\ Rounded(fit) \in 0..100 /\ 10 * Rounded(fit) \in 0..1000
      /\ Rounded(10 * Rounded(fit)) = Rounded(fit)
      /\ Band(10 * Rounded(fit)) \in Bands
  BY <1>1, Rounding
<1>3. TrackedStatus(kind, fit) \in {"SAVED", "IN_FIT_REVIEW"}
  BY DEF TrackedStatus
<1>4. w.analysis \in Analyses
  BY DEF Wants
<1>5. m \in Rows /\ m.score = Rounded(fit) /\ m.band = Band(10 * Rounded(fit))
      /\ m.status # "DORMANT"
  BY <1>2, <1>3, <1>4 DEF Created, Rows, Wants, Statuses
<1> HIDE DEF m
<1>6. Explained(m) /\ Flagged(m)
  BY <1>2, <1>5 DEF Explained, Flagged
<1> QED
  BY <1>5, <1>6 DEF m

\* Changes of the status.
LEMMA RestatedProper ==
  ASSUME NEW o \in Rows, NEW s \in Statuses, NEW d \in BOOLEAN, NEW old \in BOOLEAN,
         NEW reset \in BOOLEAN,
         s = "DORMANT" => d,
         o.status = "REJECTED" /\ s # "REJECTED" => reset,
         s = "APPLIED" => o.status = "APPLIED" \/ o.score >= 70
  PROVE  Proper(reset, o, [o EXCEPT !.status = s, !.dormant = d, !.old = old])
<1> DEFINE m == [o EXCEPT !.status = s, !.dormant = d, !.old = old]
<1>1. m \in Rows /\ m.initial = o.initial /\ m.score = o.score /\ m.band = o.band
      /\ m.status = s /\ m.dormant = d
  BY DEF Rows
<1> HIDE DEF m
<1>2. Explained(o) => Explained(m)
  BY <1>1 DEF Explained
<1>3. Flagged(m)
  BY <1>1 DEF Flagged
<1> QED
  BY <1>1, <1>2, <1>3 DEF Proper, m

\* Changes of the score with its band.
LEMMA RescoredProper ==
  ASSUME NEW o \in Rows, NEW fit \in Fits, NEW reset \in BOOLEAN
  PROVE  Proper(reset, o, [o EXCEPT !.score = Rounded(fit), !.band = Band(fit)])
<1> DEFINE m == [o EXCEPT !.score = Rounded(fit), !.band = Band(fit)]
<1>0. fit \in 0..1000
  BY FitsAssumption
<1>1. fit \in 0..1000 /\ Rounded(fit) \in 0..100 /\ Band(fit) \in Bands
  BY <1>0, Rounding
<1>3. m \in Rows /\ m.initial = o.initial /\ m.score = Rounded(fit) /\ m.band = Band(fit)
      /\ m.status = o.status /\ m.dormant = o.dormant
  BY <1>1 DEF Rows
<1> HIDE DEF m
<1>4. Explained(m)
  BY <1>1, <1>3 DEF Explained
<1>5. Flagged(o) => Flagged(m)
  BY <1>3 DEF Flagged
<1> QED
  BY <1>3, <1>4, <1>5 DEF Proper, m

-----------------------------------------------------------------------------
(* What an UPDATE leaves *)

\* A column of the row after the UPDATE is that of the entity or that of the row;
\* when nobody wrote it since it was selected, it is that of the entity.
LEMMA Lands ==
  ASSUME NEW row \in Rows, NEW s \in Rows, NEW e \in Rows
  PROVE  LET o == Updated(row, s, e)
         IN  /\ o \in Rows
             /\ o.score \in {e.score, row.score} /\ o.status \in {e.status, row.status}
             /\ row.score = s.score => o.score = e.score
             /\ row.band = s.band => o.band = e.band
             /\ row.status = s.status => o.status = e.status
             /\ row.dormant = s.dormant => o.dormant = e.dormant
             /\ e.initial = s.initial => o.initial = row.initial
BY DEF Updated, Rows

LEMMA LandsCrossed ==
  ASSUME NEW row \in Rows, NEW s \in Rows, NEW e \in Rows
  PROVE  LET o == Updated(row, s, e)
         IN  /\ Explained(e) => Explained(o) \/ Crossed(row, s, {"score", "band"})
             /\ Flagged(e) => Flagged(o) \/ Crossed(row, s, {"status", "dormant"})
             /\ o.score = e.score \/ Crossed(row, s, {"score"})
<1> DEFINE o == Updated(row, s, e)
<1>1. /\ row.score = s.score => o.score = e.score
      /\ row.band = s.band => o.band = e.band
      /\ row.status = s.status => o.status = e.status
      /\ row.dormant = s.dormant => o.dormant = e.dormant
  BY Lands
<1>2. /\ row.score # s.score \/ row.band # s.band => Crossed(row, s, {"score", "band"})
      /\ row.score # s.score => Crossed(row, s, {"score"})
      /\ row.status # s.status \/ row.dormant # s.dormant =>
            Crossed(row, s, {"status", "dormant"})
  BY DEF Crossed, Rows
<1> HIDE DEF o
<1>3. Explained(e) /\ o.score = e.score /\ o.band = e.band => Explained(o)
  BY DEF Explained
<1>4. Flagged(e) /\ o.status = e.status /\ o.dormant = e.dormant => Flagged(o)
  BY DEF Flagged
<1> QED
  BY <1>1, <1>2, <1>3, <1>4 DEF o

-----------------------------------------------------------------------------
(* The invariant *)

LEMMA DoneOK == CallOK(Done) /\ CallOK(Waiting)
BY DEF CallOK, CopiesOK, SavingOK, Done, Waiting, Idle, Asked, None, Places, Kinds

LEMMA InitIInv == Init => IInv
<1> SUFFICES ASSUME Init PROVE IInv
  OBVIOUS
<1>1. tracker = << >> /\ call = [c \in Calls |-> Waiting] /\ ageings = 0
  BY DEF Init
<1>3. << >> \in Seq(Rows)
  OBVIOUS
<1> QED
  BY <1>1, <1>3, DoneOK DEF IInv

\* The rows stay, with their snapshots.
Grows == \A j \in 1..Len(tracker) : /\ j \in 1..Len(tracker')
                                    /\ tracker'[j].initial = tracker[j].initial

\* What a call holds depends on the tracker only through the snapshots.
LEMMA Carries ==
  ASSUME Grows, NEW x, CallOK(x)
  PROVE  CallOK(x)'
<1>1. CopiesOK(x.copies)'
  BY DEF CallOK, CopiesOK, Grows
<1> QED
  BY <1>1 DEF CallOK, SavingOK, Proper, Explained, Flagged

LEMMA AllCarry ==
  ASSUME Grows, \A d \in Calls : CallOK(call'[d])
  PROVE  \A d \in Calls : CallOK(call[d])'
<1>1. ASSUME NEW d \in Calls PROVE CallOK(call[d])'
  <2>1. PICK y : y = call'[d]
    OBVIOUS
  <2>2. CallOK(y)'
    BY <2>1, Carries
  <2> QED
    BY <2>1, <2>2
<1> QED
  BY <1>1

\* A call that only reads, or is over, holds copies of the rows there are.
LEMMA PutStep ==
  ASSUME IInv, NEW c \in Calls, NEW x, CallOK(x), Put(c, x), UNCHANGED <<tracker, ageings>>
  PROVE  IInv'
<1>1. \A d \in Calls : CallOK(call'[d])
  BY DEF IInv, Put
<1>2. Grows
  BY DEF Grows
<1>3. \A d \in Calls : CallOK(call[d])'
  BY <1>1, <1>2, AllCarry
<1> QED
  BY <1>3 DEF IInv, Put

LEMMA ReadOK ==
  ASSUME IInv, NEW ids \in SUBSET DOMAIN tracker
  PROVE  CopiesOK(Read(ids))
<1>1. DOMAIN tracker = 1..Len(tracker) /\ \A i \in 1..Len(tracker) : tracker[i] \in Rows
  BY DEF IInv
<1> QED
  BY <1>1 DEF CopiesOK, Read

LEMMA ReadStep ==
  ASSUME IInv, NEW c \in Calls, NEW ids \in SUBSET DOMAIN tracker,
         NEW at \in Places, NEW kind \in Kinds, NEW w \in Wants \cup {NoWant},
         NEW reset \in BOOLEAN, at \in {"looking", "merging", "creating"} => w \in Wants,
         at = "sweeping" => \A i \in ids : Due(tracker[i]),
         Put(c, Asked(at, kind, w, reset, Read(ids))), UNCHANGED <<tracker, ageings>>
  PROVE  IInv'
<1> DEFINE x == Asked(at, kind, w, reset, Read(ids))
<1>1. CopiesOK(Read(ids))
  BY ReadOK
<1>2. SavingOK(reset, Read(ids), None)
  BY DEF SavingOK, None
<1>3. CallOK(x)
  BY <1>1, <1>2 DEF CallOK, Asked, Read
<1> QED
  BY <1>3, PutStep

\* What a call that drops copy i still holds.
LEMMA ProceedOK ==
  ASSUME IInv, NEW c \in Calls, NEW i \in DOMAIN call[c].copies, Proceed(c, i)
  PROVE  \E x : CallOK(x) /\ Put(c, x) /\ x # call[c]
<1> DEFINE rest == DOMAIN call[c].copies \ {i}
           f == [j \in rest |-> call[c].copies[j]]
           x == Asked(call[c].at, call[c].kind, call[c].want, call[c].reset, f)
<1>1. CallOK(call[c])
  BY DEF IInv
<1>2. CASE rest = {}
  <2>1. Put(c, Done)
    BY <1>2 DEF Proceed
  <2>2. Done # call[c]
    BY DEF Done, Idle, Asked, None
  <2> QED
    BY <2>1, <2>2, DoneOK
<1>3. CASE rest # {}
  <2>1. Put(c, x)
    BY <1>3 DEF Proceed
  <2>2. CopiesOK(f)
    <3>1. CopiesOK(call[c].copies)
      BY <1>1 DEF CallOK
    <3> QED
      BY <3>1 DEF CopiesOK
  <2>3. x.copies = f /\ x.saving = None /\ x.at = call[c].at
    BY DEF Asked
  <2>4. SavingOK(call[c].reset, f, None)
    BY DEF SavingOK, None
  <2>5. CallOK(x)
    BY <1>1, <2>2, <2>4 DEF CallOK, Asked
  <2>6. x.copies # call[c].copies
    BY <2>3
  <2> QED
    BY <2>1, <2>5, <2>6
<1> QED
  BY <1>2, <1>3

\* The SELECT of a save of a proper entity.
LEMMA SaveStep ==
  ASSUME IInv, NEW c \in Calls, NEW i \in DOMAIN call[c].copies, NEW o,
         Proper(call[c].reset, call[c].copies[i], o), Save(c, i, o)
  PROVE  IInv'
<1> DEFINE s == [selected |-> tracker[i], entity |-> o]
           g == [j \in {i} |-> s]
           x == [call[c] EXCEPT !.saving = g]
<1>1. CallOK(call[c])
  BY DEF IInv
<1>2. i \in 1..Len(tracker) /\ tracker[i].initial = call[c].copies[i].initial
  BY <1>1 DEF CallOK, CopiesOK
<1>3. tracker[i] \in Rows /\ o \in Rows
  BY <1>2 DEF IInv, Proper
<1>4. s \in [selected : Rows, entity : Rows] /\ s.selected = tracker[i] /\ s.entity = o
  BY <1>3
<1>5. SavingOK(call[c].reset, call[c].copies, g)
  <2> HIDE DEF s
  <2> QED
    BY <1>2, <1>4 DEF SavingOK
<1> HIDE DEF g
<1>6. x = [at |-> call[c].at, kind |-> call[c].kind, want |-> call[c].want,
           reset |-> call[c].reset, copies |-> call[c].copies, saving |-> g]
  BY <1>1 DEF CallOK
<1>7. CallOK(x)
  BY <1>1, <1>5, <1>6 DEF CallOK
<1>8. Put(c, x) /\ UNCHANGED <<tracker, ageings>>
  BY DEF Save, g
<1> QED
  BY <1>7, <1>8, PutStep

-----------------------------------------------------------------------------
(* Every step *)

StepOK == /\ IInv' /\ KeepsSnapshots /\ KeepsRejections /\ AppliesFitOnes
          /\ KeepsBands /\ KeepsFlags

\* A step that leaves the tracker alone.
LEMMA Aside ==
  ASSUME IInv, IInv', UNCHANGED tracker
  PROVE  StepOK
<1>1. Len(tracker) \in Nat
  BY DEF IInv
<1>2. KeepsSnapshots /\ KeepsRejections /\ AppliesFitOnes
  BY <1>1 DEF KeepsSnapshots, KeepsRejections, AppliesFitOnes
<1>3. \A i \in DOMAIN tracker' : i \in DOMAIN tracker /\ tracker'[i] = tracker[i]
  OBVIOUS
<1>4. KeepsBands /\ KeepsFlags
  BY <1>3 DEF KeepsBands, KeepsFlags
<1> QED
  BY <1>2, <1>4 DEF StepOK

\* The SELECT of a save.
LEMMA SaveOK ==
  ASSUME IInv, NEW c \in Calls, NEW i \in DOMAIN call[c].copies, NEW o,
         Proper(call[c].reset, call[c].copies[i], o), Save(c, i, o)
  PROVE  StepOK
BY SaveStep, Aside DEF Save

\* A change of one row, by a call that goes on with x or by the passing of time.
LEMMA OneRow ==
  ASSUME IInv, NEW i \in 1..Len(tracker), NEW o \in Rows, o.initial = tracker[i].initial,
         tracker' = [tracker EXCEPT ![i] = o]
  PROVE  /\ tracker' \in Seq(Rows) /\ Len(tracker') = Len(tracker) /\ Len(tracker) \in Nat
         /\ DOMAIN tracker = 1..Len(tracker) /\ DOMAIN tracker' = DOMAIN tracker
         /\ \A j \in DOMAIN tracker : tracker'[j] = IF j = i THEN o ELSE tracker[j]
         /\ KeepsSnapshots /\ Grows
<1>1. /\ tracker' \in Seq(Rows) /\ Len(tracker') = Len(tracker) /\ Len(tracker) \in Nat
      /\ DOMAIN tracker = 1..Len(tracker) /\ DOMAIN tracker' = DOMAIN tracker
      /\ \A j \in DOMAIN tracker : tracker'[j] = IF j = i THEN o ELSE tracker[j]
  BY DEF IInv
<1>2. \A j \in DOMAIN tracker : tracker'[j].initial = tracker[j].initial
  BY <1>1
<1>3. KeepsSnapshots
  BY <1>1, <1>2 DEF KeepsSnapshots
<1>4. Grows
  BY <1>1, <1>2 DEF Grows
<1> QED
  BY <1>1, <1>2, <1>3, <1>4

\* What the call, the copy and the entity of an UPDATE are.
LEMMA WriteGiven ==
  ASSUME IInv, NEW c \in Calls, NEW i \in DOMAIN call[c].saving
  PROVE  /\ i \in DOMAIN call[c].copies /\ i \in 1..Len(tracker)
         /\ tracker[i] \in Rows /\ call[c].copies[i] \in Rows
         /\ call[c].saving[i].selected \in Rows /\ call[c].saving[i].entity \in Rows
         /\ Proper(call[c].reset, call[c].copies[i], call[c].saving[i].entity)
         /\ call[c].saving[i].entity.initial = call[c].saving[i].selected.initial
<1>1. CallOK(call[c])
  BY DEF IInv
<1>2. /\ i \in DOMAIN call[c].copies
      /\ call[c].saving[i] \in [selected : Rows, entity : Rows]
      /\ call[c].saving[i].selected.initial = call[c].copies[i].initial
      /\ Proper(call[c].reset, call[c].copies[i], call[c].saving[i].entity)
  BY <1>1 DEF CallOK, SavingOK
<1>3. i \in 1..Len(tracker) /\ call[c].copies[i] \in Rows
  BY <1>1, <1>2 DEF CallOK, CopiesOK
<1>4. tracker[i] \in Rows
  BY <1>3 DEF IInv
<1> QED
  BY <1>2, <1>3, <1>4 DEF Proper

LEMMA WriteOK ==
  ASSUME IInv, NEW c \in Calls, Write(c)
  PROVE  StepOK
<1>1. PICK i \in DOMAIN call[c].saving :
          LET o == Updated(tracker[i], call[c].saving[i].selected, call[c].saving[i].entity)
          IN  IF Conflicts(i, o)
              THEN UNCHANGED tracker /\ Put(c, Done)
              ELSE tracker' = [tracker EXCEPT ![i] = o] /\ Proceed(c, i)
  BY DEF Write
<1> DEFINE row == tracker[i]
           s == call[c].saving[i].selected
           e == call[c].saving[i].entity
           copy == call[c].copies[i]
           o == Updated(row, s, e)
<1>2. /\ i \in DOMAIN call[c].copies /\ i \in 1..Len(tracker) /\ ageings' = ageings
      /\ row \in Rows /\ copy \in Rows /\ s \in Rows /\ e \in Rows
      /\ Proper(call[c].reset, copy, e) /\ e.initial = s.initial
  BY WriteGiven DEF Write
<1>3. CASE UNCHANGED tracker /\ Put(c, Done)
  BY <1>2, <1>3, DoneOK, PutStep, Aside
<1>4. CASE tracker' = [tracker EXCEPT ![i] = o] /\ Proceed(c, i)
  <2>1. /\ o \in Rows /\ o.initial = row.initial
        /\ o.score \in {e.score, row.score} /\ o.status \in {e.status, row.status}
    BY <1>2, Lands
  <2>2. /\ Explained(e) => Explained(o) \/ Crossed(row, s, {"score", "band"})
        /\ Flagged(e) => Flagged(o) \/ Crossed(row, s, {"status", "dormant"})
        /\ o.score = e.score \/ Crossed(row, s, {"score"})
    BY <1>2, LandsCrossed
  <2> HIDE DEF o
  <2>3. PICK x : CallOK(x) /\ Put(c, x) /\ x # call[c]
    BY <1>2, <1>4, ProceedOK
  <2>4. /\ tracker' \in Seq(Rows) /\ Len(tracker') = Len(tracker) /\ Len(tracker) \in Nat
        /\ DOMAIN tracker = 1..Len(tracker) /\ DOMAIN tracker' = DOMAIN tracker
        /\ \A j \in DOMAIN tracker : tracker'[j] = IF j = i THEN o ELSE tracker[j]
        /\ KeepsSnapshots /\ Grows
    BY <1>2, <1>4, <2>1, OneRow
  <2>5. IInv'
    <3>1. \A d \in Calls : call'[d] = IF d = c THEN x ELSE call[d]
      BY <2>3 DEF IInv, Put
    <3>2. \A d \in Calls : CallOK(call'[d])
      BY <2>3, <3>1 DEF IInv
    <3>3. \A d \in Calls : CallOK(call[d])'
      BY <2>4, <3>2, AllCarry
    <3> QED
      BY <1>2, <2>3, <2>4, <3>3 DEF IInv, Put
  <2>6. Writes(c, i)
    BY <2>3 DEF Writes, Put, IInv
  <2>7. KeepsRejections
    <3>1. row.status = "REJECTED" /\ o.status # "REJECTED" =>
             call[c].reset \/ copy.status # "REJECTED"
      BY <1>2, <2>1 DEF Proper
    <3> QED
      BY <2>4, <2>6, <3>1 DEF KeepsRejections
  <2>8. AppliesFitOnes
    <3>1. row.status # "APPLIED" /\ o.status = "APPLIED" =>
             \/ copy.status = "APPLIED"
             \/ copy.score >= 70 /\ (o.score >= 70 \/ CrossedAt(c, i, {"score"}))
      BY <1>2, <2>1, <2>2 DEF Proper, CrossedAt
    <3> QED
      BY <2>4, <2>6, <3>1 DEF AppliesFitOnes
  <2>9. KeepsBands
    <3>1. Explained(o) \/ CrossedAt(c, i, {"score", "band"}) \/ ~Explained(copy)
      BY <1>2, <2>2 DEF Proper, CrossedAt
    <3> QED
      BY <2>4, <2>6, <3>1 DEF KeepsBands
  <2>10. KeepsFlags
    <3>1. Flagged(o) \/ CrossedAt(c, i, {"status", "dormant"}) \/ ~Flagged(copy)
      BY <1>2, <2>2 DEF Proper, CrossedAt
    <3> QED
      BY <2>4, <2>6, <3>1 DEF KeepsFlags
  <2> QED
    BY <2>4, <2>5, <2>7, <2>8, <2>9, <2>10 DEF StepOK
<1> QED
  BY <1>1, <1>3, <1>4

LEMMA CopyOK ==
  ASSUME IInv, NEW c \in Calls
  PROVE  /\ CallOK(call[c]) /\ call[c].reset \in BOOLEAN
         /\ \A i \in DOMAIN call[c].copies : call[c].copies[i] \in Rows
BY DEF IInv, CallOK, CopiesOK

LEMMA TrackOK ==
  ASSUME IInv, NEW c \in Calls, NEW kind \in Trackings, NEW w \in Wants, Track(c, kind, w)
  PROVE  StepOK
<1>1. kind \in Kinds /\ w \in Wants \cup {NoWant}
      /\ "looking" \in Places /\ "merging" \in Places /\ {} \in SUBSET DOMAIN tracker
  BY DEF Kinds, Places
<1>2. CASE Put(c, Asked("looking", kind, w, FALSE, Read({})))
  BY <1>1, <1>2, ReadStep, Aside DEF Track
<1>3. CASE \E i \in DOMAIN tracker : Put(c, Asked("merging", kind, w, FALSE, Read({i})))
  <2>1. PICK i \in DOMAIN tracker : Put(c, Asked("merging", kind, w, FALSE, Read({i})))
    BY <1>3
  <2>2. {i} \in SUBSET DOMAIN tracker
    OBVIOUS
  <2> QED
    BY <1>1, <2>1, <2>2, ReadStep, Aside DEF Track
<1> QED
  BY <1>2, <1>3 DEF Track

LEMMA FindOtherOK ==
  ASSUME IInv, NEW c \in Calls, FindOther(c)
  PROVE  StepOK
<1> DEFINE kind == call[c].kind
           w == call[c].want
<1>1. /\ kind \in Kinds /\ w \in Wants /\ w \in Wants \cup {NoWant}
      /\ "creating" \in Places /\ "merging" \in Places /\ {} \in SUBSET DOMAIN tracker
      /\ UNCHANGED <<tracker, ageings>>
  BY DEF IInv, CallOK, FindOther, Places
<1>2. CASE Put(c, Asked("creating", kind, w, FALSE, Read({})))
  BY <1>1, <1>2, ReadStep, Aside
<1>3. CASE \E i \in DOMAIN tracker : Put(c, Asked("merging", kind, w, FALSE, Read({i})))
  <2>1. PICK i \in DOMAIN tracker : Put(c, Asked("merging", kind, w, FALSE, Read({i})))
    BY <1>3
  <2>2. {i} \in SUBSET DOMAIN tracker
    OBVIOUS
  <2> QED
    BY <1>1, <2>1, <2>2, ReadStep, Aside
<1> QED
  BY <1>2, <1>3 DEF FindOther

LEMMA MergeOK ==
  ASSUME IInv, NEW c \in Calls, Merge(c)
  PROVE  StepOK
<1>1. CallOK(call[c]) /\ call[c].at = "merging"
  BY DEF IInv, Merge, Free
<1> DEFINE kind == call[c].kind
           w == call[c].want
<1>2. kind \in Kinds /\ w \in Wants
  BY <1>1 DEF CallOK
<1>3. PICK i \in DOMAIN call[c].copies, fit \in Fits :
          Save(c, i, Merged(call[c].copies[i], kind, w, fit))
  BY DEF Merge
<1> DEFINE o == call[c].copies[i]
           m == Merged(o, kind, w, fit)
<1>4. o \in Rows /\ call[c].reset \in BOOLEAN
  BY CopyOK
<1>5. Proper(call[c].reset, o, m)
  BY <1>2, <1>4, MergedProper
<1> HIDE DEF m
<1> QED
  BY <1>3, <1>5, SaveOK DEF m

LEMMA CreateOK ==
  ASSUME IInv, NEW c \in Calls, Create(c)
  PROVE  StepOK
<1>1. CallOK(call[c]) /\ call[c].at = "creating" /\ Put(c, Done) /\ ageings' = ageings
  BY DEF IInv, Create
<1>2. call[c].kind \in Kinds /\ call[c].want \in Wants
  BY <1>1 DEF CallOK
<1>3. CASE UNCHANGED tracker
  BY <1>1, <1>3, DoneOK, PutStep, Aside
<1>4. CASE \E o \in Rows : Explained(o) /\ Flagged(o) /\ tracker' = Append(tracker, o)
  <2>1. PICK o \in Rows : Explained(o) /\ Flagged(o) /\ tracker' = Append(tracker, o)
    BY <1>4
  <2>2. /\ tracker' \in Seq(Rows) /\ Len(tracker') = Len(tracker) + 1
        /\ Len(tracker) \in Nat /\ DOMAIN tracker = 1..Len(tracker)
        /\ DOMAIN tracker' = 1..Len(tracker) + 1 /\ tracker'[Len(tracker) + 1] = o
        /\ \A i \in 1..Len(tracker) : tracker'[i] = tracker[i]
    BY <2>1 DEF IInv
  <2>3. \A d \in Calls : CallOK(call'[d])
    BY <1>1, DoneOK DEF Put, IInv
  <2>4. \A d \in Calls : CallOK(call[d])'
    <3>1. Grows
      BY <2>2 DEF Grows
    <3> QED
      BY <2>3, <3>1, AllCarry
  <2>5. IInv'
    BY <1>1, <2>2, <2>4 DEF IInv, Put
  <2>6. KeepsSnapshots /\ KeepsRejections /\ AppliesFitOnes
    BY <2>2 DEF KeepsSnapshots, KeepsRejections, AppliesFitOnes
  <2>7. \A i \in DOMAIN tracker' : \/ i \in DOMAIN tracker /\ tracker'[i] = tracker[i]
                                   \/ Explained(tracker'[i]) /\ Flagged(tracker'[i])
    <3>1. \A i \in DOMAIN tracker' : i \in 1..Len(tracker) \/ i = Len(tracker) + 1
      BY <2>2
    <3> QED
      BY <2>1, <2>2, <3>1
  <2>8. KeepsBands /\ KeepsFlags
    BY <2>7 DEF KeepsBands, KeepsFlags
  <2> QED
    BY <2>5, <2>6, <2>8 DEF StepOK
<1> QED
  BY <1>2, <1>3, <1>4, CreatedGood DEF Create

LEMMA OpenOK ==
  ASSUME IInv, NEW c \in Calls, NEW kind \in {"transition", "update"}, NEW reset \in BOOLEAN,
         NEW i \in DOMAIN tracker, Open(c, kind, reset, i)
  PROVE  StepOK
<1>1. kind \in Kinds /\ NoWant \in Wants \cup {NoWant} /\ "changing" \in Places
      /\ {i} \in SUBSET DOMAIN tracker
  BY DEF Kinds, Places
<1> QED
  BY <1>1, ReadStep, Aside DEF Open

LEMMA TransitionOK ==
  ASSUME IInv, NEW c \in Calls, Transition(c)
  PROVE  StepOK
<1>1. PICK i \in DOMAIN call[c].copies, next \in Statuses :
          /\ next = "APPLIED" => call[c].copies[i].score >= 70
          /\ CanTransition(call[c].copies[i].status, next, call[c].reset)
          /\ Save(c, i, [call[c].copies[i] EXCEPT !.status = next, !.old = FALSE,
                                                  !.dormant = (next = "DORMANT")])
  BY DEF Transition
<1> DEFINE o == call[c].copies[i]
           d == (next = "DORMANT")
           m == [o EXCEPT !.status = next, !.dormant = d, !.old = FALSE]
<1>2. o \in Rows /\ call[c].reset \in BOOLEAN
  BY CopyOK
<1>3. Save(c, i, m)
  <2>1. m = [o EXCEPT !.status = next, !.old = FALSE, !.dormant = (next = "DORMANT")]
    BY <1>2 DEF Rows
  <2> QED
    BY <1>1, <2>1
<1>4. d \in BOOLEAN /\ (next = "DORMANT" => d) /\ FALSE \in BOOLEAN
  OBVIOUS
<1>6. o.status = "REJECTED" /\ next # "REJECTED" => call[c].reset
  BY <1>1 DEF CanTransition, Terminal, Forward
<1>7. next = "APPLIED" => o.score >= 70
  BY <1>1
<1>8. Proper(call[c].reset, o, m)
  <2> HIDE DEF d
  <2> QED
    BY <1>2, <1>4, <1>6, <1>7, RestatedProper
<1> HIDE DEF m
<1> QED
  BY <1>3, <1>8, SaveOK

LEMMA UpdateOK ==
  ASSUME IInv, NEW c \in Calls, Update(c)
  PROVE  StepOK
<1>1. PICK i \in DOMAIN call[c].copies, next \in SimpleStatuses :
          /\ SimpleAllowed(Simple(call[c].copies[i]), next)
          /\ Save(c, i, [call[c].copies[i] EXCEPT
                            !.status = FromSimple(next, call[c].copies[i].score),
                            !.old = FALSE])
  BY DEF Update
<1> DEFINE o == call[c].copies[i]
           s == FromSimple(next, o.score)
           d == o.dormant
           m == [o EXCEPT !.status = s, !.dormant = d, !.old = FALSE]
<1>2. o \in Rows /\ call[c].reset \in BOOLEAN
  BY CopyOK
<1>3. s \in Statuses /\ s # "DORMANT"
  BY DEF FromSimple, Statuses, Terminal
<1>4. Save(c, i, m)
  <2>1. m = [o EXCEPT !.status = s, !.old = FALSE]
    BY <1>2 DEF Rows
  <2> QED
    BY <1>1, <2>1
<1>5. d \in BOOLEAN /\ FALSE \in BOOLEAN /\ (s = "DORMANT" => d)
  BY <1>2, <1>3 DEF Rows
<1>7. o.status = "REJECTED" => s = "REJECTED"
  BY <1>1 DEF SimpleAllowed, Simple, Terminal, FromSimple
<1>8. s = "APPLIED" => o.score >= 70 \/ o.status = "APPLIED"
  BY <1>1, <1>2 DEF SimpleAllowed, Simple, FromSimple, Rows
<1>9. Proper(call[c].reset, o, m)
  <2> HIDE DEF d, s
  <2> QED
    BY <1>2, <1>3, <1>5, <1>7, <1>8, RestatedProper
<1> HIDE DEF m
<1> QED
  BY <1>4, <1>9, SaveOK

LEMMA OpenAllOK ==
  ASSUME IInv, NEW c \in Calls, NEW at \in {"sweeping", "rescoring"}, NEW kind \in Kinds,
         NEW ids \in SUBSET DOMAIN tracker,
         at = "sweeping" => \A i \in ids : Due(tracker[i]),
         OpenAll(c, at, kind, ids)
  PROVE  StepOK
<1>1. at \in Places /\ NoWant \in Wants \cup {NoWant}
  BY DEF Places
<1>2. CASE ids = {}
  BY <1>2, DoneOK, PutStep, Aside DEF OpenAll
<1>3. CASE ids # {}
  BY <1>1, <1>3, ReadStep, Aside DEF OpenAll
<1> QED
  BY <1>2, <1>3

LEMMA SweepOneOK ==
  ASSUME IInv, NEW c \in Calls, SweepOne(c)
  PROVE  StepOK
<1>1. PICK i \in DOMAIN call[c].copies :
          Save(c, i, [call[c].copies[i] EXCEPT !.status = "DORMANT", !.dormant = TRUE,
                                               !.old = FALSE])
  BY DEF SweepOne
<1> DEFINE o == call[c].copies[i]
           m == [o EXCEPT !.status = "DORMANT", !.dormant = TRUE, !.old = FALSE]
<1>2. o \in Rows /\ call[c].reset \in BOOLEAN /\ o.status # "REJECTED"
  BY CopyOK DEF SweepOne, Free, CallOK, Due, Terminal
<1>3. "DORMANT" \in Statuses /\ TRUE \in BOOLEAN /\ FALSE \in BOOLEAN
  BY DEF Statuses
<1>4. Proper(call[c].reset, o, m)
  BY <1>2, <1>3, RestatedProper
<1> HIDE DEF m
<1> QED
  BY <1>1, <1>4, SaveOK DEF m

LEMMA RescoreOneOK ==
  ASSUME IInv, NEW c \in Calls, RescoreOne(c)
  PROVE  StepOK
<1>1. PICK i \in DOMAIN call[c].copies :
          \/ Proceed(c, i) /\ UNCHANGED <<tracker, ageings>>
          \/ \E fit \in Fits :
                Save(c, i, [call[c].copies[i] EXCEPT !.score = Rounded(fit),
                                                     !.band = Band(fit)])
  BY DEF RescoreOne
<1>2. CASE Proceed(c, i) /\ UNCHANGED <<tracker, ageings>>
  <2>1. PICK x : CallOK(x) /\ Put(c, x)
    BY <1>2, ProceedOK
  <2> QED
    BY <1>2, <2>1, PutStep, Aside
<1>3. CASE \E fit \in Fits :
                Save(c, i, [call[c].copies[i] EXCEPT !.score = Rounded(fit),
                                                     !.band = Band(fit)])
  <2>1. PICK fit \in Fits :
                Save(c, i, [call[c].copies[i] EXCEPT !.score = Rounded(fit),
                                                     !.band = Band(fit)])
    BY <1>3
  <2> DEFINE o == call[c].copies[i]
             m == [o EXCEPT !.score = Rounded(fit), !.band = Band(fit)]
  <2>2. o \in Rows /\ call[c].reset \in BOOLEAN
    BY CopyOK
  <2>3. Proper(call[c].reset, o, m)
    BY <2>2, RescoredProper
  <2> HIDE DEF m
  <2> QED
    BY <2>1, <2>3, SaveOK DEF m
<1> QED
  BY <1>1, <1>2, <1>3

LEMMA GrowOldOK ==
  ASSUME IInv, NEW i \in DOMAIN tracker, GrowOld(i)
  PROVE  StepOK
<1> DEFINE m == [tracker[i] EXCEPT !.old = TRUE]
<1>1. tracker[i] \in Rows /\ i \in 1..Len(tracker)
  BY DEF IInv
<1>2. m \in Rows /\ m.initial = tracker[i].initial /\ m.status = tracker[i].status
      /\ m.score = tracker[i].score /\ m.band = tracker[i].band
      /\ m.dormant = tracker[i].dormant
  BY <1>1 DEF Rows
<1>4. tracker' = [tracker EXCEPT ![i] = m] /\ UNCHANGED call /\ ageings' \in Nat
  BY DEF GrowOld, IInv
<1> HIDE DEF m
<1>5. /\ tracker' \in Seq(Rows) /\ DOMAIN tracker' = DOMAIN tracker
      /\ \A j \in DOMAIN tracker : tracker'[j] = IF j = i THEN m ELSE tracker[j]
      /\ KeepsSnapshots /\ Grows
  BY <1>1, <1>2, <1>4, OneRow
<1>6. \A d \in Calls : CallOK(call[d])'
  <2>1. \A d \in Calls : CallOK(call'[d])
    BY <1>4 DEF IInv
  <2> QED
    BY <1>5, <2>1, AllCarry
<1>7. IInv'
  BY <1>4, <1>5, <1>6 DEF IInv
<1>8. KeepsRejections /\ AppliesFitOnes
  BY <1>2, <1>5 DEF KeepsRejections, AppliesFitOnes
<1>9. Explained(m) = Explained(tracker[i]) /\ Flagged(m) = Flagged(tracker[i])
  BY <1>2 DEF Explained, Flagged
<1>10. KeepsBands /\ KeepsFlags
  BY <1>5, <1>9 DEF KeepsBands, KeepsFlags
<1> QED
  BY <1>5, <1>7, <1>8, <1>10 DEF StepOK

LEMMA NextOK == IInv /\ Next => StepOK
<1> SUFFICES ASSUME IInv, Next PROVE StepOK
  OBVIOUS
<1>1. ASSUME NEW c \in Calls, NEW kind \in Trackings, NEW w \in Wants, Track(c, kind, w)
      PROVE  StepOK
  BY <1>1, TrackOK
<1>2. ASSUME NEW c \in Calls, FindOther(c) \/ Merge(c) \/ Create(c) PROVE StepOK
  BY <1>2, FindOtherOK, MergeOK, CreateOK
<1>3. ASSUME NEW c \in Calls, NEW kind \in {"transition", "update"}, NEW reset \in BOOLEAN,
             NEW i \in DOMAIN tracker, Open(c, kind, reset, i)
      PROVE  StepOK
  BY <1>3, OpenOK
<1>4. ASSUME NEW c \in Calls, Transition(c) \/ Update(c) PROVE StepOK
  BY <1>4, TransitionOK, UpdateOK
<1>5. ASSUME NEW c \in Calls, Sweep(c) PROVE StepOK
  <2> DEFINE ids == {i \in DOMAIN tracker : Due(tracker[i])}
  <2>1. ids \in SUBSET DOMAIN tracker /\ \A i \in ids : Due(tracker[i])
    OBVIOUS
  <2>2. OpenAll(c, "sweeping", "sweep", ids) /\ "sweep" \in Kinds
    BY <1>5 DEF Sweep, Kinds
  <2> HIDE DEF ids
  <2> QED
    BY <2>1, <2>2, OpenAllOK
<1>6. ASSUME NEW c \in Calls, Rescore(c) PROVE StepOK
  <2> DEFINE ids == {i \in DOMAIN tracker : NearBoundary(tracker[i].score)}
  <2>1. ids \in SUBSET DOMAIN tracker
    OBVIOUS
  <2>2. OpenAll(c, "rescoring", "rescore", ids) /\ "rescore" \in Kinds
    BY <1>6 DEF Rescore, Kinds
  <2> HIDE DEF ids
  <2> QED
    BY <2>1, <2>2, OpenAllOK
<1>7. ASSUME NEW c \in Calls, SweepOne(c) \/ RescoreOne(c) \/ Write(c) PROVE StepOK
  BY <1>7, SweepOneOK, RescoreOneOK, WriteOK
<1>8. ASSUME NEW i \in DOMAIN tracker, GrowOld(i) PROVE StepOK
  BY <1>8, GrowOldOK
<1> QED
  BY <1>1, <1>2, <1>3, <1>4, <1>5, <1>6, <1>7, <1>8 DEF Next

LEMMA StutterIInv == IInv /\ UNCHANGED vars => IInv'
<1> SUFFICES ASSUME IInv, UNCHANGED vars PROVE IInv'
  OBVIOUS
<1>1. Grows /\ \A d \in Calls : CallOK(call'[d])
  BY DEF IInv, vars, Grows
<1>2. \A d \in Calls : CallOK(call[d])'
  BY <1>1, AllCarry
<1> QED
  BY <1>2 DEF IInv, vars

\* The invariant holds in every state that the program can reach.
THEOREM Invariance == Spec => []IInv
<1>1. Init => IInv
  BY InitIInv
<1>2. IInv /\ [Next]_vars => IInv'
  BY NextOK, StutterIInv DEF StepOK
<1> QED
  BY <1>1, <1>2, PTL DEF Spec

-----------------------------------------------------------------------------
(* The theorems *)

\* Every variable stays in its domain, and copies are of rows that exist.
THEOREM TypeCorrect == Spec => []TypeOK
<1>1. IInv => TypeOK
  <2> SUFFICES ASSUME IInv PROVE TypeOK
    OBVIOUS
  <2>1. tracker \in Seq(Rows) /\ DOMAIN tracker = 1..Len(tracker)
    BY DEF IInv
  <2>2. ASSUME NEW c \in Calls
        PROVE  /\ DOMAIN call[c].saving \subseteq DOMAIN call[c].copies
               /\ DOMAIN call[c].copies \subseteq DOMAIN tracker
               /\ call[c] \in [at : Places, kind : Kinds, want : Wants \cup {NoWant},
                                reset : BOOLEAN, copies : [DOMAIN call[c].copies -> Rows],
                                saving : [DOMAIN call[c].saving ->
                                             [selected : Rows, entity : Rows]]]
    <3>1. CallOK(call[c])
      BY DEF IInv
    <3>2. call[c].copies \in [DOMAIN call[c].copies -> Rows]
      BY <3>1 DEF CallOK, CopiesOK
    <3>3. call[c].saving \in [DOMAIN call[c].saving -> [selected : Rows, entity : Rows]]
      BY <3>1 DEF CallOK, SavingOK
    <3>4. DOMAIN call[c].saving \subseteq DOMAIN call[c].copies
      BY <3>1 DEF CallOK, SavingOK
    <3> QED
      BY <2>1, <3>1, <3>2, <3>3, <3>4 DEF CallOK, CopiesOK
  <2> QED
    BY <2>1, <2>2 DEF TypeOK, IInv
<1> QED
  BY <1>1, Invariance, PTL

\* The stored band stays that of a fit that rounds to the stored score, unless another
\* call comes between the two statements of a save.
THEOREM BandCorrect == Spec => BandsStayExplained
<1>1. IInv /\ [Next]_vars => [KeepsBands]_vars
  BY NextOK DEF StepOK
<1> QED
  BY <1>1, Invariance, PTL DEF Spec, BandsStayExplained

\* An opportunity with the status DORMANT has the flag, with the same exception.
THEOREM DormancyFlagged == Spec => DormantStaysFlagged
<1>1. IInv /\ [Next]_vars => [KeepsFlags]_vars
  BY NextOK DEF StepOK
<1> QED
  BY <1>1, Invariance, PTL DEF Spec, DormantStaysFlagged

\* The score an opportunity was first tracked with never changes.
THEOREM SnapshotsStay == Spec => SnapshotKept
<1>1. IInv /\ [Next]_vars => [KeepsSnapshots]_vars
  BY NextOK DEF StepOK
<1> QED
  BY <1>1, Invariance, PTL DEF Spec, SnapshotKept

\* Only a reset, or a copy from before the rejection, brings a rejected one back.
THEOREM RejectionStays == Spec => RejectedIsFinal
<1>1. IInv /\ [Next]_vars => [KeepsRejections]_vars
  BY NextOK DEF StepOK
<1> QED
  BY <1>1, Invariance, PTL DEF Spec, RejectedIsFinal

\* A call that makes an opportunity APPLIED had read a score of at least 70, and the
\* row has one too unless another call came between the two statements of the save.
THEOREM ApplicationFits == Spec => AppliedNeedsFit
<1>1. IInv /\ [Next]_vars => [AppliesFitOnes]_vars
  BY NextOK DEF StepOK
<1> QED
  BY <1>1, Invariance, PTL DEF Spec, AppliedNeedsFit

-----------------------------------------------------------------------------
(* Which role a row is about *)

\* The job of a row, if it has one, is the posting whose company and title the row
\* shows, and its analysis, if it has one, is of that posting.
Coherent(o) ==
    /\ o.job \in {NoJob, o.posting}
    /\ o.analysis # NoAnalysis => o.analysis[2] = o.posting
RowsCoherent == \A i \in DOMAIN tracker : Coherent(tracker[i])

\* An upsert names its job and its analysis.
Named(w) == w.job # NoJob /\ w.analysis # NoAnalysis

\* No step changes the posting of a row.
KeepsPostings == \A i \in DOMAIN tracker : /\ i \in DOMAIN tracker'
                                           /\ tracker'[i].posting = tracker[i].posting

\* Coherent, and about the posting of row i.
Names(o, i) == Coherent(o) /\ i \in DOMAIN tracker /\ o.posting = tracker[i].posting

\* Copies and entities are about the posting of their row.  The names that a request
\* gives fit each other; a request that found a row found one of its own posting.
Naming == {"looking", "merging", "creating"}
CallCoherent(x) ==
    /\ \A i \in DOMAIN x.copies : Names(x.copies[i], i)
    /\ \A i \in DOMAIN x.saving : /\ Names(x.saving[i].entity, i)
                                 /\ Names(x.saving[i].selected, i)
    /\ x.at \in Naming => Coherent(x.want) /\ (x.kind = "upsert" => Named(x.want))
    /\ x.at = "merging" =>
          \A i \in DOMAIN x.copies : x.copies[i].posting = x.want.posting
CallsCoherent == \A c \in Calls : CallCoherent(call[c])

CInv == IInv /\ RowsCoherent /\ CallsCoherent
StepCoherent == (RowsCoherent /\ CallsCoherent)' /\ KeepsPostings

LEMMA DoneCoherent == CallCoherent(Done) /\ CallCoherent(Waiting)
BY DEF CallCoherent, Done, Waiting, Idle, Asked, None, Naming

\* What a call holds stays coherent, as rows keep their postings.
LEMMA CallsStay ==
  ASSUME KeepsPostings, \A d \in Calls : CallCoherent(call'[d])
  PROVE  CallsCoherent'
<1>1. ASSUME NEW x, CallCoherent(x) PROVE CallCoherent(x)'
  BY <1>1 DEF CallCoherent, Names, Coherent, KeepsPostings
<1>2. ASSUME NEW d \in Calls PROVE CallCoherent(call[d])'
  <2>1. PICK y : y = call'[d]
    OBVIOUS
  <2>2. CallCoherent(y)'
    BY <2>1, <1>1
  <2> QED
    BY <2>1, <2>2
<1> QED
  BY <1>2 DEF CallsCoherent

LEMMA PutCoherent ==
  ASSUME CInv, NEW c \in Calls, NEW x, CallCoherent(x), Put(c, x), UNCHANGED tracker
  PROVE  StepCoherent
<1>1. \A d \in Calls : call'[d] = IF d = c THEN x ELSE call[d]
  BY DEF CInv, IInv, Put
<1>2. \A d \in Calls : CallCoherent(call'[d])
  BY <1>1 DEF CInv, CallsCoherent
<1>3. KeepsPostings
  BY DEF KeepsPostings
<1>4. RowsCoherent'
  BY DEF CInv, RowsCoherent
<1> QED
  BY <1>2, <1>3, <1>4, CallsStay DEF StepCoherent

\* What a call that drops copy i still holds.
LEMMA ProceedCoherent ==
  ASSUME CInv, NEW c \in Calls, NEW i, Proceed(c, i)
  PROVE  \E y : CallCoherent(y) /\ Put(c, y)
<1> DEFINE rest == DOMAIN call[c].copies \ {i}
           f == [j \in rest |-> call[c].copies[j]]
           x == Asked(call[c].at, call[c].kind, call[c].want, call[c].reset, f)
<1>1. CallCoherent(call[c])
  BY DEF CInv, CallsCoherent
<1>2. CallCoherent(x)
  BY <1>1 DEF CallCoherent, Asked, None
<1> HIDE DEF x
<1> QED
  BY <1>2, DoneCoherent DEF Proceed, x

\* The SELECT of a save of an entity that is about the posting of the copy.
LEMMA SaveCoherent ==
  ASSUME CInv, NEW c \in Calls, NEW i \in DOMAIN call[c].copies, NEW o,
         Coherent(o), o.posting = call[c].copies[i].posting, Save(c, i, o)
  PROVE  StepCoherent
<1> DEFINE s == [selected |-> tracker[i], entity |-> o]
           g == [j \in {i} |-> s]
           x == [call[c] EXCEPT !.saving = g]
<1>1. CallOK(call[c]) /\ CallCoherent(call[c])
  BY DEF CInv, IInv, CallsCoherent
<1>2. Names(call[c].copies[i], i)
  BY <1>1 DEF CallCoherent
<1>3. Names(o, i) /\ Names(tracker[i], i)
  BY <1>2 DEF Names, CInv, RowsCoherent
<1>4. \A j \in DOMAIN g : j = i /\ g[j].entity = o /\ g[j].selected = tracker[i]
  OBVIOUS
<1> HIDE DEF g
<1>5. x = [at |-> call[c].at, kind |-> call[c].kind, want |-> call[c].want,
           reset |-> call[c].reset, copies |-> call[c].copies, saving |-> g]
  BY <1>1 DEF CallOK
<1>6. CallCoherent(x)
  BY <1>1, <1>3, <1>4, <1>5 DEF CallCoherent
<1>7. Put(c, x) /\ UNCHANGED tracker
  BY DEF Save, g
<1> QED
  BY <1>6, <1>7, PutCoherent

\* A change that keeps the names of the copy.
SameNames(o, p) == o.job = p.job /\ o.posting = p.posting /\ o.analysis = p.analysis

LEMMA RestateCoherent ==
  ASSUME CInv, NEW c \in Calls, NEW i \in DOMAIN call[c].copies, NEW o,
         SameNames(o, call[c].copies[i]), Save(c, i, o)
  PROVE  StepCoherent
<1>1. Coherent(call[c].copies[i])
  BY DEF CInv, CallsCoherent, CallCoherent, Names
<1>2. Coherent(o) /\ o.posting = call[c].copies[i].posting
  BY <1>1 DEF Coherent, SameNames
<1> QED
  BY <1>2, SaveCoherent

\* A row about its own posting takes the place of row i.
LEMMA RowCoherent ==
  ASSUME CInv, NEW i \in 1..Len(tracker), NEW o, Names(o, i),
         tracker' = [tracker EXCEPT ![i] = o],
         \A d \in Calls : CallCoherent(call'[d])
  PROVE  StepCoherent
<1>1. tracker \in Seq(Rows)
  BY DEF CInv, IInv
<1>2. DOMAIN tracker' = DOMAIN tracker
      /\ \A j \in DOMAIN tracker : tracker'[j] = IF j = i THEN o ELSE tracker[j]
  BY <1>1
<1>3. RowsCoherent'
  BY <1>2 DEF CInv, RowsCoherent, Names
<1>4. KeepsPostings
  BY <1>2 DEF KeepsPostings, Names
<1> QED
  BY <1>3, <1>4, CallsStay DEF StepCoherent

\* The UPDATE of a save: each name is that of the entity or that of the row, and both
\* are about the same posting.
LEMMA WriteCoherent ==
  ASSUME CInv, NEW c \in Calls, Write(c)
  PROVE  StepCoherent
<1>1. PICK i \in DOMAIN call[c].saving :
          LET o == Updated(tracker[i], call[c].saving[i].selected, call[c].saving[i].entity)
          IN  IF Conflicts(i, o)
              THEN UNCHANGED tracker /\ Put(c, Done)
              ELSE tracker' = [tracker EXCEPT ![i] = o] /\ Proceed(c, i)
  BY DEF Write
<1> DEFINE row == tracker[i]
           s == call[c].saving[i].selected
           e == call[c].saving[i].entity
           o == Updated(row, s, e)
<1>2. CASE UNCHANGED tracker /\ Put(c, Done)
  BY <1>2, DoneCoherent, PutCoherent
<1>3. CASE tracker' = [tracker EXCEPT ![i] = o] /\ Proceed(c, i)
  <2>1. i \in 1..Len(tracker) /\ row \in Rows /\ s \in Rows /\ e \in Rows
    BY WriteGiven DEF CInv
  <2>2. Names(e, i) /\ Names(s, i) /\ Names(row, i)
    BY DEF CInv, CallsCoherent, CallCoherent, RowsCoherent, Names
  <2>3. /\ o.job \in {e.job, row.job} /\ o.analysis \in {e.analysis, row.analysis}
        /\ o.posting \in {e.posting, row.posting}
    BY <2>1 DEF Updated, Rows
  <2> HIDE DEF o
  <2>4. Names(o, i)
    BY <2>2, <2>3 DEF Names, Coherent
  <2>5. PICK y : CallCoherent(y) /\ Put(c, y)
    BY <1>3, ProceedCoherent
  <2>6. \A d \in Calls : CallCoherent(call'[d])
    BY <2>5 DEF CInv, IInv, CallsCoherent, Put
  <2> QED
    BY <1>3, <2>1, <2>4, <2>6, RowCoherent
<1> QED
  BY <1>1, <1>2, <1>3

\* Rows that have just been read.
LEMMA ReadCoherent ==
  ASSUME CInv, NEW c \in Calls, NEW ids \in SUBSET DOMAIN tracker, NEW at, NEW kind,
         NEW w, NEW reset,
         at \in Naming => Coherent(w) /\ (kind = "upsert" => Named(w)),
         at = "merging" => \A i \in ids : tracker[i].posting = w.posting,
         Put(c, Asked(at, kind, w, reset, Read(ids))), UNCHANGED tracker
  PROVE  StepCoherent
<1> DEFINE x == Asked(at, kind, w, reset, Read(ids))
<1>1. CallCoherent(x)
  BY DEF CInv, RowsCoherent, CallCoherent, Names, Asked, None, Read
<1> HIDE DEF x
<1> QED
  BY <1>1, PutCoherent DEF x

LEMMA TrackCoherent ==
  ASSUME CInv, NEW c \in Calls, NEW kind \in Trackings, NEW w \in Wants, Track(c, kind, w)
  PROVE  StepCoherent
<1>1. w.job \in {NoJob, w.posting} /\ w.posting \in Postings
      /\ (kind = "upsert" => w.job # NoJob)
  BY NoJobAssumption DEF Track, Trackings, Wants
<1>2. w.analysis = <<w.baseline, w.posting>> \/ (w.job = NoJob /\ w.analysis = NoAnalysis)
  BY DEF Track
<1>3. <<w.baseline, w.posting>> # NoAnalysis
  BY NoAnalysisAssumption DEF Wants
<1>4. Coherent(w) /\ (kind = "upsert" => Named(w))
  BY <1>1, <1>2, <1>3 DEF Coherent, Named
<1>5. CASE Put(c, Asked("looking", kind, w, FALSE, Read({})))
  BY <1>1, <1>4, <1>5, ReadCoherent DEF Track
<1>6. CASE \E i \in DOMAIN tracker :
              /\ w.job # NoJob /\ tracker[i].job = w.job
              /\ Put(c, Asked("merging", kind, w, FALSE, Read({i})))
  <2>1. PICK i \in DOMAIN tracker :
              /\ w.job # NoJob /\ tracker[i].job = w.job
              /\ Put(c, Asked("merging", kind, w, FALSE, Read({i})))
    BY <1>6
  <2>2. {i} \in SUBSET DOMAIN tracker /\ UNCHANGED tracker
    BY DEF Track
  <2>3. tracker[i].posting = w.posting
    BY <1>1, <2>1 DEF CInv, RowsCoherent, Coherent
  <2> QED
    BY <1>1, <1>4, <2>1, <2>2, <2>3, ReadCoherent
<1> QED
  BY <1>5, <1>6 DEF Track

LEMMA FindOtherCoherent ==
  ASSUME CInv, NEW c \in Calls, FindOther(c)
  PROVE  StepCoherent
<1> DEFINE kind == call[c].kind
           w == call[c].want
<1>1. /\ Coherent(w) /\ (kind = "upsert" => Named(w))
      /\ UNCHANGED tracker
  BY DEF CInv, CallsCoherent, CallCoherent, FindOther, Naming
<1>2. CASE Put(c, Asked("creating", kind, w, FALSE, Read({})))
  BY <1>1, <1>2, ReadCoherent
<1>3. CASE \E i \in DOMAIN tracker :
              /\ \/ tracker[i].analysis = w.analysis /\ kind = "upsert"
                 \/ tracker[i].posting = w.posting
              /\ Put(c, Asked("merging", kind, w, FALSE, Read({i})))
  <2>1. PICK i \in DOMAIN tracker :
              /\ \/ tracker[i].analysis = w.analysis /\ kind = "upsert"
                 \/ tracker[i].posting = w.posting
              /\ Put(c, Asked("merging", kind, w, FALSE, Read({i})))
    BY <1>3
  <2>2. {i} \in SUBSET DOMAIN tracker
    OBVIOUS
  <2>3. tracker[i].posting = w.posting
    <3>1. kind = "upsert" => w.analysis # NoAnalysis
      BY <1>1 DEF Named
    <3> QED
      BY <1>1, <2>1, <3>1 DEF CInv, RowsCoherent, Coherent
  <2> QED
    BY <1>1, <2>1, <2>2, <2>3, ReadCoherent
<1> QED
  BY <1>2, <1>3 DEF FindOther

\* An entity that is merged is about the posting of its row, which is that of the
\* request.
LEMMA MergeCoherent ==
  ASSUME CInv, NEW c \in Calls, Merge(c)
  PROVE  StepCoherent
<1> DEFINE kind == call[c].kind
           w == call[c].want
<1>1. PICK i \in DOMAIN call[c].copies, fit \in Fits :
          Save(c, i, Merged(call[c].copies[i], kind, w, fit))
  BY DEF Merge
<1> DEFINE o == call[c].copies[i]
           m == Merged(o, kind, w, fit)
<1>2. o \in Rows
  BY CopyOK DEF CInv
<1>3. Coherent(o) /\ Coherent(w) /\ o.posting = w.posting
  BY DEF CInv, CallsCoherent, CallCoherent, Merge, Free, Naming, Names
<1>4. /\ m.job = IF w.job = NoJob THEN o.job ELSE w.job
      /\ m.posting = IF kind = "upsert" THEN w.posting ELSE o.posting
      /\ m.analysis = IF w.analysis = NoAnalysis THEN o.analysis ELSE w.analysis
  BY <1>2 DEF Merged, Rows
<1> HIDE DEF m
<1>5. Coherent(m) /\ m.posting = o.posting
  BY <1>3, <1>4 DEF Coherent
<1> QED
  BY <1>1, <1>5, SaveCoherent DEF m

LEMMA CreateCoherent ==
  ASSUME CInv, NEW c \in Calls, Create(c)
  PROVE  StepCoherent
<1>1. Put(c, Done) /\ Coherent(call[c].want)
  BY DEF Create, CInv, CallsCoherent, CallCoherent, Naming
<1>2. CASE UNCHANGED tracker
  BY <1>1, <1>2, DoneCoherent, PutCoherent
<1>3. CASE \E fit \in Fits, generated \in BOOLEAN :
              tracker' = Append(tracker, Created(call[c].kind, call[c].want, fit, generated))
  <2>1. PICK o : Coherent(o) /\ tracker' = Append(tracker, o)
    <3>1. PICK fit \in Fits, generated \in BOOLEAN :
              tracker' = Append(tracker, Created(call[c].kind, call[c].want, fit, generated))
      BY <1>3
    <3>2. Coherent(Created(call[c].kind, call[c].want, fit, generated))
      BY <1>1 DEF Coherent, Created
    <3> QED
      BY <3>1, <3>2
  <2>2. /\ DOMAIN tracker' = 1..Len(tracker)+1 /\ DOMAIN tracker = 1..Len(tracker)
        /\ tracker'[Len(tracker)+1] = o /\ Len(tracker) \in Nat
        /\ \A i \in 1..Len(tracker) : tracker'[i] = tracker[i]
    <3>1. tracker \in Seq(Rows)
      BY DEF CInv, IInv
    <3> QED
      BY <2>1, <3>1
  <2>3. RowsCoherent'
    <3>1. \A i \in DOMAIN tracker' : i \in 1..Len(tracker) \/ i = Len(tracker) + 1
      BY <2>2
    <3> QED
      BY <2>1, <2>2, <3>1 DEF CInv, RowsCoherent
  <2>4. \A d \in Calls : CallCoherent(call'[d])
    BY <1>1, DoneCoherent DEF CInv, IInv, Put, CallsCoherent
  <2>5. KeepsPostings
    BY <2>2 DEF KeepsPostings
  <2> QED
    BY <2>3, <2>4, <2>5, CallsStay DEF StepCoherent
<1> QED
  BY <1>2, <1>3 DEF Create

LEMMA OpenCoherent ==
  ASSUME CInv, NEW c \in Calls, NEW at \in Places \ Naming, NEW kind, NEW reset,
         NEW ids \in SUBSET DOMAIN tracker,
         Put(c, Asked(at, kind, NoWant, reset, Read(ids))), UNCHANGED tracker
  PROVE  StepCoherent
<1>1. at \notin Naming /\ at # "merging"
  BY DEF Naming
<1> QED
  BY <1>1, ReadCoherent

LEMMA OpenAllCoherent ==
  ASSUME CInv, NEW c \in Calls, NEW at \in Places \ Naming, NEW kind,
         NEW ids \in SUBSET DOMAIN tracker, OpenAll(c, at, kind, ids)
  PROVE  StepCoherent
<1>1. CASE ids = {}
  BY <1>1, DoneCoherent, PutCoherent DEF OpenAll
<1>2. CASE ids # {}
  BY <1>2, OpenCoherent DEF OpenAll
<1> QED
  BY <1>1, <1>2

\* Changes of status, score and age keep the names of the copy.
LEMMA ChangeCoherent ==
  ASSUME CInv, NEW c \in Calls,
         Transition(c) \/ Update(c) \/ SweepOne(c) \/ RescoreOne(c)
  PROVE  StepCoherent
<1>0. \A i \in DOMAIN call[c].copies : call[c].copies[i] \in Rows
  BY CopyOK DEF CInv
<1>1. CASE Transition(c)
  <2>1. PICK i \in DOMAIN call[c].copies, next \in Statuses :
          Save(c, i, [call[c].copies[i] EXCEPT !.status = next, !.old = FALSE,
                                               !.dormant = (next = "DORMANT")])
    BY <1>1 DEF Transition
  <2>2. SameNames([call[c].copies[i] EXCEPT !.status = next, !.old = FALSE,
                                            !.dormant = (next = "DORMANT")],
                  call[c].copies[i])
    BY <1>0 DEF SameNames, Rows
  <2> QED
    BY <2>1, <2>2, RestateCoherent
<1>2. CASE Update(c)
  <2>1. PICK i \in DOMAIN call[c].copies, next \in SimpleStatuses :
          Save(c, i, [call[c].copies[i] EXCEPT
                        !.status = FromSimple(next, call[c].copies[i].score),
                        !.old = FALSE])
    BY <1>2 DEF Update
  <2>2. SameNames([call[c].copies[i] EXCEPT
                        !.status = FromSimple(next, call[c].copies[i].score),
                        !.old = FALSE],
                  call[c].copies[i])
    BY <1>0 DEF SameNames, Rows
  <2> QED
    BY <2>1, <2>2, RestateCoherent
<1>3. CASE SweepOne(c)
  <2>1. PICK i \in DOMAIN call[c].copies :
          Save(c, i, [call[c].copies[i] EXCEPT !.status = "DORMANT", !.dormant = TRUE,
                                               !.old = FALSE])
    BY <1>3 DEF SweepOne
  <2>2. SameNames([call[c].copies[i] EXCEPT !.status = "DORMANT", !.dormant = TRUE,
                                            !.old = FALSE],
                  call[c].copies[i])
    BY <1>0 DEF SameNames, Rows
  <2> QED
    BY <2>1, <2>2, RestateCoherent
<1>4. CASE RescoreOne(c)
  <2>1. CASE \E i \in DOMAIN call[c].copies : Proceed(c, i) /\ UNCHANGED tracker
    <3>1. PICK y : CallCoherent(y) /\ Put(c, y)
      BY <2>1, ProceedCoherent
    <3> QED
      BY <2>1, <3>1, PutCoherent
  <2>2. CASE \E i \in DOMAIN call[c].copies, fit \in Fits :
                Save(c, i, [call[c].copies[i] EXCEPT !.score = Rounded(fit),
                                                     !.band = Band(fit)])
    <3>1. PICK i \in DOMAIN call[c].copies, fit \in Fits :
                Save(c, i, [call[c].copies[i] EXCEPT !.score = Rounded(fit),
                                                     !.band = Band(fit)])
      BY <2>2
    <3>2. SameNames([call[c].copies[i] EXCEPT !.score = Rounded(fit), !.band = Band(fit)],
                    call[c].copies[i])
      BY <1>0 DEF SameNames, Rows
    <3> QED
      BY <3>1, <3>2, RestateCoherent
  <2> QED
    BY <1>4, <2>1, <2>2 DEF RescoreOne
<1> QED
  BY <1>1, <1>2, <1>3, <1>4

LEMMA GrowOldCoherent ==
  ASSUME CInv, NEW i \in DOMAIN tracker, GrowOld(i)
  PROVE  StepCoherent
<1> DEFINE m == [tracker[i] EXCEPT !.old = TRUE]
<1>1. tracker[i] \in Rows /\ tracker' = [tracker EXCEPT ![i] = m] /\ i \in 1..Len(tracker)
  BY DEF CInv, IInv, GrowOld
<1>2. SameNames(m, tracker[i])
  BY <1>1 DEF SameNames, Rows
<1> HIDE DEF m
<1>3. Names(m, i)
  BY <1>2 DEF CInv, RowsCoherent, Coherent, SameNames, Names
<1>4. \A d \in Calls : CallCoherent(call'[d])
  BY DEF CInv, CallsCoherent, GrowOld
<1> QED
  BY <1>1, <1>3, <1>4, RowCoherent

LEMMA NextCoherent == CInv /\ [Next]_vars => StepCoherent
<1> SUFFICES ASSUME CInv, [Next]_vars PROVE StepCoherent
  OBVIOUS
<1>1. ASSUME NEW c \in Calls, NEW kind \in Trackings, NEW w \in Wants, Track(c, kind, w)
      PROVE  StepCoherent
  BY <1>1, TrackCoherent
<1>2. ASSUME NEW c \in Calls, FindOther(c) \/ Merge(c) \/ Create(c)
      PROVE  StepCoherent
  BY <1>2, FindOtherCoherent, MergeCoherent, CreateCoherent
<1>3. ASSUME NEW c \in Calls, NEW kind \in {"transition", "update"}, NEW reset \in BOOLEAN,
             NEW i \in DOMAIN tracker, Open(c, kind, reset, i)
      PROVE  StepCoherent
  <2>1. "changing" \in Places \ Naming /\ {i} \in SUBSET DOMAIN tracker
    BY DEF Places, Naming
  <2>2. Put(c, Asked("changing", kind, NoWant, reset, Read({i}))) /\ UNCHANGED tracker
    BY <1>3 DEF Open
  <2> QED
    BY <2>1, <2>2, OpenCoherent
<1>4. ASSUME NEW c \in Calls, Sweep(c) PROVE StepCoherent
  <2> DEFINE ids == {i \in DOMAIN tracker : Due(tracker[i])}
  <2>1. ids \in SUBSET DOMAIN tracker /\ "sweeping" \in Places \ Naming
    BY DEF Places, Naming
  <2>2. OpenAll(c, "sweeping", "sweep", ids)
    BY <1>4 DEF Sweep
  <2> HIDE DEF ids
  <2> QED
    BY <2>1, <2>2, OpenAllCoherent
<1>5. ASSUME NEW c \in Calls, Rescore(c) PROVE StepCoherent
  <2> DEFINE ids == {i \in DOMAIN tracker : NearBoundary(tracker[i].score)}
  <2>1. ids \in SUBSET DOMAIN tracker /\ "rescoring" \in Places \ Naming
    BY DEF Places, Naming
  <2>2. OpenAll(c, "rescoring", "rescore", ids)
    BY <1>5 DEF Rescore
  <2> HIDE DEF ids
  <2> QED
    BY <2>1, <2>2, OpenAllCoherent
<1>6. ASSUME NEW c \in Calls,
             Transition(c) \/ Update(c) \/ SweepOne(c) \/ RescoreOne(c) \/ Write(c)
      PROVE  StepCoherent
  BY <1>6, ChangeCoherent, WriteCoherent
<1>7. ASSUME NEW i \in DOMAIN tracker, GrowOld(i) PROVE StepCoherent
  BY <1>7, GrowOldCoherent
<1>8. CASE UNCHANGED vars
  <2>1. KeepsPostings /\ RowsCoherent'
    BY <1>8 DEF CInv, RowsCoherent, KeepsPostings, vars
  <2>2. \A d \in Calls : CallCoherent(call'[d])
    BY <1>8 DEF CInv, CallsCoherent, vars
  <2> QED
    BY <2>1, <2>2, CallsStay DEF StepCoherent
<1> QED
  BY <1>1, <1>2, <1>3, <1>4, <1>5, <1>6, <1>7, <1>8 DEF Next

\* Whatever requests without a job merge into, and whichever copies are saved over
\* one another, a row is about one role: its job and its analysis are of the posting
\* whose company and title it shows, and that posting never changes.
THEOREM RoleStays == Spec => []RowsCoherent /\ [][KeepsPostings]_vars
<1>1. Init => RowsCoherent /\ CallsCoherent
  BY DoneCoherent DEF Init, RowsCoherent, CallsCoherent
<1>2. IInv /\ (RowsCoherent /\ CallsCoherent) /\ [Next]_vars =>
        (RowsCoherent /\ CallsCoherent)' /\ [KeepsPostings]_vars
  BY NextCoherent DEF CInv, StepCoherent
<1> QED
  BY <1>1, <1>2, Invariance, PTL DEF Spec
=============================================================================
