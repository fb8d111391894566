------------------------- MODULE BaselineLibraryProofs -------------------------
(***************************************************************************)
(* The theorems about BaselineLibrary, for any number of requests,         *)
(* baselines and version numbers.                                          *)
(*                                                                         *)
(* VersionsAreThere is not inductive: a request writes what it has read    *)
(* long ago.  IInv says of every row in a request's hands what it says of  *)
(* the rows of the table; versions are only added, so it stays true of     *)
(* copies.  HInv adds that a version that is inserted and not committed    *)
(* has a number that no other version of the baseline has.                 *)
(***************************************************************************)
EXTENDS BaselineLibrary, TLAPS

\* The numbers on row r of baseline b are versions of b.
Versioned(r, b) == {r.version, r.versionNumber} \subseteq versions[b]

\* What is true of the record r of a request at step s.
CallFine(s, r) ==
    /\ r.seen <= known
    /\ s \notin {"idle", "uploading", "placing"} => r.baseline \in Uploaded
    /\ s = "archiving" => r.target = 0
    /\ s = "listed" => r.target \in Uploaded \cup {0} /\ r.target # r.baseline
    /\ s \in {"placing", "renumbering", "reparsing", "adding", "editing", "approving"} =>
          r.next \in Numbers
    /\ s \in {"reviving", "renumbering", "copied", "adding", "editing", "approving",
              "scoring"} => Versioned(r.row, r.baseline)

CallInv == \A c \in Calls : CallFine(step[c], call[c])

IInv == TypeOK /\ VersionsAreThere /\ CallInv

-----------------------------------------------------------------------------
(* What the steps do to the table *)

LEMMA UploadedIsBaseline == ASSUME IInv PROVE Uploaded \subseteq Baselines /\ known \in Nat
  BY BaselinesAssumption DEF IInv, TypeOK, Uploaded, Baselines

\* A request that is about a baseline.
LEMMA Working ==
  ASSUME IInv, NEW c \in Calls
  PROVE  /\ call[c] \in CallRecords /\ call[c].seen \in Nat /\ call[c].seen <= known
         /\ call[c].row \in Rows /\ call[c].selected \in Rows
         /\ call[c].next \in Numbers \cup {0} /\ call[c].becomes \in BOOLEAN
         /\ CallFine(step[c], call[c])
         /\ step[c] \notin {"idle", "uploading", "placing"} =>
               /\ call[c].baseline \in Uploaded /\ call[c].baseline \in Baselines
               /\ lib[call[c].baseline] \in Rows
               /\ versions[call[c].baseline] \subseteq Numbers
  BY UploadedIsBaseline, BaselinesAssumption
     DEF IInv, TypeOK, CallInv, CallFine, CallRecords

LEMMA SingleRows ==
  ASSUME NEW L \in [Baselines -> Rows], NEW b, NEW s \in Nat
  PROVE  /\ Single(L, b, s) \in [Baselines -> Rows]
         /\ \A x \in Baselines :
               /\ Single(L, b, s)[x].version = L[x].version
               /\ Single(L, b, s)[x].versionNumber = L[x].versionNumber
               /\ Single(L, b, s)[x].archived = L[x].archived
               /\ Single(L, b, s)[x].current <=> x = b \/ (x > s /\ L[x].current)
<1>1. \A x \in Baselines : L[x] \in Rows /\ x \in Nat
  BY DEF Baselines
<1>2. ASSUME NEW x \in Baselines
      PROVE  /\ Single(L, b, s)[x] \in Rows
             /\ Single(L, b, s)[x].version = L[x].version
             /\ Single(L, b, s)[x].versionNumber = L[x].versionNumber
             /\ Single(L, b, s)[x].archived = L[x].archived
             /\ Single(L, b, s)[x].current <=> x = b \/ (x > s /\ L[x].current)
  <2>1. CASE x = b
    <3>1. Single(L, b, s)[x] = [L[x] EXCEPT !.current = TRUE]
      BY <2>1 DEF Single
    <3> QED BY <1>1, <2>1, <3>1 DEF Rows
  <2>2. CASE x # b /\ x <= s
    <3>1. Single(L, b, s)[x] = [L[x] EXCEPT !.current = FALSE]
      BY <2>2 DEF Single
    <3>2. ~(x > s) /\ L[x] \in Rows
      BY <1>1, <2>2
    <3> QED BY <2>2, <3>1, <3>2 DEF Rows
  <2>3. CASE x # b /\ ~(x <= s)
    BY <1>1, <2>3 DEF Single
  <2> QED BY <2>1, <2>2, <2>3
<1> QED BY <1>2 DEF Single

LEMMA ReplacedRows ==
  ASSUME IInv, NEW b \in Baselines, NEW x, NEW s \in Nat
  PROVE  /\ Replaced(b, x, s) \in [Baselines -> Rows]
         /\ \A y \in Baselines :
               /\ Replaced(b, x, s)[y].version = lib[y].version
               /\ Replaced(b, x, s)[y].versionNumber = lib[y].versionNumber
               /\ Replaced(b, x, s)[y].archived = (y = b \/ (y # x /\ lib[y].archived))
               /\ Replaced(b, x, s)[y].current <=> y = x \/ (y > s /\ lib[y].current)
<1> DEFINE L == Single(lib, x, s)
<1>1. /\ L \in [Baselines -> Rows]
      /\ \A y \in Baselines :
            /\ L[y].version = lib[y].version /\ L[y].versionNumber = lib[y].versionNumber
            /\ L[y].archived = lib[y].archived
            /\ L[y].current <=> y = x \/ (y > s /\ lib[y].current)
  BY SingleRows DEF IInv, TypeOK
<1>2. Replaced(b, x, s) =
         [y \in Baselines |-> [L[y] EXCEPT !.archived = y = b \/ (y # x /\ @)]]
  BY DEF Replaced
<1> HIDE DEF L
<1>3. ASSUME NEW y \in Baselines
      PROVE  /\ Replaced(b, x, s)[y] \in Rows
             /\ Replaced(b, x, s)[y].version = lib[y].version
             /\ Replaced(b, x, s)[y].versionNumber = lib[y].versionNumber
             /\ Replaced(b, x, s)[y].archived = (y = b \/ (y # x /\ lib[y].archived))
             /\ Replaced(b, x, s)[y].current <=> y = x \/ (y > s /\ lib[y].current)
  <2>1. L[y] \in Rows
    BY <1>1
  <2>2. Replaced(b, x, s)[y] = [L[y] EXCEPT !.archived = (y = b \/ (y # x /\ L[y].archived))]
    BY <1>2
  <2> QED BY <1>1, <2>1, <2>2 DEF Rows
<1>4. Replaced(b, x, s) \in [Baselines -> Rows]
  <2>1. \A y \in Baselines : Replaced(b, x, s)[y] \in Rows
    BY <1>3
  <2> QED BY <1>2, <2>1
<1> QED BY <1>3, <1>4

\* The rows are those of the table but for the row r of b; b alone may be current of the
\* rows that setSingleActiveBaseline finds.
Lands(b, r, s) ==
    \/ lib' = [lib EXCEPT ![b] = r]
    \/ r.current /\ lib' = [Single(lib, b, s) EXCEPT ![b] = r]

LEMMA LandsRows ==
  ASSUME IInv, NEW b \in Baselines, NEW r \in Rows, NEW s \in Nat, Lands(b, r, s)
  PROVE  /\ lib' \in [Baselines -> Rows] /\ lib'[b] = r
         /\ \A x \in Baselines \ {b} : /\ lib'[x].version = lib[x].version
                                       /\ lib'[x].versionNumber = lib[x].versionNumber
                                       /\ lib'[x].archived = lib[x].archived
                                       /\ lib'[x].current => lib[x].current
         /\ \/ \A x \in Baselines \ {b} : lib'[x] = lib[x]
            \/ r.current /\ \A x \in Baselines \ {b} : lib'[x].current => x > s
<1>0. lib \in [Baselines -> Rows]
  BY DEF IInv, TypeOK
<1>1. CASE lib' = [lib EXCEPT ![b] = r]
  BY <1>0, <1>1
<1>2. CASE r.current /\ lib' = [Single(lib, b, s) EXCEPT ![b] = r]
  <2> DEFINE L == Single(lib, b, s)
  <2>1. /\ L \in [Baselines -> Rows]
        /\ \A x \in Baselines :
              /\ L[x].version = lib[x].version /\ L[x].versionNumber = lib[x].versionNumber
              /\ L[x].archived = lib[x].archived
              /\ L[x].current <=> x = b \/ (x > s /\ lib[x].current)
    BY <1>0, SingleRows
  <2>2. lib' = [L EXCEPT ![b] = r]
    BY <1>2
  <2> HIDE DEF L
  <2>3. lib' \in [Baselines -> Rows] /\ lib'[b] = r /\ \A x \in Baselines \ {b} : lib'[x] = L[x]
    BY <2>1, <2>2
  <2>4. \A x \in Baselines \ {b} : (lib'[x].current => lib[x].current /\ x > s)
    BY <2>1, <2>3 DEF Baselines
  <2> QED BY <1>2, <2>1, <2>3, <2>4
<1> QED BY <1>1, <1>2 DEF Lands

-----------------------------------------------------------------------------
(* Invariance *)

\* A read keeps IInv if what it leaves in the request's hands is fine.
LEMMA ReadKeeps ==
  ASSUME IInv, NEW c \in Calls, NEW from, NEW to \in Steps, NEW r \in CallRecords,
         Reads(c, from, to, r), CallFine(to, r)
  PROVE  IInv'
<1>1. /\ step' \in [Calls -> Steps] /\ call' \in [Calls -> CallRecords]
      /\ UNCHANGED <<known, lib, versions>>
      /\ \A d \in Calls : \/ step'[d] = step[d] /\ call'[d] = call[d]
                          \/ step'[d] = to /\ call'[d] = r
  BY DEF Reads, IInv, TypeOK
<1>2. \A d \in Calls : CallFine(step'[d], call'[d])
  BY <1>1 DEF IInv, CallInv
<1>3. \A d \in Calls : CallFine(step[d], call[d])'
  <2>1. Uploaded' = Uploaded
    BY <1>1 DEF Uploaded
  <2> QED BY <1>1, <1>2, <2>1 DEF CallFine, Versioned
<1>4. TypeOK'
  BY <1>1 DEF IInv, TypeOK
<1>5. VersionsAreThere'
  BY <1>1 DEF IInv, VersionsAreThere, Uploaded
<1> QED BY <1>3, <1>4, <1>5 DEF IInv, CallInv

\* A write keeps IInv if versions only grow and the rows of the table stay versioned.
Grows ==
    /\ known' \in 0..MaxBaselines /\ known' >= known
    /\ lib' \in [Baselines -> Rows]
    /\ versions' \in [Baselines -> SUBSET Numbers]
    /\ \A b \in Uploaded : versions[b] \subseteq versions'[b]
    /\ \A b \in Uploaded' : {lib'[b].version, lib'[b].versionNumber} \subseteq versions'[b]

LEMMA IdleFine == ASSUME IInv PROVE CallFine("idle", NoCall) /\ NoCall \in CallRecords
  BY UploadedIsBaseline, BaselinesAssumption
     DEF CallFine, NoCall, Begun, NoRow, CallRecords, Rows

LEMMA GrowsKeeps == ASSUME IInv, Grows, NEW c \in Calls, Ends(c) PROVE IInv'
<1>1. /\ step' \in [Calls -> Steps] /\ call' \in [Calls -> CallRecords]
      /\ \A d \in Calls : \/ step'[d] = step[d] /\ call'[d] = call[d]
                          \/ step'[d] = "idle" /\ call'[d] = NoCall
  BY IdleFine DEF Ends, IInv, TypeOK, Steps
<1>2. /\ Uploaded \subseteq Uploaded' /\ known \in Nat /\ known' \in Nat /\ known' >= known
      /\ \A b \in Uploaded : versions[b] \subseteq versions'[b]
  BY UploadedIsBaseline DEF Grows, Uploaded
<1>3. ASSUME NEW d \in Calls PROVE CallFine(step[d], call[d])'
  <2>1. CallFine(step'[d], call'[d]) /\ call'[d].seen \in Nat
    BY <1>1, IdleFine, BaselinesAssumption DEF IInv, CallInv, CallRecords
  <2>2. call'[d].seen <= known'
    BY <1>2, <2>1 DEF CallFine
  <2> QED BY <1>2, <2>1, <2>2 DEF CallFine, Versioned
<1>4. TypeOK'
  BY <1>1 DEF Grows, TypeOK
<1>5. VersionsAreThere'
  BY DEF Grows, VersionsAreThere
<1> QED BY <1>3, <1>4, <1>5 DEF IInv, CallInv

\* Rows that keep their numbers, with versions that are not touched.
LEMMA SameNumbers ==
  ASSUME IInv, UNCHANGED <<known, versions>>, lib' \in [Baselines -> Rows],
         \A b \in Baselines : /\ lib'[b].version = lib[b].version
                              /\ lib'[b].versionNumber = lib[b].versionNumber
  PROVE  Grows
  BY UploadedIsBaseline DEF IInv, TypeOK, Grows, VersionsAreThere, Uploaded

\* One row is written, with numbers that its baseline has or is given by the step.
LEMMA OneRow ==
  ASSUME IInv, known' = known, NEW b \in Uploaded, NEW S \in SUBSET Numbers,
         versions' = [versions EXCEPT ![b] = @ \cup S],
         lib' \in [Baselines -> Rows],
         {lib'[b].version, lib'[b].versionNumber} \subseteq versions[b] \cup S,
         \A x \in Baselines \ {b} : /\ lib'[x].version = lib[x].version
                                    /\ lib'[x].versionNumber = lib[x].versionNumber
  PROVE  Grows
<1>1. Uploaded' = Uploaded /\ Uploaded \subseteq Baselines /\ known \in Nat
  BY UploadedIsBaseline DEF Uploaded
<1>2. /\ versions'[b] = versions[b] \cup S
      /\ \A x \in Baselines \ {b} : versions'[x] = versions[x]
      /\ versions' \in [Baselines -> SUBSET Numbers]
  BY <1>1 DEF IInv, TypeOK
<1>3. \A x \in Uploaded' : {lib'[x].version, lib'[x].versionNumber} \subseteq versions'[x]
  BY <1>1, <1>2 DEF IInv, VersionsAreThere
<1> QED BY <1>1, <1>2, <1>3 DEF Grows, IInv, TypeOK

LEMMA InvInit == Init => IInv
<1> SUFFICES ASSUME Init PROVE IInv
  OBVIOUS
<1>1. TypeOK
  BY BaselinesAssumption DEF Init, TypeOK, NoRow, NoCall, Begun, CallRecords, Rows, Steps
<1>2. VersionsAreThere
  BY DEF Init, VersionsAreThere, Uploaded
<1>3. CallInv
  BY DEF Init, CallInv, CallFine, NoCall, Begun
<1> QED BY <1>1, <1>2, <1>3 DEF IInv

-----------------------------------------------------------------------------
(* The reads *)

LEMMA StartKeeps ==
  ASSUME IInv, NEW c \in Calls, NEW b \in Uploaded,
         ReadStatus(c, b) \/ FindArchived(c, b) \/ ReadForReparse(c, b) \/ ReadRow(c, b)
  PROVE  IInv'
<1>1. /\ b \in Baselines /\ lib[b] \in Rows /\ NoRow \in Rows
      /\ known \in Nat /\ known \in 0..MaxBaselines /\ 0 \in 0..MaxBaselines
  BY UploadedIsBaseline, BaselinesAssumption DEF IInv, TypeOK, NoRow, Rows
<1>2. Versioned(lib[b], b)
  BY DEF IInv, VersionsAreThere, Versioned
<1>3. ASSUME NEW to \in {"setting", "archiving", "restoring", "found"},
             Reads(c, "idle", to, About(b))
      PROVE  IInv'
  <2> DEFINE r == Begun(b, NoRow, 0, FALSE, known)
  <2>1. r \in CallRecords /\ r.baseline = b /\ r.target = 0 /\ r.seen = known
    BY <1>1 DEF Begun, CallRecords
  <2>2. Reads(c, "idle", to, r)
    BY <1>3 DEF About
  <2> HIDE DEF r
  <2>3. CallFine(to, r) /\ to \in Steps
    BY <1>1, <1>3, <2>1 DEF CallFine, Steps
  <2> QED BY <2>1, <2>2, <2>3, ReadKeeps
<1>4. CASE ReadForReparse(c, b)
  <2>1. PICK n \in Numbers : Reads(c, "idle", "reparsing", Begun(b, NoRow, n, FALSE, 0))
    BY <1>4 DEF ReadForReparse
  <2> DEFINE r == Begun(b, NoRow, n, FALSE, 0)
  <2>2. r \in CallRecords /\ r.baseline = b /\ r.next = n /\ r.seen = 0
    BY <1>1 DEF Begun, CallRecords
  <2>3. Reads(c, "idle", "reparsing", r)
    BY <2>1
  <2> HIDE DEF r
  <2>4. CallFine("reparsing", r) /\ "reparsing" \in Steps
    BY <1>1, <2>2 DEF CallFine, Steps
  <2> QED BY <2>2, <2>3, <2>4, ReadKeeps
<1>5. CASE ReadRow(c, b)
  <2> DEFINE r == Begun(b, lib[b], 0, FALSE, 0)
  <2>1. r \in CallRecords /\ r.baseline = b /\ r.row = lib[b] /\ r.seen = 0
    BY <1>1 DEF Begun, CallRecords
  <2>2. Reads(c, "idle", "copied", r)
    BY <1>5 DEF ReadRow
  <2> HIDE DEF r
  <2>3. CallFine("copied", r) /\ "copied" \in Steps
    BY <1>1, <1>2, <2>1 DEF CallFine, Steps
  <2> QED BY <2>1, <2>2, <2>3, ReadKeeps
<1> QED BY <1>3, <1>4, <1>5 DEF ReadStatus, FindArchived

\* What a later read adds to the record of a request.
LEMMA MoreKeeps ==
  ASSUME IInv, NEW c \in Calls,
         \/ CountCurrent(c) \/ NumberBaseline(c) \/ ListBaselines(c) \/ CountForRevival(c)
         \/ ReadForRevival(c) \/ ReadLatest(c) \/ SelectForVersion(c) \/ SelectForScore(c)
  PROVE  IInv'
<1> DEFINE q == call[c]
           b == q.baseline
<1>0. /\ q \in CallRecords /\ q.seen \in Nat /\ q.seen <= known /\ CallFine(step[c], q)
      /\ step[c] \notin {"idle", "uploading", "placing"} =>
            /\ b \in Uploaded /\ b \in Baselines /\ lib[b] \in Rows
            /\ versions[b] \subseteq Numbers
  BY Working
<1>1. known \in Nat /\ known \in 0..MaxBaselines /\ Uploaded \subseteq Baselines
  BY UploadedIsBaseline DEF IInv, TypeOK
<1>2. CASE CountCurrent(c)
  <2> DEFINE r == Begun(0, NoRow, 0, ~AnyCurrent, known)
  <2>1. NoRow \in Rows /\ (~AnyCurrent) \in BOOLEAN
    BY DEF NoRow, Rows, AnyCurrent
  <2>2. r \in CallRecords /\ r.seen = known
    BY <1>1, <2>1 DEF Begun, CallRecords
  <2>3. Reads(c, "idle", "uploading", r)
    BY <1>2 DEF CountCurrent
  <2> HIDE DEF r
  <2>4. CallFine("uploading", r) /\ "uploading" \in Steps
    BY <1>1, <2>2 DEF CallFine, Steps
  <2> QED BY <2>2, <2>3, <2>4, ReadKeeps
<1> HIDE DEF q
<1>3. ASSUME NEW n \in Numbers, NEW to \in {"placing", "renumbering", "adding"},
             NEW from, Reads(c, from, to, [q EXCEPT !.next = n]),
             to = "renumbering" => from = "reviving", to = "adding" => from = "copied"
      PROVE  IInv'
  <2> DEFINE r == [q EXCEPT !.next = n]
  <2>1. /\ r \in CallRecords /\ r.next = n /\ r.seen = q.seen /\ r.row = q.row
        /\ r.baseline = b
    BY <1>0 DEF CallRecords
  <2>2. Reads(c, from, to, r)
    BY <1>3
  <2> HIDE DEF r
  <2>3. step[c] = from
    BY <2>2 DEF Reads
  <2>4. CallFine(to, r) /\ to \in Steps
    BY <1>0, <1>3, <2>1, <2>3 DEF CallFine, Steps
  <2> QED BY <2>1, <2>2, <2>4, ReadKeeps
<1>4. CASE NumberBaseline(c)
  BY <1>3, <1>4 DEF NumberBaseline, q
<1>5. CASE ReadLatest(c)
  BY <1>3, <1>5 DEF ReadLatest, q
<1>6. CASE ListBaselines(c)
  <2>1. PICK r : /\ Reads(c, "archiving", "listed", r)
                 /\ \/ \E x \in Uploaded : x # b /\ r = [q EXCEPT !.target = x]
                    \/ r = q
    BY <1>6 DEF ListBaselines, IsNext, q
  <2>2. step[c] = "archiving" /\ "listed" \in Steps
    BY <2>1 DEF Reads, Steps
  <2>3. q.target = 0 /\ b \in Uploaded /\ b # 0
    BY <1>0, <2>2 DEF CallFine, Uploaded
  <2>4. /\ r \in CallRecords /\ r.seen = q.seen /\ r.baseline = b
        /\ r.target \in Uploaded \cup {0} /\ r.target # b
    BY <1>0, <1>1, <2>1, <2>3 DEF CallRecords
  <2>5. CallFine("listed", r)
    BY <1>0, <2>3, <2>4 DEF CallFine
  <2> QED BY <2>1, <2>2, <2>4, <2>5, ReadKeeps
<1>7. CASE CountForRevival(c)
  <2> DEFINE r == [q EXCEPT !.becomes = ~AnyCurrent]
  <2>1. r \in CallRecords /\ r.seen = q.seen /\ r.baseline = b
    BY <1>0 DEF CallRecords, AnyCurrent
  <2>2. Reads(c, "found", "counted", r)
    BY <1>7 DEF CountForRevival, q
  <2> HIDE DEF r
  <2>3. CallFine("counted", r) /\ "counted" \in Steps
    BY <1>0, <2>1, <2>2 DEF CallFine, Steps, Reads
  <2> QED BY <2>1, <2>2, <2>3, ReadKeeps
<1>8. CASE ReadForRevival(c)
  <2> DEFINE r == [q EXCEPT !.row = lib[b]]
  <2>1. Reads(c, "counted", "reviving", r)
    BY <1>8 DEF ReadForRevival, q
  <2>2. b \in Uploaded /\ lib[b] \in Rows
    BY <1>0, <2>1 DEF Reads
  <2>3. r \in CallRecords /\ r.seen = q.seen /\ r.baseline = b /\ r.row = lib[b]
    BY <1>0, <2>2 DEF CallRecords
  <2> HIDE DEF r
  <2>4. CallFine("reviving", r) /\ "reviving" \in Steps
    BY <1>0, <2>2, <2>3 DEF CallFine, Steps, Versioned, IInv, VersionsAreThere
  <2> QED BY <2>1, <2>3, <2>4, ReadKeeps
<1>9. ASSUME NEW to \in {"editing", "approving", "scoring"}, NEW from \in {"adding", "copied"},
             Reads(c, from, to, Selected(c)), from = "adding" \/ to = "scoring"
      PROVE  IInv'
  <2> DEFINE r == [q EXCEPT !.selected = lib[b]]
  <2>1. Reads(c, from, to, r) /\ step[c] = from
    BY <1>9 DEF Reads, Selected, q
  <2>2. b \in Uploaded /\ lib[b] \in Rows
    BY <1>0, <1>9, <2>1
  <2>3. /\ r \in CallRecords /\ r.seen = q.seen /\ r.baseline = b /\ r.row = q.row
        /\ r.next = q.next
    BY <1>0, <2>2 DEF CallRecords
  <2> HIDE DEF r
  <2>4. CallFine(to, r) /\ to \in Steps
    BY <1>0, <1>9, <2>1, <2>2, <2>3 DEF CallFine, Steps
  <2> QED BY <2>1, <2>3, <2>4, ReadKeeps
<1>10. CASE SelectForVersion(c)
  <2>1. PICK to \in {"editing", "approving"} : Reads(c, "adding", to, Selected(c))
    BY <1>10 DEF SelectForVersion
  <2> DEFINE from == "adding"
  <2>2. from \in {"adding", "copied"} /\ (from = "adding" \/ to = "scoring")
    OBVIOUS
  <2>3. Reads(c, from, to, Selected(c)) /\ to \in {"editing", "approving", "scoring"}
    BY <2>1
  <2> HIDE DEF from
  <2> QED BY <1>9, <2>2, <2>3
<1>11. CASE SelectForScore(c)
  <2>1. Reads(c, "copied", "scoring", Selected(c))
    BY <1>11 DEF SelectForScore
  <2> QED BY <1>9, <2>1
<1> QED BY <1>2, <1>4, <1>5, <1>6, <1>7, <1>8, <1>10, <1>11

-----------------------------------------------------------------------------
(* The writes *)

\* The moments that the UPDATE of the rows of a user may see.
LEMMA FoundMoments ==
  ASSUME IInv, NEW c \in Calls, NEW s \in Found(c)
  PROVE  s \in Nat /\ call[c].seen <= s /\ s <= known
  BY Working, UploadedIsBaseline DEF Found

LEMMA UploadGrows == ASSUME IInv, NEW c \in Calls, Upload(c) PROVE Grows
<1> DEFINE b == known + 1
           n == call[c].next
           r == [archived |-> FALSE, current |-> call[c].becomes, version |-> n,
                 versionNumber |-> n]
<1>1. /\ known \in Nat /\ b \in Baselines /\ known' = b /\ Uploaded' = Uploaded \cup {b}
      /\ b \notin Uploaded /\ known' \in 0..MaxBaselines /\ Uploaded \subseteq Baselines
  BY UploadedIsBaseline, BaselinesAssumption DEF Upload, Baselines, Uploaded
<1>2. n \in Numbers /\ call[c].becomes \in BOOLEAN
  BY Working DEF CallFine, Upload
<1>3. r \in Rows /\ r.version = n /\ r.versionNumber = n
  BY <1>2 DEF Rows
<1>4. PICK s \in Nat : lib' = [lib EXCEPT ![b] = r] \/ lib' = Single([lib EXCEPT ![b] = r], b, s)
  BY FoundMoments, <1>1 DEF Upload
<1> HIDE DEF r
<1> DEFINE L == [lib EXCEPT ![b] = r]
<1>5. L \in [Baselines -> Rows] /\ L[b] = r /\ \A x \in Baselines \ {b} : L[x] = lib[x]
  BY <1>1, <1>3 DEF IInv, TypeOK
<1>6. lib' = L \/ lib' = Single(L, b, s)
  BY <1>4
<1> HIDE DEF L
<1>7. /\ lib' \in [Baselines -> Rows]
      /\ \A x \in Baselines : /\ lib'[x].version = L[x].version
                              /\ lib'[x].versionNumber = L[x].versionNumber
  BY <1>5, <1>6, SingleRows
<1>8. versions' = [versions EXCEPT ![b] = {n}]
  BY DEF Upload
<1> HIDE DEF b, n
<1>9. /\ versions' \in [Baselines -> SUBSET Numbers]
      /\ versions'[b] = {n} /\ \A x \in Baselines \ {b} : versions'[x] = versions[x]
  <2>1. {n} \in SUBSET Numbers
    BY <1>2
  <2> QED BY <1>1, <1>8, <2>1 DEF IInv, TypeOK
<1>10. ASSUME NEW x \in Uploaded'
       PROVE  {lib'[x].version, lib'[x].versionNumber} \subseteq versions'[x]
  <2>1. CASE x = b
    BY <1>1, <1>3, <1>5, <1>7, <1>9, <2>1
  <2>2. CASE x # b
    BY <1>1, <1>5, <1>7, <1>9, <2>2 DEF IInv, VersionsAreThere
  <2> QED BY <2>1, <2>2
<1>11. known' >= known
  BY <1>1 DEF b
<1> QED BY <1>1, <1>7, <1>9, <1>10, <1>11 DEF Grows

LEMMA SingleGrows ==
  ASSUME IInv, NEW c \in Calls, SetCurrent(c) \/ Archive(c) \/ Restore(c)
  PROVE  Grows
<1> DEFINE b == call[c].baseline
<1>0. /\ b \in Baselines /\ lib \in [Baselines -> Rows] /\ UNCHANGED <<known, versions>>
  BY Working DEF SetCurrent, Archive, Restore, IInv, TypeOK
<1>1. PICK s \in Nat : \/ lib' = Single(lib, b, s)
                       \/ lib' = Replaced(b, call[c].target, s)
                       \/ lib' = [Single(lib, b, s) EXCEPT ![b].archived = FALSE]
  BY FoundMoments DEF SetCurrent, Archive, Restore
<1> DEFINE L == Single(lib, b, s)
           M == Replaced(b, call[c].target, s)
<1>2. /\ L \in [Baselines -> Rows]
      /\ \A x \in Baselines : /\ L[x].version = lib[x].version
                              /\ L[x].versionNumber = lib[x].versionNumber
  BY <1>0, SingleRows
<1>3. /\ M \in [Baselines -> Rows]
      /\ \A x \in Baselines : /\ M[x].version = lib[x].version
                              /\ M[x].versionNumber = lib[x].versionNumber
  BY <1>0, ReplacedRows
<1>4. lib' = L \/ lib' = M \/ lib' = [L EXCEPT ![b].archived = FALSE]
  BY <1>1
<1> HIDE DEF L, M
<1>5. CASE lib' = [L EXCEPT ![b].archived = FALSE]
  <2>1. /\ lib' \in [Baselines -> Rows]
        /\ \A x \in Baselines : /\ lib'[x].version = L[x].version
                                /\ lib'[x].versionNumber = L[x].versionNumber
    BY <1>0, <1>2, <1>5 DEF Rows
  <2> QED BY <1>0, <1>2, <2>1, SameNumbers
<1>6. CASE lib' = L
  BY <1>0, <1>2, <1>6, SameNumbers
<1>7. CASE lib' = M
  BY <1>0, <1>3, <1>7, SameNumbers
<1> QED BY <1>4, <1>5, <1>6, <1>7
LEMMA ReviveGrows ==
  ASSUME IInv, NEW c \in Calls, Revive(c) \/ ReviveWithSections(c) PROVE Grows
<1> DEFINE b == call[c].baseline
           q == call[c]
<1>0. /\ b \in Baselines /\ b \in Uploaded /\ lib \in [Baselines -> Rows]
      /\ q.row \in Rows /\ q.becomes \in BOOLEAN /\ Versioned(q.row, b) /\ known' = known
      /\ step[c] = "renumbering" => q.next \in Numbers
  BY Working DEF Revive, ReviveWithSections, IInv, TypeOK, CallFine
<1>1. q.row.current \in BOOLEAN /\ q.row.versionNumber \in Numbers \cup {0}
  BY <1>0 DEF Rows
<1> DEFINE R(n) == [archived |-> FALSE, current |-> q.becomes \/ q.row.current,
                    version |-> n, versionNumber |-> n]
<1>2. \A n \in Numbers \cup {0} : R(n) \in Rows /\ R(n).version = n /\ R(n).versionNumber = n
  BY <1>0, <1>1 DEF Rows
<1>3. \A n : Revived(c, n) => \E s \in Nat : \/ lib' = [lib EXCEPT ![b] = R(n)]
                                             \/ lib' = [Single(lib, b, s) EXCEPT ![b] = R(n)]
  <2>1. \E s \in Nat : TRUE
    OBVIOUS
  <2> QED BY <2>1, FoundMoments DEF Revived
<1> HIDE DEF b, q, R
<1>4. ASSUME NEW n \in Numbers \cup {0}, Revived(c, n)
      PROVE  /\ lib' \in [Baselines -> Rows] /\ lib'[b].version = n /\ lib'[b].versionNumber = n
             /\ \A x \in Baselines \ {b} : /\ lib'[x].version = lib[x].version
                                           /\ lib'[x].versionNumber = lib[x].versionNumber
  <2> DEFINE r == R(n)
  <2>1. r \in Rows /\ r.version = n /\ r.versionNumber = n
    BY <1>2
  <2>2. PICK s \in Nat : \/ lib' = [lib EXCEPT ![b] = r]
                         \/ lib' = [Single(lib, b, s) EXCEPT ![b] = r]
    BY <1>3, <1>4
  <2> HIDE DEF r
  <2> DEFINE L == Single(lib, b, s)
  <2>3. /\ L \in [Baselines -> Rows]
        /\ \A x \in Baselines : /\ L[x].version = lib[x].version
                                /\ L[x].versionNumber = lib[x].versionNumber
    BY <1>0, SingleRows
  <2>4. lib' = [lib EXCEPT ![b] = r] \/ lib' = [L EXCEPT ![b] = r]
    BY <2>2
  <2> HIDE DEF L
  <2> QED BY <1>0, <2>1, <2>3, <2>4
<1>5. CASE Revive(c)
  <2> DEFINE n == q.row.versionNumber
  <2>1. n \in Numbers \cup {0} /\ n \in versions[b] /\ Revived(c, n) /\ versions' = versions
    BY <1>0, <1>1, <1>5 DEF Revive, Versioned, q
  <2>2. {} \in SUBSET Numbers /\ versions' = [versions EXCEPT ![b] = @ \cup {}]
    BY <2>1 DEF IInv, TypeOK
  <2> HIDE DEF n
  <2>3. /\ lib' \in [Baselines -> Rows] /\ {lib'[b].version, lib'[b].versionNumber} \subseteq versions[b] \cup {}
        /\ \A x \in Baselines \ {b} : /\ lib'[x].version = lib[x].version
                                      /\ lib'[x].versionNumber = lib[x].versionNumber
    BY <1>4, <2>1
  <2> QED BY <1>0, <2>2, <2>3, OneRow
<1>6. CASE ReviveWithSections(c)
  <2> DEFINE n == q.next
  <2>1. /\ n \in Numbers /\ Revived(c, n)
        /\ versions' = [versions EXCEPT ![b] = @ \cup {n}]
    BY <1>0, <1>6 DEF ReviveWithSections, q, b
  <2> HIDE DEF n
  <2>2. {n} \in SUBSET Numbers
    BY <2>1
  <2>3. /\ lib' \in [Baselines -> Rows]
        /\ {lib'[b].version, lib'[b].versionNumber} \subseteq versions[b] \cup {n}
        /\ \A x \in Baselines \ {b} : /\ lib'[x].version = lib[x].version
                                      /\ lib'[x].versionNumber = lib[x].versionNumber
    BY <1>4, <2>1
  <2> QED BY <1>0, <2>1, <2>2, <2>3, OneRow
<1> QED BY <1>5, <1>6

LEMMA ReparseGrows == ASSUME IInv, NEW c \in Calls, Reparse(c) PROVE Grows
<1> DEFINE b == call[c].baseline
           n == call[c].next
           r == [archived |-> FALSE, current |-> TRUE, version |-> n, versionNumber |-> n]
<1>1. /\ b \in Uploaded /\ b \in Baselines /\ n \in Numbers /\ known' = known
      /\ versions' = [versions EXCEPT ![b] = @ \cup {n}] /\ lib' = [lib EXCEPT ![b] = r]
  BY Working DEF Reparse, CallFine
<1>2. r \in Rows /\ r.version = n /\ r.versionNumber = n /\ {n} \in SUBSET Numbers
  BY <1>1 DEF Rows
<1> HIDE DEF b, n, r
<1>3. /\ lib' \in [Baselines -> Rows] /\ lib'[b] = r
      /\ \A x \in Baselines \ {b} : lib'[x] = lib[x]
  BY <1>1, <1>2 DEF IInv, TypeOK
<1> QED BY <1>1, <1>2, <1>3, OneRow

\* The entity that a save is given.
Entity(c) ==
    IF step[c] = "editing"
    THEN [archived |-> call[c].row.archived, current |-> TRUE, version |-> call[c].next,
          versionNumber |-> call[c].next]
    ELSE IF step[c] = "approving" THEN [call[c].row EXCEPT !.version = call[c].next]
    ELSE call[c].row

\* The three saves write to their row what the entity has and the SELECT had not.
LEMMA SavedRows ==
  ASSUME IInv, NEW c \in Calls, EditBlocks(c) \/ ApproveAdditions(c) \/ RecordScore(c)
  PROVE  LET b == call[c].baseline
             o == call[c].selected
             e == Entity(c)
         IN  /\ e \in Rows /\ o \in Rows /\ known' = known
             /\ e.archived = call[c].row.archived
             /\ e.current = call[c].row.current \/ (step[c] = "editing" /\ e.current)
             /\ lib' \in [Baselines -> Rows] /\ \A x \in Baselines \ {b} : lib'[x] = lib[x]
             /\ lib'[b].archived = IF e.archived # o.archived THEN e.archived ELSE lib[b].archived
             /\ lib'[b].current = IF e.current # o.current THEN e.current ELSE lib[b].current
             /\ lib'[b].version = IF e.version # o.version THEN e.version ELSE lib[b].version
             /\ lib'[b].versionNumber = IF e.versionNumber # o.versionNumber
                                        THEN e.versionNumber ELSE lib[b].versionNumber
             /\ \/ /\ step[c] \in {"editing", "approving"} /\ e.version = call[c].next
                   /\ call[c].next \in Numbers
                   /\ e.versionNumber \in {call[c].next, call[c].row.versionNumber}
                   /\ versions' = [versions EXCEPT ![b] = @ \cup {call[c].next}]
                \/ step[c] = "scoring" /\ e = call[c].row /\ versions' = versions
<1> DEFINE q == call[c]
           b == q.baseline
           o == q.selected
           e == Entity(c)
<1>0. /\ b \in Baselines /\ o \in Rows /\ q.row \in Rows /\ lib[b] \in Rows /\ known' = known
      /\ step[c] \in {"editing", "approving"} => q.next \in Numbers
      /\ lib \in [Baselines -> Rows]
  BY Working DEF EditBlocks, ApproveAdditions, RecordScore, Writes, CallFine, IInv, TypeOK
<1>1. /\ e \in Rows /\ e.archived = q.row.archived
      /\ e.current = q.row.current \/ (step[c] = "editing" /\ e.current)
      /\ \/ /\ step[c] \in {"editing", "approving"} /\ e.version = q.next
            /\ q.next \in Numbers
            /\ e.versionNumber \in {q.next, q.row.versionNumber}
            /\ versions' = [versions EXCEPT ![b] = @ \cup {q.next}]
         \/ step[c] = "scoring" /\ e = q.row /\ versions' = versions
  <2>1. CASE EditBlocks(c)
    BY <1>0, <2>1 DEF EditBlocks, Entity, Rows, AddsVersion
  <2>2. CASE ApproveAdditions(c)
    BY <1>0, <2>2 DEF ApproveAdditions, Entity, Rows, AddsVersion
  <2>3. CASE RecordScore(c)
    BY <1>0, <2>3 DEF RecordScore, Entity
  <2> QED BY <2>1, <2>2, <2>3
<1>2. lib' = [lib EXCEPT ![b] = Updated(lib[b], o, e)]
  BY DEF EditBlocks, ApproveAdditions, RecordScore, Writes, Entity
<1> HIDE DEF q, b, o, e
<1>3. /\ Updated(lib[b], o, e) \in Rows
      /\ Updated(lib[b], o, e).archived =
            IF e.archived # o.archived THEN e.archived ELSE lib[b].archived
      /\ Updated(lib[b], o, e).current =
            IF e.current # o.current THEN e.current ELSE lib[b].current
      /\ Updated(lib[b], o, e).version =
            IF e.version # o.version THEN e.version ELSE lib[b].version
      /\ Updated(lib[b], o, e).versionNumber =
            IF e.versionNumber # o.versionNumber THEN e.versionNumber ELSE lib[b].versionNumber
  BY <1>0, <1>1 DEF Updated, Rows
<1> DEFINE u == Updated(lib[b], o, e)
<1>4. lib' = [lib EXCEPT ![b] = u] /\ u \in Rows
  BY <1>2, <1>3
<1> HIDE DEF u
<1>5. /\ lib' \in [Baselines -> Rows] /\ lib'[b] = u
      /\ \A x \in Baselines \ {b} : lib'[x] = lib[x]
  BY <1>0, <1>4
<1> QED BY <1>0, <1>1, <1>3, <1>5 DEF q, b, o, e, u

LEMMA SavedGrows ==
  ASSUME IInv, NEW c \in Calls, EditBlocks(c) \/ ApproveAdditions(c) \/ RecordScore(c)
  PROVE  Grows
<1> DEFINE b == call[c].baseline
           o == call[c].selected
           e == Entity(c)
           n == call[c].next
           w == call[c].row
<1>0. b \in Uploaded /\ b \in Baselines /\ Versioned(w, b)
  BY Working DEF EditBlocks, ApproveAdditions, RecordScore, CallFine
<1>1. /\ known' = known
      /\ lib' \in [Baselines -> Rows] /\ \A x \in Baselines \ {b} : lib'[x] = lib[x]
      /\ lib'[b].version = IF e.version # o.version THEN e.version ELSE lib[b].version
      /\ lib'[b].versionNumber = IF e.versionNumber # o.versionNumber
                                 THEN e.versionNumber ELSE lib[b].versionNumber
      /\ \/ /\ e.version = n /\ n \in Numbers /\ e.versionNumber \in {n, w.versionNumber}
            /\ versions' = [versions EXCEPT ![b] = @ \cup {n}]
         \/ e = w /\ versions' = versions
  BY SavedRows
<1> HIDE DEF b, o, e, n, w
<1>2. PICK S \in SUBSET Numbers :
         /\ versions' = [versions EXCEPT ![b] = @ \cup S]
         /\ {e.version, e.versionNumber} \subseteq versions[b] \cup S
  <2>1. CASE /\ e.version = n /\ n \in Numbers /\ e.versionNumber \in {n, w.versionNumber}
             /\ versions' = [versions EXCEPT ![b] = @ \cup {n}]
    <3>1. {n} \in SUBSET Numbers
      BY <2>1
    <3> QED BY <1>0, <2>1, <3>1 DEF Versioned
  <2>2. CASE e = w /\ versions' = versions
    <3>1. {} \in SUBSET Numbers /\ versions' = [versions EXCEPT ![b] = @ \cup {}]
      BY <2>2 DEF IInv, TypeOK
    <3> QED BY <1>0, <2>2, <3>1 DEF Versioned
  <2> QED BY <1>1, <2>1, <2>2
<1>3. {lib[b].version, lib[b].versionNumber} \subseteq versions[b]
  BY <1>0 DEF IInv, VersionsAreThere
<1>4. {lib'[b].version, lib'[b].versionNumber} \subseteq versions[b] \cup S
  BY <1>1, <1>2, <1>3
<1> QED BY <1>0, <1>1, <1>2, <1>4, OneRow

\* The steps of a request: its reads, its writes and its failure.
StartsWork(c) ==
    \E b \in Uploaded : \/ ReadStatus(c, b) \/ FindArchived(c, b)
                        \/ ReadForReparse(c, b) \/ ReadRow(c, b)
ReadsMore(c) ==
    \/ CountCurrent(c) \/ NumberBaseline(c) \/ ListBaselines(c) \/ CountForRevival(c)
    \/ ReadForRevival(c) \/ ReadLatest(c) \/ SelectForVersion(c) \/ SelectForScore(c)
Chooses(c) == SetCurrent(c) \/ Archive(c) \/ Restore(c)
Revives(c) == Revive(c) \/ ReviveWithSections(c)
Saves(c) == EditBlocks(c) \/ ApproveAdditions(c) \/ RecordScore(c)

LEMMA StepsOfCalls ==
  ASSUME [Next]_vars
  PROVE  \/ UNCHANGED vars
         \/ \E c \in Calls : \/ StartsWork(c) \/ ReadsMore(c) \/ Upload(c) \/ Chooses(c)
                             \/ Revives(c) \/ Reparse(c) \/ Saves(c) \/ Fail(c)
  BY DEF Next, StartsWork, ReadsMore, Chooses, Revives, Saves

LEMMA InvNext == IInv /\ [Next]_vars => IInv'
<1> SUFFICES ASSUME IInv, [Next]_vars PROVE IInv'
  OBVIOUS
<1>1. ASSUME NEW c \in Calls, StartsWork(c) PROVE IInv'
  BY <1>1, StartKeeps DEF StartsWork
<1>2. ASSUME NEW c \in Calls, ReadsMore(c) PROVE IInv'
  BY <1>2, MoreKeeps DEF ReadsMore
<1>3. ASSUME NEW c \in Calls, Upload(c) PROVE IInv'
  BY <1>3, UploadGrows, GrowsKeeps DEF Upload
<1>4. ASSUME NEW c \in Calls, Chooses(c) PROVE IInv'
  BY <1>4, SingleGrows, GrowsKeeps DEF Chooses, SetCurrent, Archive, Restore
<1>5. ASSUME NEW c \in Calls, Revives(c) PROVE IInv'
  BY <1>5, ReviveGrows, GrowsKeeps DEF Revives, Revive, ReviveWithSections
<1>6. ASSUME NEW c \in Calls, Reparse(c) PROVE IInv'
  BY <1>6, ReparseGrows, GrowsKeeps DEF Reparse
<1>7. ASSUME NEW c \in Calls, Saves(c) PROVE IInv'
  BY <1>7, SavedGrows, GrowsKeeps DEF Saves, EditBlocks, ApproveAdditions, RecordScore, Writes
<1>8. ASSUME NEW c \in Calls, Fail(c) PROVE IInv'
  <2>1. lib' \in [Baselines -> Rows] /\ UNCHANGED <<known, lib, versions>>
    BY <1>8 DEF Fail, IInv, TypeOK
  <2> QED BY <1>8, <2>1, SameNumbers, GrowsKeeps DEF Fail
<1>9. CASE UNCHANGED vars
  BY <1>9 DEF vars, IInv, TypeOK, VersionsAreThere, CallInv, CallFine, Versioned, Uploaded
<1> QED BY <1>1, <1>2, <1>3, <1>4, <1>5, <1>6, <1>7, <1>8, <1>9, StepsOfCalls

\* The inductive invariant: numbers in the table and in the hands of requests alike are
\* those of versions that are there.
THEOREM Invariance == Spec => []IInv
  BY InvInit, InvNext, PTL DEF Spec

\* Every variable stays in its domain, for any number of requests and baselines.
THEOREM TypeCorrect == Spec => []TypeOK
<1>1. IInv => TypeOK
  BY DEF IInv
<1> QED BY <1>1, Invariance, PTL

\* The numbers on a baseline are those of versions that are there, whatever versions are
\* added side by side and whatever older columns are saved.
THEOREM VersionsStay == Spec => []VersionsAreThere
<1>1. IInv => VersionsAreThere
  BY DEF IInv
<1> QED BY <1>1, Invariance, PTL

-----------------------------------------------------------------------------
(* The current baseline *)

\* One row is written, and it counts as current if it did; or it does now.
LEMMA OneRowCurrent ==
  ASSUME IInv, AnyCurrent, known' = known, NEW b \in Baselines,
         \A x \in Baselines \ {b} : lib'[x] = lib[x],
         lib[b].current /\ ~lib[b].archived => lib'[b].current /\ ~lib'[b].archived
  PROVE  AnyCurrent'
<1>1. PICK x \in Uploaded : lib[x].current /\ ~lib[x].archived
  BY DEF AnyCurrent
<1>2. Uploaded' = Uploaded /\ x \in Baselines
  BY UploadedIsBaseline DEF Uploaded
<1>3. lib'[x].current /\ ~lib'[x].archived
  BY <1>1, <1>2
<1> QED BY <1>2, <1>3 DEF AnyCurrent

LEMMA UploadCurrent ==
  ASSUME IInv, NEW c \in Calls, Upload(c), AnyCurrent PROVE AnyCurrent'
<1> DEFINE b == known + 1
           n == call[c].next
           r == [archived |-> FALSE, current |-> call[c].becomes, version |-> n,
                 versionNumber |-> n]
<1>1. /\ known \in Nat /\ b \in Baselines /\ Uploaded' = Uploaded \cup {b}
      /\ b \notin Uploaded /\ Uploaded \subseteq Baselines
  BY UploadedIsBaseline, BaselinesAssumption DEF Upload, Baselines, Uploaded
<1>2. n \in Numbers /\ call[c].becomes \in BOOLEAN
  BY Working DEF CallFine, Upload
<1>3. r \in Rows /\ r.current = call[c].becomes /\ ~r.archived
  BY <1>2 DEF Rows
<1>4. \/ lib' = [lib EXCEPT ![b] = r]
      \/ \E s \in Nat : lib' = Single([lib EXCEPT ![b] = r], b, s)
  BY FoundMoments DEF Upload
<1> HIDE DEF b, r
<1>5. CASE lib' = [lib EXCEPT ![b] = r]
  <2>1. PICK x \in Uploaded : lib[x].current /\ ~lib[x].archived
    BY DEF AnyCurrent
  <2>2. lib'[x] = lib[x]
    BY <1>1, <1>5 DEF IInv, TypeOK
  <2> QED BY <1>1, <2>1, <2>2 DEF AnyCurrent
<1>6. ASSUME NEW s \in Nat, lib' = Single([lib EXCEPT ![b] = r], b, s) PROVE AnyCurrent'
  <2> DEFINE L == [lib EXCEPT ![b] = r]
  <2>1. L \in [Baselines -> Rows] /\ L[b] = r
    BY <1>1, <1>3 DEF IInv, TypeOK
  <2>2. lib' = Single(L, b, s)
    BY <1>6
  <2> HIDE DEF L
  <2>3. lib'[b].current /\ lib'[b].archived = L[b].archived
    BY <1>1, <2>1, <2>2, SingleRows
  <2> QED BY <1>1, <1>3, <2>1, <2>3 DEF AnyCurrent
<1> QED BY <1>4, <1>5, <1>6

\* Setting, archiving and restoring leave a current baseline, or none but archived ones,
\* or were overtaken.
LEMMA ChosenCurrent ==
  ASSUME IInv, NEW c \in Calls, Chooses(c)
  PROVE  AnyCurrent' \/ Overtaken(c) \/ \A b \in Uploaded : lib'[b].archived
<1> DEFINE b == call[c].baseline
<1>0. /\ b \in Baselines /\ b \in Uploaded /\ lib \in [Baselines -> Rows]
      /\ Uploaded \subseteq Baselines /\ Uploaded' = Uploaded
  BY Working, UploadedIsBaseline
     DEF Chooses, SetCurrent, Archive, Restore, IInv, TypeOK, Uploaded
<1>1. CASE SetCurrent(c)
  <2>1. PICK s \in Nat : lib' = Single(lib, b, s)
    BY <1>1, FoundMoments DEF SetCurrent
  <2>2. lib'[b].current /\ lib'[b].archived = lib[b].archived
    BY <1>0, <2>1, SingleRows
  <2>3. step[c] = "setting"
    BY <1>1 DEF SetCurrent
  <2> QED BY <1>0, <2>2, <2>3 DEF Overtaken, AnyCurrent
<1>2. CASE Restore(c)
  <2>1. PICK s \in Nat : lib' = [Single(lib, b, s) EXCEPT ![b].archived = FALSE]
    BY <1>2, FoundMoments DEF Restore
  <2> DEFINE L == Single(lib, b, s)
  <2>2. L \in [Baselines -> Rows] /\ L[b].current
    BY <1>0, SingleRows
  <2>3. lib' = [L EXCEPT ![b].archived = FALSE]
    BY <2>1
  <2> HIDE DEF L
  <2>4. lib'[b].current /\ ~lib'[b].archived
    BY <1>0, <2>2, <2>3 DEF Rows
  <2> QED BY <1>0, <2>4 DEF AnyCurrent
<1>3. CASE Archive(c)
  <2> DEFINE x == call[c].target
  <2>1. PICK s \in Nat : lib' = Replaced(b, x, s)
    BY <1>3, FoundMoments DEF Archive
  <2>2. step[c] = "listed" /\ x \in Uploaded \cup {0} /\ x # b
    BY <1>3, Working DEF Archive, CallFine
  <2>3. \A y \in Baselines :
           /\ lib'[y].archived = (y = b \/ (y # x /\ lib[y].archived))
           /\ lib'[y].current <=> y = x \/ (y > s /\ lib[y].current)
    BY <1>0, <2>1, ReplacedRows
  <2>4. CASE x \in Uploaded
    <3>1. lib'[x].current /\ ~lib'[x].archived
      BY <1>0, <2>2, <2>3, <2>4
    <3> QED BY <1>0, <2>4, <3>1 DEF AnyCurrent
  <2>5. CASE x = 0
    <3>1. CASE \E y \in Uploaded \ {b} : ~lib[y].archived
      BY <2>2, <2>5, <3>1 DEF Overtaken
    <3>2. CASE \A y \in Uploaded \ {b} : lib[y].archived
      <4>1. \A y \in Uploaded : y # x
        BY <2>5 DEF Uploaded
      <4> QED BY <1>0, <2>3, <3>2, <4>1
    <3> QED BY <3>1, <3>2
  <2> QED BY <2>2, <2>4, <2>5
<1> QED BY <1>1, <1>2, <1>3 DEF Chooses
\* The row that a revival writes.
LEMMA RevivedRow ==
  ASSUME IInv, NEW c \in Calls, Revives(c)
  PROVE  LET b == call[c].baseline
             p == call[c].becomes
         IN  \E r \in Rows, s \in Found(c) :
                /\ ~r.archived /\ (r.current <=> p \/ call[c].row.current)
                /\ \/ ~p /\ lib' = [lib EXCEPT ![b] = r]
                   \/ p /\ lib' = [Single(lib, b, s) EXCEPT ![b] = r]
<1> DEFINE b == call[c].baseline
           p == call[c].becomes
           w == call[c].row
           R(n) == [archived |-> FALSE, current |-> p \/ w.current, version |-> n,
                    versionNumber |-> n]
<1>1. /\ p \in BOOLEAN /\ w \in Rows /\ known \in Found(c)
      /\ step[c] = "renumbering" => call[c].next \in Numbers
  BY Working, UploadedIsBaseline DEF CallFine, Found
<1>2. PICK n \in Numbers \cup {0} : Revived(c, n)
  BY <1>1 DEF Revives, Revive, ReviveWithSections, Rows
<1>3. R(n) \in Rows /\ ~R(n).archived /\ (R(n).current <=> p \/ w.current)
  BY <1>1 DEF Rows
<1>4. \E s \in Found(c) : \/ ~p /\ lib' = [lib EXCEPT ![b] = R(n)]
                          \/ p /\ lib' = [Single(lib, b, s) EXCEPT ![b] = R(n)]
  BY <1>1, <1>2 DEF Revived
<1> DEFINE r == R(n)
<1>5. /\ r \in Rows /\ ~r.archived /\ (r.current <=> p \/ w.current)
      /\ \E s \in Found(c) : \/ ~p /\ lib' = [lib EXCEPT ![b] = r]
                             \/ p /\ lib' = [Single(lib, b, s) EXCEPT ![b] = r]
  BY <1>3, <1>4
<1> HIDE DEF r
<1> QED BY <1>5

LEMMA RevivedCurrent ==
  ASSUME IInv, NEW c \in Calls, Revives(c), AnyCurrent PROVE AnyCurrent' \/ Overtaken(c)
<1> DEFINE b == call[c].baseline
           p == call[c].becomes
<1>0. /\ b \in Baselines /\ b \in Uploaded /\ lib \in [Baselines -> Rows]
      /\ known' = known /\ Uploaded' = Uploaded
      /\ step[c] \in {"reviving", "renumbering"}
  BY Working DEF Revives, Revive, ReviveWithSections, IInv, TypeOK, Uploaded
<1>1. PICK r \in Rows, s \in Found(c) :
         /\ ~r.archived /\ (r.current <=> p \/ call[c].row.current)
         /\ \/ ~p /\ lib' = [lib EXCEPT ![b] = r]
            \/ p /\ lib' = [Single(lib, b, s) EXCEPT ![b] = r]
  BY RevivedRow
<1>2. CASE p /\ lib' = [Single(lib, b, s) EXCEPT ![b] = r]
  <2>1. lib'[b] = r
    BY <1>0, <1>2 DEF Single
  <2> QED BY <1>0, <1>1, <1>2, <2>1 DEF AnyCurrent
<1>3. CASE ~p /\ lib' = [lib EXCEPT ![b] = r]
  <2>1. CASE Crossed(lib[b], call[c].row, {"archived", "current"})
    BY <1>0, <2>1 DEF Overtaken
  <2>2. CASE ~Crossed(lib[b], call[c].row, {"archived", "current"})
    <3>1. lib[b].current = call[c].row.current
      BY <2>2 DEF Crossed
    <3>2. lib'[b] = r /\ \A x \in Baselines \ {b} : lib'[x] = lib[x]
      BY <1>0, <1>3
    <3>3. lib[b].current => lib'[b].current /\ ~lib'[b].archived
      BY <1>1, <3>1, <3>2
    <3> QED BY <1>0, <3>2, <3>3, OneRowCurrent
  <2> QED BY <2>1, <2>2
<1> QED BY <1>1, <1>2, <1>3

LEMMA ReparsedCurrent == ASSUME IInv, NEW c \in Calls, Reparse(c) PROVE AnyCurrent'
<1> DEFINE b == call[c].baseline
<1>0. b \in Baselines /\ b \in Uploaded /\ Uploaded' = Uploaded
  BY Working DEF Reparse, Uploaded
<1>1. lib'[b].current /\ ~lib'[b].archived
  BY <1>0 DEF Reparse, IInv, TypeOK
<1> QED BY <1>0, <1>1 DEF AnyCurrent

LEMMA SavedCurrent ==
  ASSUME IInv, NEW c \in Calls, Saves(c), AnyCurrent PROVE AnyCurrent' \/ Overtaken(c)
<1> DEFINE b == call[c].baseline
           o == call[c].selected
           e == Entity(c)
           w == call[c].row
<1>0. b \in Baselines /\ b \in Uploaded /\ lib[b] \in Rows /\ step[c] \in {"editing", "approving", "scoring"}
  BY Working DEF Saves, EditBlocks, ApproveAdditions, RecordScore
<1>1. /\ known' = known /\ \A x \in Baselines \ {b} : lib'[x] = lib[x]
      /\ e.archived = w.archived /\ (e.current = w.current \/ e.current)
      /\ lib'[b].archived = IF e.archived # o.archived THEN e.archived ELSE lib[b].archived
      /\ lib'[b].current = IF e.current # o.current THEN e.current ELSE lib[b].current
  BY SavedRows DEF Saves
<1>2. CASE Crossed(lib[b], w, {"archived", "current"})
  BY <1>0, <1>2 DEF Overtaken
<1>3. CASE ~Crossed(lib[b], w, {"archived", "current"})
  <2>1. lib[b].archived = w.archived /\ lib[b].current = w.current
    BY <1>3 DEF Crossed
  <2> HIDE DEF b, o, e, w
  <2>2. lib[b].current /\ ~lib[b].archived => lib'[b].current /\ ~lib'[b].archived
    BY <1>1, <2>1
  <2> QED BY <1>0, <1>1, <2>2, OneRowCurrent
<1> QED BY <1>2, <1>3

\* What CurrentIsKept says of a step.
KeepsCurrent ==
    AnyCurrent /\ ~AnyCurrent' =>
        \/ \A b \in Uploaded : lib'[b].archived
        \/ \E c \in Calls : Overtaken(c) /\ step'[c] = "idle"

LEMMA Ended == ASSUME IInv, NEW c \in Calls, Ends(c) PROVE step'[c] = "idle"
  BY DEF IInv, TypeOK, Ends

LEMMA CurrentNext == IInv /\ [Next]_vars => KeepsCurrent
<1> SUFFICES ASSUME IInv, [Next]_vars, AnyCurrent
             PROVE  \/ AnyCurrent' \/ \A b \in Uploaded : lib'[b].archived
                    \/ \E c \in Calls : Overtaken(c) /\ step'[c] = "idle"
  BY DEF KeepsCurrent
<1>1. ASSUME UNCHANGED <<known, lib>> PROVE AnyCurrent'
  BY <1>1 DEF AnyCurrent, Uploaded
<1>2. ASSUME NEW c \in Calls, StartsWork(c) \/ ReadsMore(c) \/ Fail(c)
      PROVE  AnyCurrent'
  <2>1. UNCHANGED <<known, lib>>
    BY <1>2 DEF StartsWork, ReadsMore, Fail, ReadStatus, FindArchived, ReadForReparse, ReadRow,
       CountCurrent, NumberBaseline, ListBaselines, CountForRevival, ReadForRevival,
       ReadLatest, SelectForVersion, SelectForScore, Reads
  <2> QED BY <1>1, <2>1
<1>3. ASSUME NEW c \in Calls, Upload(c) PROVE AnyCurrent'
  BY <1>3, UploadCurrent
<1>4. ASSUME NEW c \in Calls, Chooses(c) \/ Revives(c) \/ Reparse(c) \/ Saves(c)
      PROVE  /\ AnyCurrent' \/ Overtaken(c) \/ \A b \in Uploaded : lib'[b].archived
             /\ step'[c] = "idle"
  <2>1. Ends(c)
    BY <1>4 DEF Chooses, SetCurrent, Archive, Restore, Revives, Revive, ReviveWithSections,
       Reparse, Saves, EditBlocks, ApproveAdditions, RecordScore, Writes
  <2> QED BY <1>4, <2>1, Ended, ChosenCurrent, RevivedCurrent, ReparsedCurrent, SavedCurrent
<1>5. CASE UNCHANGED vars
  BY <1>1, <1>5 DEF vars
<1> QED BY <1>2, <1>3, <1>4, <1>5, StepsOfCalls

\* A user who has a current baseline loses it only when the last baseline is archived, or
\* to a request that commits what others have overtaken since it read.
THEOREM CurrentStays == Spec => CurrentIsKept
<1>1. IInv /\ [Next]_vars => [KeepsCurrent]_vars
  BY CurrentNext
<1>2. [][KeepsCurrent]_vars <=> CurrentIsKept
  BY PTL DEF CurrentIsKept, KeepsCurrent
<1> QED BY <1>1, <1>2, Invariance, PTL DEF Spec

-----------------------------------------------------------------------------
(* One current baseline, and the latest version *)

AtMostOneCurrent ==
    \A a, b \in Uploaded : lib[a].current /\ lib[b].current => a = b

\* A version is added to a baseline that becomes current, whatever others are.
AddsToAnother ==
    \E b \in Uploaded : versions'[b] # versions[b] /\ lib'[b].current /\ ~lib[b].current

\* An upload has been committed since c began, and c may not clear its row.
Misses(c) ==
    /\ step[c] \in {"placing", "setting", "listed", "restoring", "reviving", "renumbering"}
    /\ call[c].seen < known

\* Two baselines become current only by a request that others have overtaken, an upload
\* among them, or by one that adds a version to a baseline that was not current (reparse,
\* updateBlockPolicies).
SecondCurrent ==
    [][AtMostOneCurrent /\ ~AtMostOneCurrent' =>
          \/ AddsToAnother
          \/ \E c \in Calls : (Overtaken(c) \/ Misses(c)) /\ step'[c] = "idle"]_vars

\* No version of b is newer than the one on its row.
ShowsLatest(b) == \A n \in versions[b] : n <= lib[b].version

\* The row of c's baseline may come to show an older version: c revives it, or another
\* version is newer than the one c adds, or c writes back the version that it has read.
Outdates(c) ==
    LET b == call[c].baseline
    IN  \/ step[c] \in {"reviving", "renumbering"}
        \/ /\ step[c] \in {"reparsing", "editing", "approving"}
           /\ \E m \in versions[b] : m > call[c].next
        \/ step[c] = "scoring" /\ lib[b].version # call[c].row.version

\* A row stops showing the latest version of its baseline only so.
LatestStays ==
    [][\A b \in Uploaded : ShowsLatest(b) /\ ~ShowsLatest(b)' =>
          \E c \in Calls : Outdates(c) /\ step'[c] = "idle"]_vars

\* A version that is inserted and not committed: no other has its number, and the row that
\* the save has SELECTed shows versions that are there.
Adding == {"editing", "approving"}
HeldFine(s, r, c) ==
    s \in Adding =>
        /\ r.next \notin versions[r.baseline]
        /\ Versioned(r.selected, r.baseline)
        /\ \A d \in Calls \ {c} : step[d] \in Adding =>
              call[d].baseline # r.baseline \/ call[d].next # r.next
Holding == \A c \in Calls : HeldFine(step[c], call[c], c)

HInv == IInv /\ Holding

LEMMA ReadHolds ==
  ASSUME HInv, NEW c \in Calls, NEW from, NEW to, NEW r, Reads(c, from, to, r),
         HeldFine(to, r, c)
  PROVE  Holding'
<1>1. /\ UNCHANGED <<known, lib, versions>>
      /\ step'[c] = to /\ call'[c] = r
      /\ \A d \in Calls \ {c} : step'[d] = step[d] /\ call'[d] = call[d]
  BY DEF Reads, HInv, IInv, TypeOK
<1>2. ASSUME NEW d \in Calls, step'[d] \in Adding
      PROVE  /\ call'[d].next \notin versions[call'[d].baseline]
             /\ Versioned(call'[d].selected, call'[d].baseline)
             /\ \A x \in Calls \ {d} : step'[x] \in Adding =>
                   call'[x].baseline # call'[d].baseline \/ call'[x].next # call'[d].next
  <2>1. CASE d = c
    BY <1>1, <1>2, <2>1 DEF HeldFine
  <2>2. CASE d # c
    <3>1. /\ call[d].next \notin versions[call[d].baseline]
          /\ Versioned(call[d].selected, call[d].baseline)
          /\ \A x \in Calls \ {d} : step[x] \in Adding =>
                call[x].baseline # call[d].baseline \/ call[x].next # call[d].next
      BY <1>1, <1>2, <2>2 DEF HInv, Holding, HeldFine
    <3>2. to \in Adding => call[d].baseline # r.baseline \/ call[d].next # r.next
      BY <1>1, <1>2, <2>2 DEF HeldFine
    <3> QED BY <1>1, <2>2, <3>1, <3>2
  <2> QED BY <2>1, <2>2
<1> QED BY <1>1, <1>2 DEF Holding, HeldFine, Versioned

LEMMA WriteHolds ==
  ASSUME HInv, NEW c \in Calls, Ends(c),
         \A b \in Uploaded : versions[b] \subseteq versions'[b],
         \A d \in Calls \ {c} : step[d] \in Adding =>
            call[d].next \notin versions'[call[d].baseline]
  PROVE  Holding'
<1>1. /\ step'[c] = "idle" /\ call'[c] = NoCall
      /\ \A d \in Calls \ {c} : step'[d] = step[d] /\ call'[d] = call[d]
  BY DEF Ends, HInv, IInv, TypeOK
<1>2. ASSUME NEW d \in Calls, step'[d] \in Adding
      PROVE  /\ call'[d].next \notin versions'[call'[d].baseline]
             /\ {call'[d].selected.version, call'[d].selected.versionNumber}
                   \subseteq versions'[call'[d].baseline]
             /\ \A x \in Calls \ {d} : step'[x] \in Adding =>
                   call'[x].baseline # call'[d].baseline \/ call'[x].next # call'[d].next
  <2>1. d # c /\ step[d] \in Adding /\ call'[d] = call[d]
    BY <1>1, <1>2 DEF Adding
  <2>2. /\ call[d].next \notin versions'[call[d].baseline]
        /\ call[d].baseline \in Uploaded
    BY <2>1, Working DEF HInv, Adding
  <2>3. /\ {call[d].selected.version, call[d].selected.versionNumber}
              \subseteq versions[call[d].baseline]
        /\ \A x \in Calls \ {d} : step[x] \in Adding =>
              call[x].baseline # call[d].baseline \/ call[x].next # call[d].next
    BY <2>1 DEF HInv, Holding, HeldFine, Versioned
  <2>4. \A x \in Calls \ {d} : step'[x] \in Adding => call'[x] = call[x] /\ step[x] \in Adding
    BY <1>1 DEF Adding
  <2> QED BY <2>1, <2>2, <2>3, <2>4
<1> QED BY <1>2 DEF Holding, HeldFine, Versioned

\* The version that c adds to b is not one that another has inserted.
Free(c) ==
    \A d \in Calls \ {c} : step[d] \in Adding =>
        call[d].baseline # call[c].baseline \/ call[d].next # call[c].next

LEMMA AddHolds ==
  ASSUME HInv, NEW c \in Calls, Ends(c), AddsVersion(c), Free(c),
         step[c] \in {"renumbering", "reparsing", "editing", "approving"}
  PROVE  Holding'
<1> DEFINE b == call[c].baseline
           n == call[c].next
<1>1. /\ Uploaded \subseteq Baselines /\ versions \in [Baselines -> SUBSET Numbers]
      /\ b \in Uploaded /\ n \in Numbers
      /\ \A d \in Calls : step[d] \in Adding => /\ call[d].baseline \in Uploaded
                                               /\ call[d].next \notin versions[call[d].baseline]
  BY UploadedIsBaseline, Working DEF HInv, IInv, TypeOK, Holding, HeldFine, Adding, CallFine
<1>2. versions' = [versions EXCEPT ![b] = @ \cup {n}]
  BY DEF AddsVersion
<1>3. \A x \in Uploaded : versions[x] \subseteq versions'[x]
  BY <1>1, <1>2
<1>4. ASSUME NEW d \in Calls \ {c}, step[d] \in Adding
      PROVE  call[d].next \notin versions'[call[d].baseline]
  BY <1>1, <1>2, <1>4 DEF Free
<1> QED BY <1>3, <1>4, WriteHolds

LEMMA SameHolds ==
  ASSUME HInv, NEW c \in Calls, Ends(c), versions' = versions PROVE Holding'
<1>1. \A d \in Calls \ {c} : step[d] \in Adding => call[d].next \notin versions'[call[d].baseline]
  BY DEF HInv, Holding, HeldFine
<1> QED BY <1>1, WriteHolds

LEMMA UploadHolds == ASSUME HInv, NEW c \in Calls, Upload(c) PROVE Holding'
<1>1. known + 1 \notin Uploaded /\ versions' = [versions EXCEPT ![known + 1] = {call[c].next}]
  BY UploadedIsBaseline DEF Upload, HInv, Uploaded
<1>2. \A d \in Calls : step[d] \in Adding => /\ call[d].baseline \in Uploaded
                                            /\ call[d].next \notin versions[call[d].baseline]
  BY Working DEF HInv, Holding, HeldFine, Adding
<1>3. \A b \in Uploaded : versions'[b] = versions[b]
  BY <1>1, UploadedIsBaseline DEF HInv, IInv, TypeOK
<1>4. /\ \A b \in Uploaded : versions[b] \subseteq versions'[b]
      /\ \A d \in Calls \ {c} : step[d] \in Adding =>
            call[d].next \notin versions'[call[d].baseline]
  BY <1>2, <1>3
<1> QED BY <1>4, WriteHolds DEF Upload

LEMMA HoldNext == HInv /\ [Next]_vars => HInv'
<1> SUFFICES ASSUME HInv, [Next]_vars PROVE Holding'
  BY InvNext DEF HInv
<1>0. IInv
  BY DEF HInv
<1>1. ASSUME NEW c \in Calls, NEW from, NEW to, NEW r, Reads(c, from, to, r), to \notin Adding
      PROVE  Holding'
  BY <1>1, ReadHolds DEF HeldFine
<1>2. ASSUME NEW c \in Calls, StartsWork(c) \/ (ReadsMore(c) /\ ~SelectForVersion(c))
      PROVE  Holding'
  <2>1. /\ \A s \in {"setting", "archiving", "restoring", "found", "reparsing", "copied",
                     "uploading", "placing", "renumbering", "listed", "counted", "reviving",
                     "adding", "scoring"} : s \notin Adding
    BY DEF Adding
  <2>2. ASSUME NEW b \in Uploaded,
               \/ ReadStatus(c, b) \/ FindArchived(c, b) \/ ReadForReparse(c, b) \/ ReadRow(c, b)
        PROVE  Holding'
    BY <1>1, <2>1, <2>2 DEF ReadStatus, FindArchived, ReadForReparse, ReadRow
  <2>3. CASE CountCurrent(c) \/ NumberBaseline(c) \/ ReadLatest(c)
    BY <1>1, <2>1, <2>3 DEF CountCurrent, NumberBaseline, ReadLatest
  <2>4. CASE ListBaselines(c)
    BY <1>1, <2>1, <2>4 DEF ListBaselines
  <2>5. CASE CountForRevival(c) \/ ReadForRevival(c) \/ SelectForScore(c)
    BY <1>1, <2>1, <2>5 DEF CountForRevival, ReadForRevival, SelectForScore
  <2> QED BY <1>2, <2>2, <2>3, <2>4, <2>5 DEF StartsWork, ReadsMore
<1>3. ASSUME NEW c \in Calls, SelectForVersion(c) PROVE Holding'
  <2> DEFINE q == call[c]
             b == q.baseline
             r == [q EXCEPT !.selected = lib[b]]
  <2>1. PICK to \in Adding : Reads(c, "adding", to, r)
    BY <1>3 DEF SelectForVersion, Selected, Adding
  <2>2. step[c] = "adding" /\ Inserts(c, b)
    BY <1>3 DEF SelectForVersion
  <2>3. q \in CallRecords /\ b \in Uploaded
    BY <1>0, <2>2, Working
  <2>4. r.next = q.next /\ r.baseline = b /\ r.selected = lib[b]
    BY <2>3 DEF CallRecords
  <2>5. q.next \notin versions[b]
    BY <2>2 DEF Inserts
  <2>6. \A d \in Calls \ {c} : step[d] \in Adding => call[d].baseline # b \/ call[d].next # q.next
    BY <2>2 DEF Inserts, Held, Adding
  <2>7. Versioned(lib[b], b)
    BY <1>0, <2>3 DEF IInv, VersionsAreThere, Versioned
  <2> HIDE DEF q, b, r
  <2>8. HeldFine(to, r, c)
    BY <2>4, <2>5, <2>6, <2>7 DEF HeldFine
  <2> QED BY <2>1, <2>8, ReadHolds
<1>4. ASSUME NEW c \in Calls, Upload(c) PROVE Holding'
  BY <1>4, UploadHolds
<1>5. ASSUME NEW c \in Calls, Chooses(c) \/ Revive(c) \/ RecordScore(c) \/ Fail(c) PROVE Holding'
  BY <1>5, SameHolds DEF Chooses, SetCurrent, Archive, Restore, Revive, RecordScore, Writes, Fail
<1>6. ASSUME NEW c \in Calls, ReviveWithSections(c) \/ Reparse(c) PROVE Holding'
  <2>1. step[c] \in {"renumbering", "reparsing"} /\ Ends(c) /\ AddsVersion(c)
    BY <1>6 DEF ReviveWithSections, Reparse, AddsVersion
  <2>2. Free(c)
    BY <1>6 DEF ReviveWithSections, Reparse, Inserts, Held, Adding, Free
  <2> QED BY <2>1, <2>2, AddHolds
<1>7. ASSUME NEW c \in Calls, EditBlocks(c) \/ ApproveAdditions(c) PROVE Holding'
  <2>1. step[c] \in Adding /\ Ends(c) /\ AddsVersion(c)
    BY <1>7 DEF EditBlocks, ApproveAdditions, Writes, Adding
  <2>2. Free(c)
    BY <2>1 DEF HInv, Holding, HeldFine, Free
  <2> QED BY <2>1, <2>2, AddHolds DEF Adding
<1>8. CASE UNCHANGED vars
  BY <1>8 DEF vars, HInv, Holding, HeldFine, Versioned
<1>9. ASSUME NEW c \in Calls,
             \/ StartsWork(c) \/ ReadsMore(c) \/ Upload(c) \/ Chooses(c)
             \/ Revives(c) \/ Reparse(c) \/ Saves(c) \/ Fail(c)
      PROVE  Holding'
  BY <1>2, <1>3, <1>4, <1>5, <1>6, <1>7, <1>9 DEF Revives, Saves
<1> QED BY <1>8, <1>9, StepsOfCalls

LEMMA HoldInvariance == Spec => []HInv
<1>1. Init => HInv
  BY InvInit DEF HInv, Holding, HeldFine, Adding, Init
<1> QED BY <1>1, HoldNext, PTL DEF Spec

\* No baseline becomes current, or one and no other is.
NoneMore == \A b \in Uploaded' : lib'[b].current => b \in Uploaded /\ lib[b].current
Alone(x) == \A b \in Uploaded' : lib'[b].current => b = x

\* What the two properties say of a step of c.
CurrentOk(c) ==
    NoneMore \/ (\E x : Alone(x)) \/ Overtaken(c) \/ Misses(c) \/ AddsToAnother
LatestOk(c) == Outdates(c) \/ \A b \in Uploaded : ShowsLatest(b) => ShowsLatest(b)'

\* A request that began when the last upload was there clears every row.
LEMMA AllFound ==
  ASSUME IInv, NEW c \in Calls, NEW s \in Found(c), ~(call[c].seen < known)
  PROVE  \A x \in Uploaded : ~(x > s)
  BY Working, UploadedIsBaseline DEF Found, Uploaded

LEMMA SameLatest ==
  ASSUME IInv, NEW c \in Calls,
         \A b \in Uploaded : versions'[b] = versions[b] /\ lib'[b].version = lib[b].version
  PROVE  LatestOk(c)
  BY DEF LatestOk, ShowsLatest

LEMMA UploadOk == ASSUME IInv, NEW c \in Calls, Upload(c) PROVE CurrentOk(c) /\ LatestOk(c)
<1> DEFINE b == known + 1
           n == call[c].next
           r == [archived |-> FALSE, current |-> call[c].becomes, version |-> n,
                 versionNumber |-> n]
           L == [lib EXCEPT ![b] = r]
<1>1. /\ known \in Nat /\ b \in Baselines /\ Uploaded' = Uploaded \cup {b}
      /\ b \notin Uploaded /\ Uploaded \subseteq Baselines /\ step[c] = "placing"
  BY UploadedIsBaseline, BaselinesAssumption DEF Upload, Baselines, Uploaded
<1>2. n \in Numbers /\ call[c].becomes \in BOOLEAN
  BY Working DEF CallFine, Upload
<1>3. r \in Rows /\ (r.current <=> call[c].becomes)
  BY <1>2 DEF Rows
<1>4. /\ \/ ~call[c].becomes /\ lib' = L
         \/ call[c].becomes /\ \E s \in Found(c) : lib' = Single(L, b, s)
      /\ versions' = [versions EXCEPT ![b] = {n}]
  BY DEF Upload
<1> HIDE DEF b, r
<1>5. L \in [Baselines -> Rows] /\ L[b] = r /\ \A x \in Baselines \ {b} : L[x] = lib[x]
  BY <1>1, <1>3 DEF IInv, TypeOK
<1> HIDE DEF L
<1>6. \A x \in Uploaded : versions'[x] = versions[x]
  BY <1>1, <1>4 DEF IInv, TypeOK
<1>7. CASE ~call[c].becomes /\ lib' = L
  <2>1. NoneMore
    BY <1>1, <1>3, <1>5, <1>7 DEF NoneMore
  <2>2. LatestOk(c)
    BY <1>1, <1>5, <1>6, <1>7, SameLatest
  <2> QED BY <2>1, <2>2 DEF CurrentOk
<1>8. CASE call[c].becomes /\ \E s \in Found(c) : lib' = Single(L, b, s)
  <2>1. PICK s \in Found(c) : lib' = Single(L, b, s)
    BY <1>8
  <2>2. s \in Nat
    BY FoundMoments
  <2>3. \A x \in Baselines : /\ lib'[x].version = L[x].version
                             /\ lib'[x].current <=> x = b \/ (x > s /\ L[x].current)
    BY <1>5, <2>1, <2>2, SingleRows
  <2>4. LatestOk(c)
    BY <1>1, <1>5, <1>6, <2>3, SameLatest
  <2>5. CASE call[c].seen < known
    BY <1>1, <2>4, <2>5 DEF CurrentOk, Misses
  <2>6. CASE ~(call[c].seen < known)
    <3>1. \A x \in Uploaded : ~(x > s)
      BY <2>6, AllFound
    <3>2. Alone(b)
      BY <1>1, <2>3, <3>1 DEF Alone
    <3> QED BY <2>4, <3>2 DEF CurrentOk
  <2> QED BY <2>5, <2>6
<1> QED BY <1>4, <1>7, <1>8

LEMMA ChosenOk == ASSUME IInv, NEW c \in Calls, Chooses(c) PROVE CurrentOk(c) /\ LatestOk(c)
<1> DEFINE b == call[c].baseline
<1>0. /\ b \in Baselines /\ lib \in [Baselines -> Rows] /\ Uploaded \subseteq Baselines
      /\ UNCHANGED <<known, versions>> /\ Uploaded' = Uploaded
      /\ step[c] \in {"setting", "listed", "restoring"}
  BY Working, UploadedIsBaseline
     DEF Chooses, SetCurrent, Archive, Restore, IInv, TypeOK, Uploaded
<1>1. PICK x : \E s \in Found(c) : \/ lib' = Single(lib, x, s)
                                   \/ lib' = Replaced(b, x, s)
                                   \/ lib' = [Single(lib, x, s) EXCEPT ![b].archived = FALSE]
  <2>1. CASE SetCurrent(c)
    BY <2>1 DEF SetCurrent
  <2>2. CASE Archive(c)
    BY <2>2 DEF Archive
  <2>3. CASE Restore(c)
    BY <2>3 DEF Restore
  <2> QED BY <2>1, <2>2, <2>3 DEF Chooses
<1>10. PICK s \in Found(c) : \/ lib' = Single(lib, x, s)
                          \/ lib' = Replaced(b, x, s)
                          \/ lib' = [Single(lib, x, s) EXCEPT ![b].archived = FALSE]
  BY <1>1
<1>2. s \in Nat
  BY FoundMoments
<1> DEFINE L == Single(lib, x, s)
           M == Replaced(b, x, s)
<1>3. /\ L \in [Baselines -> Rows]
      /\ \A y \in Baselines : /\ L[y].version = lib[y].version
                              /\ L[y].current <=> y = x \/ (y > s /\ lib[y].current)
  BY <1>0, <1>2, SingleRows
<1>4. /\ M \in [Baselines -> Rows]
      /\ \A y \in Baselines : /\ M[y].version = lib[y].version
                              /\ M[y].current <=> y = x \/ (y > s /\ lib[y].current)
  BY <1>0, <1>2, ReplacedRows
<1>5. lib' = L \/ lib' = M \/ lib' = [L EXCEPT ![b].archived = FALSE]
  BY <1>10
<1> HIDE DEF L, M
<1>6. \A y \in Baselines : /\ lib'[y].version = lib[y].version
                           /\ lib'[y].current <=> y = x \/ (y > s /\ lib[y].current)
  <2>1. CASE lib' = [L EXCEPT ![b].archived = FALSE]
    <3>1. \A y \in Baselines : lib'[y].version = L[y].version /\ lib'[y].current = L[y].current
      BY <1>0, <1>3, <2>1 DEF Rows
    <3> QED BY <1>3, <3>1
  <2>2. CASE lib' = L
    BY <1>3, <2>2
  <2>3. CASE lib' = M
    BY <1>4, <2>3
  <2> QED BY <1>5, <2>1, <2>2, <2>3
<1>7. LatestOk(c)
  BY <1>0, <1>6, SameLatest
<1>8. CASE call[c].seen < known
  BY <1>0, <1>7, <1>8 DEF CurrentOk, Misses
<1>9. CASE ~(call[c].seen < known)
  <2>1. \A y \in Uploaded : ~(y > s)
    BY <1>9, AllFound
  <2>2. Alone(x)
    BY <1>0, <1>6, <2>1 DEF Alone
  <2> QED BY <1>7, <2>2 DEF CurrentOk
<1> QED BY <1>8, <1>9

LEMMA RevivedOk == ASSUME IInv, NEW c \in Calls, Revives(c) PROVE CurrentOk(c) /\ LatestOk(c)
<1> DEFINE b == call[c].baseline
           p == call[c].becomes
<1>0. /\ b \in Baselines /\ b \in Uploaded /\ lib \in [Baselines -> Rows]
      /\ Uploaded' = Uploaded /\ Uploaded \subseteq Baselines
      /\ step[c] \in {"reviving", "renumbering"}
  BY Working, UploadedIsBaseline
     DEF Revives, Revive, ReviveWithSections, IInv, TypeOK, Uploaded
<1>1. PICK r \in Rows, s \in Found(c) :
         /\ ~r.archived /\ (r.current <=> p \/ call[c].row.current)
         /\ \/ ~p /\ lib' = [lib EXCEPT ![b] = r]
            \/ p /\ lib' = [Single(lib, b, s) EXCEPT ![b] = r]
  BY RevivedRow
<1>2. LatestOk(c)
  BY <1>0 DEF LatestOk, Outdates
<1>3. CASE ~p /\ lib' = [lib EXCEPT ![b] = r]
  <2>1. CASE Crossed(lib[b], call[c].row, {"archived", "current"})
    BY <1>0, <1>2, <2>1 DEF Overtaken, CurrentOk
  <2>2. CASE ~Crossed(lib[b], call[c].row, {"archived", "current"})
    <3>1. lib[b].current = call[c].row.current
      BY <2>2 DEF Crossed
    <3>2. lib'[b] = r /\ \A x \in Baselines \ {b} : lib'[x] = lib[x]
      BY <1>0, <1>3
    <3>3. NoneMore
      BY <1>0, <1>1, <1>3, <3>1, <3>2 DEF NoneMore
    <3> QED BY <1>2, <3>3 DEF CurrentOk
  <2> QED BY <2>1, <2>2
<1>4. CASE p /\ lib' = [Single(lib, b, s) EXCEPT ![b] = r]
  <2>1. CASE call[c].seen < known
    BY <1>0, <1>2, <2>1 DEF CurrentOk, Misses
  <2>2. CASE ~(call[c].seen < known)
    <3> DEFINE L == Single(lib, b, s)
    <3>1. s \in Nat /\ \A y \in Uploaded : ~(y > s)
      BY <2>2, AllFound, FoundMoments
    <3>2. /\ L \in [Baselines -> Rows]
          /\ \A y \in Baselines : L[y].current <=> y = b \/ (y > s /\ lib[y].current)
      BY <1>0, <3>1, SingleRows
    <3>3. lib' = [L EXCEPT ![b] = r]
      BY <1>4
    <3> HIDE DEF L
    <3>4. \A y \in Uploaded \ {b} : ~lib'[y].current
      BY <1>0, <3>1, <3>2, <3>3
    <3>5. Alone(b)
      BY <1>0, <3>4 DEF Alone
    <3> QED BY <1>2, <3>5 DEF CurrentOk
  <2> QED BY <2>1, <2>2
<1> QED BY <1>1, <1>3, <1>4

\* The row of b is written, and versions S are added to it.
LEMMA WriteLatest ==
  ASSUME IInv, NEW b \in Baselines, NEW S,
         versions' = [versions EXCEPT ![b] = @ \cup S],
         \A x \in Baselines \ {b} : lib'[x] = lib[x],
         ShowsLatest(b) => \A n \in versions[b] \cup S : n <= lib'[b].version
  PROVE  \A x \in Uploaded : ShowsLatest(x) => ShowsLatest(x)'
<1>1. Uploaded \subseteq Baselines
  BY UploadedIsBaseline
<1>2. versions'[b] = versions[b] \cup S /\ \A x \in Baselines \ {b} : versions'[x] = versions[x]
  BY DEF IInv, TypeOK
<1> QED BY <1>1, <1>2 DEF ShowsLatest

LEMMA ReparsedOk == ASSUME IInv, NEW c \in Calls, Reparse(c) PROVE CurrentOk(c) /\ LatestOk(c)
<1> DEFINE b == call[c].baseline
           n == call[c].next
<1>0. /\ b \in Baselines /\ b \in Uploaded /\ n \in Numbers /\ n \notin versions[b]
      /\ versions[b] \subseteq Numbers /\ Uploaded' = Uploaded /\ Uploaded \subseteq Baselines
      /\ step[c] = "reparsing"
  BY Working, UploadedIsBaseline DEF Reparse, Inserts, CallFine, Uploaded
<1>1. /\ versions' = [versions EXCEPT ![b] = @ \cup {n}]
      /\ lib'[b].current /\ lib'[b].version = n
      /\ \A x \in Baselines \ {b} : lib'[x] = lib[x]
  BY <1>0 DEF Reparse, IInv, TypeOK
<1>2. LatestOk(c)
  <2>1. CASE \E m \in versions[b] : m > n
    BY <1>0, <2>1 DEF LatestOk, Outdates
  <2>2. CASE \A m \in versions[b] : ~(m > n)
    <3>1. \A m \in versions[b] \cup {n} : m <= lib'[b].version
      BY <1>0, <1>1, <2>2 DEF Numbers
    <3>2. \A x \in Uploaded : ShowsLatest(x) => ShowsLatest(x)'
      BY <1>0, <1>1, <3>1, WriteLatest
    <3> QED BY <3>2 DEF LatestOk
  <2> QED BY <2>1, <2>2
<1>3. versions'[b] # versions[b]
  BY <1>0, <1>1 DEF IInv, TypeOK
<1>4. CASE lib[b].current
  <2>1. NoneMore
    BY <1>0, <1>1, <1>4 DEF NoneMore
  <2> QED BY <1>2, <2>1 DEF CurrentOk
<1>5. CASE ~lib[b].current
  BY <1>0, <1>1, <1>2, <1>3, <1>5 DEF CurrentOk, AddsToAnother
<1> QED BY <1>4, <1>5

LEMMA SavedOk == ASSUME HInv, NEW c \in Calls, Saves(c) PROVE CurrentOk(c) /\ LatestOk(c)
<1> DEFINE b == call[c].baseline
           o == call[c].selected
           e == Entity(c)
           n == call[c].next
           w == call[c].row
<1>0. /\ IInv /\ b \in Baselines /\ b \in Uploaded /\ Uploaded \subseteq Baselines
      /\ step[c] \in {"editing", "approving", "scoring"} /\ versions[b] \subseteq Numbers
      /\ lib \in [Baselines -> Rows]
  BY Working, UploadedIsBaseline
     DEF HInv, IInv, TypeOK, Saves, EditBlocks, ApproveAdditions, RecordScore
<1>1. /\ known' = known /\ \A x \in Baselines \ {b} : lib'[x] = lib[x]
      /\ e.current = w.current \/ step[c] = "editing"
      /\ lib'[b].current = IF e.current # o.current THEN e.current ELSE lib[b].current
      /\ lib'[b].version = IF e.version # o.version THEN e.version ELSE lib[b].version
      /\ \/ /\ step[c] \in {"editing", "approving"} /\ e.version = n /\ n \in Numbers
            /\ versions' = [versions EXCEPT ![b] = @ \cup {n}]
         \/ step[c] = "scoring" /\ e = w /\ versions' = versions
  BY <1>0, SavedRows DEF Saves
<1>2. step[c] \in {"editing", "approving"} => n \notin versions[b] /\ o.version \in versions[b]
  BY DEF HInv, Holding, HeldFine, Adding, Versioned
<1>3. Uploaded' = Uploaded
  BY <1>1 DEF Uploaded
<1>4. step[c] = "editing" => versions'[b] # versions[b]
  <2>1. versions \in [Baselines -> SUBSET Numbers]
    BY <1>0 DEF IInv, TypeOK
  <2> HIDE DEF b, n
  <2> QED BY <1>0, <1>1, <1>2, <2>1
<1>5. CurrentOk(c)
  <2>1. CASE Crossed(lib[b], w, {"archived", "current"})
    BY <1>0, <2>1 DEF CurrentOk, Overtaken
  <2>2. CASE ~Crossed(lib[b], w, {"archived", "current"})
    <3>1. lib[b].current = w.current
      BY <2>2 DEF Crossed
    <3> HIDE DEF b, o, e, w
    <3>2. CASE lib'[b].current /\ ~lib[b].current
      <4>1. step[c] = "editing"
        BY <1>1, <3>1, <3>2
      <4> QED BY <1>0, <1>4, <3>2, <4>1 DEF CurrentOk, AddsToAnother
    <3>3. CASE ~(lib'[b].current /\ ~lib[b].current)
      BY <1>0, <1>1, <1>3, <3>3 DEF CurrentOk, NoneMore
    <3> QED BY <3>2, <3>3
  <2> QED BY <2>1, <2>2
<1>6. LatestOk(c)
  <2>1. CASE step[c] = "scoring"
    <3>1. CASE lib[b].version # w.version
      BY <2>1, <3>1 DEF LatestOk, Outdates
    <3>2. CASE lib[b].version = w.version
      <4> HIDE DEF b, o, e, w
      <4>1. lib'[b].version = lib[b].version /\ versions' = versions
        BY <1>1, <2>1, <3>2
      <4>2. \A x \in Uploaded : versions'[x] = versions[x] /\ lib'[x].version = lib[x].version
        BY <1>0, <1>1, <4>1
      <4> QED BY <1>0, <4>2, SameLatest
    <3> QED BY <3>1, <3>2
  <2>2. CASE step[c] \in {"editing", "approving"} /\ \E m \in versions[b] : m > n
    BY <2>2 DEF LatestOk, Outdates
  <2>3. CASE step[c] \in {"editing", "approving"} /\ ~\E m \in versions[b] : m > n
    <3> HIDE DEF b, o, e, n, w
    <3>1. /\ lib'[b].version = n /\ n \in Numbers
          /\ versions' = [versions EXCEPT ![b] = @ \cup {n}]
      BY <1>1, <1>2, <2>3
    <3>2. \A m \in versions[b] \cup {n} : m <= n
      BY <1>0, <2>3, <3>1 DEF Numbers
    <3>3. ShowsLatest(b) => \A m \in versions[b] \cup {n} : m <= lib'[b].version
      BY <3>1, <3>2
    <3>4. \A x \in Uploaded : ShowsLatest(x) => ShowsLatest(x)'
      BY <1>0, <1>1, <3>1, <3>3, WriteLatest
    <3> QED BY <3>4 DEF LatestOk
  <2> QED BY <1>0, <2>1, <2>2, <2>3
<1> QED BY <1>5, <1>6

\* A step of nobody, or of one request.
LEMMA StepOk ==
  ASSUME HInv, [Next]_vars
  PROVE  \/ UNCHANGED <<known, lib, versions>>
         \/ \E c \in Calls : CurrentOk(c) /\ LatestOk(c) /\ step'[c] = "idle"
<1>0. IInv
  BY DEF HInv
<1>1. ASSUME NEW c \in Calls, StartsWork(c) \/ ReadsMore(c) \/ Fail(c)
      PROVE  UNCHANGED <<known, lib, versions>>
  BY <1>1 DEF StartsWork, ReadsMore, Fail, ReadStatus, FindArchived, ReadForReparse, ReadRow,
     CountCurrent, NumberBaseline, ListBaselines, CountForRevival, ReadForRevival,
     ReadLatest, SelectForVersion, SelectForScore, Reads
<1>2. ASSUME NEW c \in Calls, Upload(c) \/ Chooses(c) \/ Revives(c) \/ Reparse(c) \/ Saves(c)
      PROVE  CurrentOk(c) /\ LatestOk(c) /\ step'[c] = "idle"
  <2>1. Ends(c)
    BY <1>2 DEF Upload, Chooses, SetCurrent, Archive, Restore, Revives, Revive,
       ReviveWithSections, Reparse, Saves, EditBlocks, ApproveAdditions, RecordScore, Writes
  <2> QED BY <1>0, <1>2, <2>1, Ended, UploadOk, ChosenOk, RevivedOk, ReparsedOk, SavedOk
<1>3. CASE UNCHANGED vars
  BY <1>3 DEF vars
<1> QED BY <1>1, <1>2, <1>3, StepsOfCalls

\* What SecondCurrent says of a step.
KeepsOne ==
    AtMostOneCurrent /\ ~AtMostOneCurrent' =>
        \/ AddsToAnother
        \/ \E c \in Calls : (Overtaken(c) \/ Misses(c)) /\ step'[c] = "idle"

\* A second baseline becomes current only beside a request that others, an upload among
\* them, have overtaken since it read, or by a version for a baseline that was not current.
THEOREM OneCurrent == Spec => SecondCurrent
<1>1. ASSUME HInv, [Next]_vars PROVE KeepsOne
  <2>1. CASE UNCHANGED <<known, lib, versions>>
    BY <2>1 DEF KeepsOne, AtMostOneCurrent, Uploaded
  <2>2. ASSUME NEW c \in Calls, CurrentOk(c), step'[c] = "idle" PROVE KeepsOne
    <3>1. CASE NoneMore \/ \E x : Alone(x)
      <4>1. AtMostOneCurrent => AtMostOneCurrent'
        BY <3>1 DEF AtMostOneCurrent, NoneMore, Alone
      <4> QED BY <4>1 DEF KeepsOne
    <3>2. CASE Overtaken(c) \/ Misses(c) \/ AddsToAnother
      BY <2>2, <3>2 DEF KeepsOne
    <3> QED BY <2>2, <3>1, <3>2 DEF CurrentOk
  <2> QED BY <1>1, <2>1, <2>2, StepOk
<1>2. HInv /\ [Next]_vars => [KeepsOne]_vars
  BY <1>1
<1>3. [][KeepsOne]_vars <=> SecondCurrent
  BY PTL DEF SecondCurrent, KeepsOne
<1> QED BY <1>2, <1>3, HoldInvariance, PTL DEF Spec

\* What LatestStays says of a step.
KeepsLatest ==
    \A b \in Uploaded : ShowsLatest(b) /\ ~ShowsLatest(b)' =>
        \E c \in Calls : Outdates(c) /\ step'[c] = "idle"

\* The row of a baseline shows its latest version until a request revives it, commits a
\* version older than one that came in between, or writes back the version it has read.
THEOREM LatestShown == Spec => LatestStays
<1>1. ASSUME HInv, [Next]_vars PROVE KeepsLatest
  <2>1. CASE UNCHANGED <<known, lib, versions>>
    BY <2>1 DEF KeepsLatest, ShowsLatest
  <2>2. ASSUME NEW c \in Calls, LatestOk(c), step'[c] = "idle" PROVE KeepsLatest
    BY <2>2 DEF KeepsLatest, LatestOk
  <2> QED BY <1>1, <2>1, <2>2, StepOk
<1>2. HInv /\ [Next]_vars => [KeepsLatest]_vars
  BY <1>1
<1>3. [][KeepsLatest]_vars <=> LatestStays
  BY PTL DEF LatestStays, KeepsLatest
<1> QED BY <1>2, <1>3, HoldInvariance, PTL DEF Spec
=============================================================================
