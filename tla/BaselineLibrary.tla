----------------------------- MODULE BaselineLibrary -----------------------------
(***************************************************************************)
(* The baselines of one user (baseline/baseline.service.ts) and their      *)
(* numbered versions (baseline/baseline-version.service.ts): uploads,      *)
(* archiving, the choice of the current baseline, and the requests that    *)
(* add a version to a baseline or save the row that they have read.        *)
(*                                                                         *)
(* data-source.ts sets no isolation level, so PostgreSQL runs every        *)
(* transaction at READ COMMITTED, and no read takes a lock: a request      *)
(* reads in steps of its own, what others have committed, and its writes   *)
(* are there for others when it commits.  From its first UPDATE of a row to*)
(* its commit nobody else writes that row, so the UPDATEs of a transaction *)
(* are one step, its last.                                                 *)
(*                                                                         *)
(* Baselines are numbered in the order in which their uploads commit, one  *)
(* per file.  The sections, policies and additions of a version are left   *)
(* out; so is cloneBaselineForFitReview, whose insert always breaks the    *)
(* unique index on the file's hash.                                        *)
(***************************************************************************)
EXTENDS Naturals, EntitySave

CONSTANTS
    Calls,         \* requests side by side; one that has ended may begin another
    MaxBaselines,  \* bound: baselines in the library
    MaxNumber      \* bound: version numbers

ASSUME BaselinesAssumption == MaxBaselines \in Nat
ASSUME NumberAssumption == MaxNumber \in Nat

VARIABLES
    known,     \* baselines 1 to known have been uploaded
    lib,       \* lib[b]: the row of baseline b
    versions,  \* versions[b]: the version numbers in baseline_versions
    step,      \* step[c]: where request c stands
    call       \* call[c]: what c works on and has read

vars == <<known, lib, versions, step, call>>

Baselines == 1..MaxBaselines
Numbers == 1..MaxNumber
Uploaded == 1..known

Rows == [archived : BOOLEAN, current : BOOLEAN, version : Numbers \cup {0},
         versionNumber : Numbers \cup {0}]
NoRow == [archived |-> FALSE, current |-> FALSE, version |-> 0, versionNumber |-> 0]

\* baseline: the one c is about; row: its row as c first read it; selected: the row that
\* the SELECT of a save read; next: the version number to add; becomes: c saw no current
\* baseline; target: what c makes current instead; seen: the baselines there before.
Begun(b, r, n, p, s) ==
    [baseline |-> b, row |-> r, selected |-> NoRow, next |-> n, becomes |-> p,
     target |-> 0, seen |-> s]
NoCall == Begun(0, NoRow, 0, FALSE, 0)
CallRecords == [baseline : Baselines \cup {0}, row : Rows, selected : Rows,
                next : Numbers \cup {0}, becomes : BOOLEAN,
                target : Baselines \cup {0}, seen : 0..MaxBaselines]

Steps == {"idle", "uploading", "placing", "setting", "archiving", "listed", "restoring",
          "reparsing", "found", "counted", "reviving", "renumbering", "copied", "adding",
          "editing", "approving", "scoring"}

Init ==
    /\ known = 0
    /\ lib = [b \in Baselines |-> NoRow]
    /\ versions = [b \in Baselines |-> {}]
    /\ step = [c \in Calls |-> "idle"]
    /\ call = [c \in Calls |-> NoCall]

-----------------------------------------------------------------------------
(* The library *)

\* n is one more than the highest of S.
Follows(n, S) == (\A m \in S : m < n) /\ (n = 1 \/ n - 1 \in S)

\* getNextBaselineVersionNumber goes by the versionNumber columns of all baselines.
NextOfUser(n) == Follows(n, {lib[b].versionNumber : b \in Uploaded})

\* The baselines that count as current.
AnyCurrent == \E b \in Uploaded : lib[b].current /\ ~lib[b].archived

\* setSingleActiveBaseline on rows L: its first UPDATE saw the rows 1 to s.
Single(L, b, s) ==
    [x \in Baselines |-> IF x = b \/ x <= s THEN [L[x] EXCEPT !.current = (x = b)] ELSE L[x]]

\* The UPDATE of the rows of a user finds those that were there when c began, and of the
\* ones that were committed since those before some moment.
Found(c) == call[c].seen..known

-----------------------------------------------------------------------------
(* Requests: what they read, and their end *)

\* Request c, at step `from', reads what makes its record r.
Reads(c, from, to, r) ==
    /\ step[c] = from
    /\ step' = [step EXCEPT ![c] = to]
    /\ call' = [call EXCEPT ![c] = r]
    /\ UNCHANGED <<known, lib, versions>>

About(b) == Begun(b, NoRow, 0, FALSE, known)

Ends(c) ==
    /\ step' = [step EXCEPT ![c] = "idle"]
    /\ call' = [call EXCEPT ![c] = NoCall]

\* An error rolls the transaction back: two requests that wait for each other's rows, a
\* version number that the baseline has, a connection that is lost.
Fail(c) ==
    /\ step[c] # "idle"
    /\ Ends(c)
    /\ UNCHANGED <<known, lib, versions>>

\* A version that another transaction has inserted and not committed holds its number.
Held(c, b) ==
    \E d \in Calls \ {c} : /\ step[d] \in {"editing", "approving"}
                           /\ call[d].baseline = b
                           /\ call[d].next = call[c].next

\* The unique index of baseline_versions lets c insert its number for b.
Inserts(c, b) == call[c].next \notin versions[b] /\ ~Held(c, b)

-----------------------------------------------------------------------------
(* Upload of a new file *)

CountCurrent(c) ==
    Reads(c, "idle", "uploading", Begun(0, NoRow, 0, ~AnyCurrent, known))

\* Outside the transaction: the row that it has inserted is not among those read.
NumberBaseline(c) ==
    \E n \in Numbers :
       /\ NextOfUser(n)
       /\ \/ Reads(c, "uploading", "placing", [call[c] EXCEPT !.next = n])
          \/ Reads(c, "reviving", "renumbering", [call[c] EXCEPT !.next = n])

Upload(c) ==
    LET b == known + 1
        r == [archived |-> FALSE, current |-> call[c].becomes, version |-> call[c].next,
              versionNumber |-> call[c].next]
    IN  /\ step[c] = "placing"
        /\ known < MaxBaselines
        /\ known' = b
        /\ \/ ~call[c].becomes /\ lib' = [lib EXCEPT ![b] = r]
           \/ call[c].becomes /\ \E s \in Found(c) : lib' = Single([lib EXCEPT ![b] = r], b, s)
        /\ versions' = [versions EXCEPT ![b] = {call[c].next}]
        /\ Ends(c)

-----------------------------------------------------------------------------
(* The current baseline *)

\* setCurrentBaseline and updateBaselineStatus read the status of b.
ReadStatus(c, b) ==
    \/ ~lib[b].archived /\ Reads(c, "idle", "setting", About(b))
    \/ ~lib[b].archived /\ Reads(c, "idle", "archiving", About(b))
    \/ lib[b].archived /\ Reads(c, "idle", "restoring", About(b))

SetCurrent(c) ==
    /\ step[c] = "setting"
    /\ \E s \in Found(c) : lib' = Single(lib, call[c].baseline, s)
    /\ UNCHANGED <<known, versions>>
    /\ Ends(c)

\* The most recent of the other baselines that is not archived.
IsNext(x, b) ==
    /\ x # b /\ ~lib[x].archived
    /\ \A y \in Uploaded \ {b} : y > x => lib[y].archived

ListBaselines(c) ==
    LET b == call[c].baseline
    IN  \/ \E x \in Uploaded :
              IsNext(x, b) /\ Reads(c, "archiving", "listed", [call[c] EXCEPT !.target = x])
        \/ /\ \A x \in Uploaded \ {b} : lib[x].archived
           /\ Reads(c, "archiving", "listed", call[c])

\* b is archived, and x, unless it is 0, is current and restored.
Replaced(b, x, s) ==
    LET L == Single(lib, x, s)
    IN  [y \in Baselines |-> [L[y] EXCEPT !.archived = y = b \/ (y # x /\ @)]]

Archive_NoNext(c) ==                \* mutant: nothing takes the place of the current one
    /\ step[c] = "listed"
    /\ \E s \in Found(c) : lib' = Replaced(call[c].baseline, 0, s)
    /\ UNCHANGED <<known, versions>>
    /\ Ends(c)

\* The next one becomes current whether or not b was.
Archive(c) ==
    /\ step[c] = "listed"
    /\ \E s \in Found(c) : lib' = Replaced(call[c].baseline, call[c].target, s)
    /\ UNCHANGED <<known, versions>>
    /\ Ends(c)

Restore(c) ==
    LET b == call[c].baseline
    IN  /\ step[c] = "restoring"
        /\ \E s \in Found(c) : lib' = [Single(lib, b, s) EXCEPT ![b].archived = FALSE]
        /\ UNCHANGED <<known, versions>>
        /\ Ends(c)

-----------------------------------------------------------------------------
(* Upload of the file of an archived baseline *)

FindArchived(c, b) == lib[b].archived /\ Reads(c, "idle", "found", About(b))

CountForRevival(c) ==
    Reads(c, "found", "counted", [call[c] EXCEPT !.becomes = ~AnyCurrent])

ReadForRevival(c) ==
    Reads(c, "counted", "reviving", [call[c] EXCEPT !.row = lib[call[c].baseline]])

\* The UPDATE, with version number n and with the `current' that was read.
Revived(c, n) ==
    LET b == call[c].baseline
        r == [archived |-> FALSE, current |-> call[c].becomes \/ call[c].row.current,
              version |-> n, versionNumber |-> n]
    IN  \/ ~call[c].becomes /\ lib' = [lib EXCEPT ![b] = r]
        \/ /\ call[c].becomes
           /\ \E s \in Found(c) : lib' = [Single(lib, b, s) EXCEPT ![b] = r]

\* Without sections in the parse result the row falls back on the versionNumber read.
Revive(c) ==
    /\ step[c] = "reviving"
    /\ Revived(c, call[c].row.versionNumber)
    /\ UNCHANGED <<known, versions>>
    /\ Ends(c)

ReviveWithSections_Unversioned(c) ==  \* mutant: the version is not inserted
    /\ step[c] = "renumbering"
    /\ Revived(c, call[c].next)
    /\ UNCHANGED <<known, versions>>
    /\ Ends(c)

\* With sections a version is added, under a number of the user.
ReviveWithSections(c) ==
    LET b == call[c].baseline
    IN  /\ step[c] = "renumbering"
        /\ Inserts(c, b)
        /\ versions' = [versions EXCEPT ![b] = @ \cup {call[c].next}]
        /\ Revived(c, call[c].next)
        /\ UNCHANGED known
        /\ Ends(c)

-----------------------------------------------------------------------------
(* New versions and scores *)

\* The file is parsed again: first the number of the latest version is read.
ReadForReparse(c, b) ==
    \E n \in Numbers :
       Follows(n, versions[b]) /\ Reads(c, "idle", "reparsing", Begun(b, NoRow, n, FALSE, 0))

\* A version, and the row is current, whatever others are.
Reparse(c) ==
    LET b == call[c].baseline
        n == call[c].next
    IN  /\ step[c] = "reparsing"
        /\ Inserts(c, b)
        /\ versions' = [versions EXCEPT ![b] = @ \cup {n}]
        /\ lib' = [lib EXCEPT ![b] = [archived |-> FALSE, current |-> TRUE, version |-> n,
                                      versionNumber |-> n]]
        /\ UNCHANGED known
        /\ Ends(c)

\* updateBlockPolicies, approveVerifiedAdditions and recordBaselineAnalysisScore read the
\* row; the first two then read the latest version.
ReadRow(c, b) == Reads(c, "idle", "copied", Begun(b, lib[b], 0, FALSE, 0))

ReadLatest(c) ==
    /\ step[c] = "copied"
    /\ \E n \in Numbers : /\ Follows(n, versions[call[c].baseline])
                          /\ Reads(c, "copied", "adding", [call[c] EXCEPT !.next = n])

Selected(c) == [call[c] EXCEPT !.selected = lib[call[c].baseline]]

\* The version is inserted, and the save SELECTs the row.
SelectForVersion(c) ==
    /\ step[c] = "adding"
    /\ Inserts(c, call[c].baseline)
    /\ \E to \in {"editing", "approving"} : Reads(c, "adding", to, Selected(c))

SelectForScore(c) == Reads(c, "copied", "scoring", Selected(c))

\* The save UPDATEs the columns in which the entity differs from the row it SELECTed.
Writes(c, entity) ==
    LET b == call[c].baseline
    IN  /\ lib' = [lib EXCEPT ![b] = Updated(lib[b], call[c].selected, entity)]
        /\ UNCHANGED known
        /\ Ends(c)

AddsVersion(c) ==
    versions' = [versions EXCEPT ![call[c].baseline] = @ \cup {call[c].next}]

\* updateBlockPolicies makes the baseline current, archived or not.
EditBlocks(c) ==
    /\ step[c] = "editing"
    /\ AddsVersion(c)
    /\ Writes(c, [archived |-> call[c].row.archived, current |-> TRUE,
                  version |-> call[c].next, versionNumber |-> call[c].next])

ApproveAdditions_Twice(c) ==        \* mutant: the number is raised when saved, too
    /\ step[c] = "approving"
    /\ AddsVersion(c)
    /\ Writes(c, [call[c].row EXCEPT !.version = call[c].next + 1])

\* approveVerifiedAdditions leaves versionNumber as it is.
ApproveAdditions(c) ==
    /\ step[c] = "approving"
    /\ AddsVersion(c)
    /\ Writes(c, [call[c].row EXCEPT !.version = call[c].next])

RecordScore(c) ==
    /\ step[c] = "scoring"
    /\ UNCHANGED versions
    /\ Writes(c, call[c].row)

Next ==
    \E c \in Calls :
       \/ CountCurrent(c) \/ NumberBaseline(c) \/ Upload(c)
       \/ \E b \in Uploaded : \/ ReadStatus(c, b) \/ FindArchived(c, b)
                              \/ ReadForReparse(c, b) \/ ReadRow(c, b)
       \/ SetCurrent(c) \/ ListBaselines(c) \/ Archive(c) \/ Restore(c)
       \/ CountForRevival(c) \/ ReadForRevival(c) \/ Revive(c) \/ ReviveWithSections(c)
       \/ Reparse(c) \/ ReadLatest(c) \/ SelectForVersion(c) \/ SelectForScore(c)
       \/ EditBlocks(c) \/ ApproveAdditions(c) \/ RecordScore(c)
       \/ Fail(c)

Spec == Init /\ [][Next]_vars

-----------------------------------------------------------------------------
(* Properties *)

\* Every variable stays in its domain.
TypeOK ==
    /\ known \in 0..MaxBaselines
    /\ lib \in [Baselines -> Rows]
    /\ versions \in [Baselines -> SUBSET Numbers]
    /\ step \in [Calls -> Steps]
    /\ call \in [Calls -> CallRecords]

\* The numbers on a row are those of versions that are there, however many requests
\* add versions, are refused, or save columns of a row they read long ago.
VersionsAreThere ==
    \A b \in Uploaded : {lib[b].version, lib[b].versionNumber} \subseteq versions[b]

\* What c decided by is no longer so: a baseline it makes current has been archived, one
\* that could have taken the place of the archived one has come, or the row that it took
\* `archived' and `current' from has others.
Overtaken(c) ==
    LET b == call[c].baseline
    IN  \/ step[c] = "setting" /\ lib[b].archived
        \/ step[c] = "listed" /\ call[c].target = 0 /\ \E x \in Uploaded \ {b} : ~lib[x].archived
        \/ /\ step[c] \in {"reviving", "renumbering", "approving", "scoring", "editing"}
           /\ Crossed(lib[b], call[c].row, {"archived", "current"})

\* A user who has a current baseline is not left without one while a baseline is not
\* archived, unless a request commits that others have overtaken since it read.
CurrentIsKept ==
    [][AnyCurrent /\ ~AnyCurrent' =>
          \/ \A b \in Uploaded : lib'[b].archived
          \/ \E c \in Calls : Overtaken(c) /\ step'[c] = "idle"]_vars

\* "archives a non-current baseline and does not change the active baseline pointer".
ArchiveKeepsPointer ==
    [][\A b \in Uploaded :
          ~lib[b].current /\ ~lib[b].archived /\ lib'[b].archived =>
              \A x \in Uploaded : lib'[x].current = lib[x].current]_vars
=============================================================================
