------------------------------- MODULE RunLedger -------------------------------
(***************************************************************************)
(* What the idempotency table promises its callers, with the reads, the    *)
(* writes and the unique conflicts of the table left out.  Every dedupe    *)
(* key has at most one owner; a run is granted a key at most once; only    *)
(* the owner's result is ever stored, and only a stored result is ever     *)
(* replayed to somebody else.  WorkflowIdempotency implements it.          *)
(***************************************************************************)
CONSTANTS Keys, Runs, NoRun

VARIABLES
    owner,      \* owner[k]: the run that holds key k, or NoRun
    result,     \* result[k]: "none", "open", "stored" or "failed"
    granted,    \* the runs that were ever told to do the work themselves
    delivered   \* delivered[r]: whose stored result run r was given, or NoRun

ledgerVars == <<owner, result, granted, delivered>>

LedgerInit ==
    /\ owner = [k \in Keys |-> NoRun]
    /\ result = [k \in Keys |-> "none"]
    /\ granted = {}
    /\ delivered = [r \in Runs |-> NoRun]

\* Run r becomes the owner of k, taking it over from any earlier owner.
Grant(k, r) ==
    /\ r \notin granted
    /\ owner' = [owner EXCEPT ![k] = r]
    /\ result' = [result EXCEPT ![k] = "open"]
    /\ granted' = granted \cup {r}
    /\ UNCHANGED delivered

\* The owner of k stores its result or reports that it has none.
Settle(k) ==
    /\ owner[k] # NoRun
    /\ \E s \in {"stored", "failed"} : result' = [result EXCEPT ![k] = s]
    /\ UNCHANGED <<owner, granted, delivered>>

\* The stored result of k is replayed to a run that was granted nothing.
Deliver(k, r) ==
    /\ result[k] = "stored"
    /\ r \notin granted
    /\ delivered' = [delivered EXCEPT ![r] = owner[k]]
    /\ UNCHANGED <<owner, result, granted>>

LedgerNext ==
    \E k \in Keys :
        \/ Settle(k)
        \/ \E r \in Runs : Grant(k, r) \/ Deliver(k, r)

LedgerSpec == LedgerInit /\ [][LedgerNext]_ledgerVars
=============================================================================
