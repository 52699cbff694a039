------------------------------ MODULE PoolCache ------------------------------
(***************************************************************************)
(* The agent's ZFS pool cache (agent/zpool_status.go, type PoolCache) with *)
(* the goroutines and HTTP handlers that share it.                         *)
(*                                                                         *)
(* Refresh is called on every drive poll and starts a background reader    *)
(* unless one is still running.  The reader runs zpool in the mode decided *)
(* earlier (JSON or text) or decides one, stores the result under the lock *)
(* and clears "running" in a second critical section.  GET /api/pools and  *)
(* GET /api/health each take the read lock twice, so a store may fall      *)
(* between their two reads; every critical section is one action here.     *)
(*                                                                         *)
(* Nothing is persisted: a restart of the agent is a new behaviour from    *)
(* Init, where the host may be in any state.                               *)
(***************************************************************************)
EXTENDS Naturals, FiniteSets

CONSTANTS Pools,      \* names of the pools the host may import
          Readers,    \* goroutines Refresh may start
          Requests    \* HTTP requests that may be in flight together

(* Count() is the length of a list that zpool printed.                     *)
ASSUME PoolsFinite == IsFiniteSet(Pools)

VARIABLES
  mode,      \* zpoolModeUnknown, JSON or Text
  running,   \* a reader has been started and has not cleared the flag
  ok,        \* the last completed read succeeded
  done,      \* at least one read has completed
  pools,     \* the list of the last completed read ({} when it failed)
  at,        \* at[r]: where reader goroutine r is
  want,      \* want[r]: the mode r read when it began
  result,    \* result[r]: what r's zpool run gave it
  req,       \* req[q]: where HTTP request q is
  resp,      \* resp[q]: the answer q was given
  zpool,     \* environment: which zpool invocations work at the moment
  imported,  \* environment: the pools imported at the moment
  window,    \* history: values of imported since the reader began
  returned   \* history: every list a zpool run has returned

cache  == <<mode, running, ok, done, pools>>
reader == <<at, want, result>>
http   == <<req, resp>>
host   == <<zpool, imported>>
hist   == <<window, returned>>
vars   == <<cache, reader, http, host, hist>>

Modes   == {"unknown", "json", "text"}
Zpools  == {"json", "text", "failing", "stuck"}
Results == [ok : BOOLEAN, list : SUBSET Pools, mode : Modes]
NoResult == [ok |-> FALSE, list |-> {}, mode |-> "unknown"]

(* What a request has been told: nothing yet, 503, a list, or the pools    *)
(* part of /api/health (pools_status, and the count when there is one).    *)
NoAnswer       == [kind |-> "none", list |-> {}, count |-> 0]
Unavailable    == [kind |-> "503", list |-> {}, count |-> 0]
ListAnswer(L)  == [kind |-> "list", list |-> L, count |-> 0]
StatusAnswer(s) == [kind |-> s, list |-> {}, count |-> 0]
CountAnswer(n) == [kind |-> "count", list |-> {}, count |-> n]

Init ==
  /\ mode = "unknown" /\ running = FALSE /\ ok = FALSE /\ done = FALSE
  /\ pools = {}
  /\ at = [r \in Readers |-> "idle"]
  /\ want = [r \in Readers |-> "unknown"]
  /\ result = [r \in Readers |-> NoResult]
  /\ req = [q \in Requests |-> "idle"]
  /\ resp = [q \in Requests |-> NoAnswer]
  /\ zpool \in Zpools
  /\ imported \in SUBSET Pools
  /\ window = {} /\ returned = {}

-----------------------------------------------------------------------------
(* Refresh: start a reader, or leave everything alone when one is running  *)
(* ("one zpool at a time, however long the kernel holds it").              *)
Refresh(r) ==
  /\ ~running
  /\ at[r] = "idle"
  /\ running' = TRUE
  /\ at' = [at EXCEPT ![r] = "begin"]
  /\ window' = {imported}
  /\ UNCHANGED <<mode, ok, done, pools, want, result, http, host, returned>>

(* read(): the mode is read under the lock, once.                          *)
ReadMode(r) ==
  /\ at[r] = "begin"
  /\ want' = [want EXCEPT ![r] = mode]
  /\ at' = [at EXCEPT ![r] = IF mode = "text" THEN "text" ELSE "json"]
  /\ UNCHANGED <<cache, result, http, host, hist>>

(* What one run of zpool can end in.  A hung zpool ("stuck") ends when the *)
(* kernel lets it go; one that fails gives an error or a timeout.          *)
JSONOutcomes == CASE zpool = "json"    -> {"list"}
                  [] zpool = "text"    -> {"error"}
                  [] zpool = "failing" -> {"error", "timeout"}
                  [] zpool = "stuck"   -> {}
TextOutcomes == CASE zpool \in {"json", "text"} -> {"list"}
                  [] zpool = "failing" -> {"error", "timeout"}
                  [] zpool = "stuck"   -> {}

Listed(m) == [ok |-> TRUE, list |-> imported, mode |-> m]
ReadFailed == NoResult

(* A definition X_Y is X with a mistake that a change of the code could *)
(* make, the one its comment names.  No behaviour uses them: they are what *)
(* the properties are tried on.                                            *)
RunJSON_KeepsMode(r) ==                    \* a failure keeps the decided mode
  /\ at[r] = "json"
  /\ \E o \in JSONOutcomes :
       LET retry == o = "error" /\ want[r] = "unknown" IN
       /\ at' = [at EXCEPT ![r] = IF retry THEN "text" ELSE "store"]
       /\ result' = [result EXCEPT ![r] =
                       IF o = "list" THEN Listed("json") ELSE [ReadFailed EXCEPT !.mode = want[r]]]
       /\ returned' = IF o = "list" THEN returned \cup {imported} ELSE returned
  /\ UNCHANGED <<cache, want, http, host, window>>

(* readJSON, and what read() does with its outcome: a failure in the       *)
(* decided mode drops the decision; an undecided read falls back to text   *)
(* unless zpool timed out.                                                 *)
RunJSON(r) ==
  /\ at[r] = "json"
  /\ \E o \in JSONOutcomes :
       LET retry == o = "error" /\ want[r] = "unknown" IN
       /\ at' = [at EXCEPT ![r] = IF retry THEN "text" ELSE "store"]
       /\ result' = [result EXCEPT ![r] =
                       IF o = "list" THEN Listed("json") ELSE ReadFailed]
       /\ returned' = IF o = "list" THEN returned \cup {imported} ELSE returned
  /\ UNCHANGED <<cache, want, http, host, window>>

RunText(r) ==
  /\ at[r] = "text"
  /\ \E o \in TextOutcomes :
       /\ result' = [result EXCEPT ![r] =
                       IF o = "list" THEN Listed("text") ELSE ReadFailed]
       /\ returned' = IF o = "list" THEN returned \cup {imported} ELSE returned
  /\ at' = [at EXCEPT ![r] = "store"]
  /\ UNCHANGED <<cache, want, http, host, window>>

Store_KeepsPools(r) ==                     \* a failed read keeps the old list
  /\ at[r] = "store"
  /\ mode' = result[r].mode
  /\ ok' = result[r].ok
  /\ done' = TRUE
  /\ pools' = IF result[r].ok THEN result[r].list ELSE pools
  /\ at' = [at EXCEPT ![r] = "clear"]
  /\ UNCHANGED <<running, want, result, http, host, hist>>

(* refreshNow: the result is stored in one critical section.               *)
Store(r) ==
  /\ at[r] = "store"
  /\ mode' = result[r].mode
  /\ ok' = result[r].ok
  /\ done' = TRUE
  /\ pools' = result[r].list
  /\ at' = [at EXCEPT ![r] = "clear"]
  /\ UNCHANGED <<running, want, result, http, host, hist>>

(* The goroutine's last act: "running" is cleared in a second one.         *)
ClearRunning(r) ==
  /\ at[r] = "clear"
  /\ running' = FALSE
  /\ at' = [at EXCEPT ![r] = "idle"]
  /\ want' = [want EXCEPT ![r] = "unknown"]
  /\ result' = [result EXCEPT ![r] = NoResult]
  /\ window' = {}
  /\ UNCHANGED <<mode, ok, done, pools, http, host, returned>>

-----------------------------------------------------------------------------
(* Status(): pending, ok or failed.                                        *)
Status == IF ~done THEN "pending" ELSE IF ok THEN "ok" ELSE "failed"

(* GET /api/pools, first critical section: is there a good read?           *)
PoolsCheck(q) ==
  /\ req[q] = "idle"
  /\ req' = [req EXCEPT ![q] = IF ok THEN "list" ELSE "idle"]
  /\ resp' = [resp EXCEPT ![q] = IF ok THEN NoAnswer ELSE Unavailable]
  /\ UNCHANGED <<cache, reader, host, hist>>

(* GET /api/pools, second: the list goes out with status 200.              *)
PoolsList(q) ==
  /\ req[q] = "list"
  /\ req' = [req EXCEPT ![q] = "idle"]
  /\ resp' = [resp EXCEPT ![q] = ListAnswer(pools)]
  /\ UNCHANGED <<cache, reader, host, hist>>

(* GET /api/health: Status(), then Count() when it said ok.                *)
HealthStatus(q) ==
  /\ req[q] = "idle"
  /\ req' = [req EXCEPT ![q] = IF Status = "ok" THEN "count" ELSE "idle"]
  /\ resp' = [resp EXCEPT ![q] =
                IF Status = "ok" THEN NoAnswer ELSE StatusAnswer(Status)]
  /\ UNCHANGED <<cache, reader, host, hist>>

HealthCount(q) ==
  /\ req[q] = "count"
  /\ req' = [req EXCEPT ![q] = "idle"]
  /\ resp' = [resp EXCEPT ![q] = CountAnswer(Cardinality(pools))]
  /\ UNCHANGED <<cache, reader, host, hist>>

-----------------------------------------------------------------------------
(* The host: pools come and go, zpool starts or stops working or is        *)
(* replaced by a release with or without -j.                               *)
ImportChanges ==
  /\ imported' \in (SUBSET Pools) \ {imported}
  /\ window' = IF running THEN window \cup {imported'} ELSE window
  /\ UNCHANGED <<cache, reader, http, zpool, returned>>

ZpoolChanges ==
  /\ zpool' \in Zpools \ {zpool}
  /\ UNCHANGED <<cache, reader, http, imported, hist>>

ReaderStep(r) == ReadMode(r) \/ RunJSON(r) \/ RunText(r) \/ Store(r) \/ ClearRunning(r)

Next ==
  \/ \E r \in Readers : Refresh(r)
  \/ \E r \in Readers : ReadMode(r)
  \/ \E r \in Readers : RunJSON(r)
  \/ \E r \in Readers : RunText(r)
  \/ \E r \in Readers : Store(r)
  \/ \E r \in Readers : ClearRunning(r)
  \/ \E q \in Requests : PoolsCheck(q)
  \/ \E q \in Requests : PoolsList(q)
  \/ \E q \in Requests : HealthStatus(q)
  \/ \E q \in Requests : HealthCount(q)
  \/ ImportChanges
  \/ ZpoolChanges

Spec == Init /\ [][Next]_vars

(* The ticker keeps calling Refresh, and a reader whose zpool is not held  *)
(* by the kernel goes on: exec's deadline and WaitDelay end every run.     *)
Fairness ==
  /\ WF_vars(\E r \in Readers : Refresh(r))
  /\ \A r \in Readers : WF_vars(ReaderStep(r))

FairSpec == Spec /\ Fairness

-----------------------------------------------------------------------------
AnswerKinds == {"none", "503", "list", "pending", "failed", "count"}

TypeOK ==
  /\ mode \in Modes /\ running \in BOOLEAN /\ ok \in BOOLEAN /\ done \in BOOLEAN
  /\ pools \in SUBSET Pools
  /\ at \in [Readers -> {"idle", "begin", "json", "text", "store", "clear"}]
  /\ want \in [Readers -> Modes]
  /\ result \in [Readers -> Results]
  /\ req \in [Requests -> {"idle", "list", "count"}]
  /\ resp \in [Requests -> [kind : AnswerKinds, list : SUBSET Pools, count : Nat]]
  /\ zpool \in Zpools
  /\ imported \in SUBSET Pools
  /\ window \in SUBSET (SUBSET Pools)
  /\ returned \in SUBSET (SUBSET Pools)

(* However long the kernel holds a zpool run, the agent never has two of   *)
(* them: every goroutine but one is gone, and the flag says which.         *)
OneZpool == \A r, s \in Readers : at[r] # "idle" /\ at[s] # "idle" => r = s

(* The cache implements PoolFeed: reads do not overlap and a published     *)
(* list was true at some moment of the read that published it.             *)
Feed == [kind |-> Status, list |-> pools]
Abstract == INSTANCE PoolFeed WITH reading <- running, feed <- Feed
ImplementsPoolFeed == Abstract!Spec

(* Once zpool works and goes on working, the pools are published again     *)
(* and stay published, whichever reader mode was decided before and        *)
(* whether this zpool knows -j or not: a failure in a decided mode drops   *)
(* the decision, and the next poll tries both.                             *)
RecoversWithZpool ==
  <>[](zpool = "json") \/ <>[](zpool = "text") => <>[](Status = "ok")

(* HandlePools: "'zpool did not answer' must not look like 'no pools are   *)
(* imported'", and healthResponse.Pools: "present only when ZFS pool       *)
(* status is on and the last read succeeded".  So what goes out, a list or *)
(* a count, is of a list that zpool returned.                              *)
AnswersMeanRead ==
  \A q \in Requests :
    /\ resp[q].kind = "list"  => resp[q].list \in returned
    /\ resp[q].kind = "count" => \E L \in returned : Cardinality(L) = resp[q].count
=============================================================================
