----------------------------- MODULE PoolProofs -----------------------------
(***************************************************************************)
(* The two ends of a pool's way from zpool to the screen, for any pools:   *)
(* PoolNotices for any reasons and number of reloads, and PoolCache        *)
(* (as Cache, over the same pools) for any goroutines and requests.        *)
(*                                                                         *)
(* In PoolNotices what is shown and what is remembered change together, in *)
(* HandleKnown: its lemma says what it leaves of a pool that it neither    *)
(* raises nor dismisses.  The three properties and the type are inductive  *)
(* together.                                                               *)
(*                                                                         *)
(* The invariant of the cache is CacheInv: "running" is exactly "some      *)
(* goroutine is alive", at most one is, and what a goroutine is about to   *)
(* store lies in the window of its own read.                               *)
(***************************************************************************)
EXTENDS PoolNotices, FiniteSetTheorems, TLAPS

CONSTANTS Readers, Requests
VARIABLES mode, running, ok, done, pools, at, want, result, req, resp, zpool,
          imported, window, returned

Cache == INSTANCE PoolCache

IInv ==
  /\ TypeOK
  /\ ShownIsCurrent
  /\ ProblemIsShown
  /\ MissingIsRegistered

Words == {"healthy", "missing", "gone", "none"}

LEMMA WordsApart == Reasons \cap Words = {}
  BY ReasonsAssumption DEF Words

(* A list in an answer gives some of the pools a health.                   *)
LEMMA AnswerType ==
  ASSUME NEW a \in Answers
  PROVE  /\ DOMAIN a.list \subseteq Pools
         /\ \A p \in DOMAIN a.list : a.list[p] \in Health
         /\ a.kind \in {"none", "failed", "unknown", "off", "listed"}
  <1>1. CASE a \in {Answer(k, << >>) : k \in {"none", "failed", "unknown", "off"}}
    BY <1>1 DEF Answer
  <1>2. CASE a \in {Answer("listed", L) : L \in Lists}
    <2>1. PICK L \in Lists : a = Answer("listed", L)
      BY <1>2
    <2>2. PICK S \in SUBSET Pools : L \in [S -> Health]
      BY <2>1 DEF Lists
    <2>3. a.list = L /\ a.kind = "listed"
      BY <2>1 DEF Answer
    <2>4. QED
      BY <2>2, <2>3
  <1>3. QED
    BY <1>1, <1>2 DEF Answers

LEMMA FetchedIsAnswer ==
  ASSUME TypeOK
  PROVE  Answer("listed", [p \in Imported |-> pool[p]]) \in Answers
  <1>1. [p \in Imported |-> pool[p]] \in [Imported -> Health]
    BY DEF TypeOK, Imported
  <1>2. Imported \in SUBSET Pools
    BY DEF Imported
  <1>3. [p \in Imported |-> pool[p]] \in Lists
    BY <1>1, <1>2 DEF Lists
  <1>4. QED
    BY <1>3 DEF Answers

(* What a known pool list makes of the memory.                             *)
LEMMA CurrentType ==
  ASSUME TypeOK
  PROVE  /\ DOMAIN Current \subseteq Pools
         /\ \A p \in DOMAIN Current : Current[p] \in Condition
         /\ \A p \in DOMAIN Current : Current[p] = "missing" => p \in Missing
         /\ Missing \subseteq registered
         /\ Missing \subseteq DOMAIN Current
         /\ DOMAIN reply.list \subseteq DOMAIN Current
         /\ \A p \in DOMAIN Current : p \in DOMAIN reply.list \/ p \in Missing
         /\ \A p \in Missing : Current[p] = "missing"
  <1>1. reply \in Answers /\ registered \subseteq Pools
    BY DEF TypeOK
  <1>2. /\ DOMAIN reply.list \subseteq Pools
        /\ \A p \in DOMAIN reply.list : reply.list[p] \in Health
    BY <1>1, AnswerType
  <1>3. /\ Missing \subseteq registered
        /\ \A p \in Missing : p \notin DOMAIN reply.list
    BY DEF Missing
  <1>4. DOMAIN Current = DOMAIN reply.list \cup Missing
    BY DEF Current
  <1>5. \A p \in DOMAIN reply.list : Current[p] = reply.list[p]
    BY DEF Current
  <1>6. \A p \in Missing : Current[p] = "missing"
    BY <1>3 DEF Current
  <1>7. "missing" \notin Health
    BY WordsApart DEF Health, Words
  <1>8. \A p \in DOMAIN Current : Current[p] \in Condition
    BY <1>2, <1>4, <1>5, <1>6 DEF Condition
  <1>9. \A p \in DOMAIN Current : Current[p] = "missing" => p \in Missing
    BY <1>2, <1>4, <1>5, <1>7
  <1>10. QED
    BY <1>1, <1>2, <1>3, <1>4, <1>6, <1>8, <1>9

LEMMA RaisedFacts ==
  ASSUME TypeOK, NEW p \in Raised
  PROVE  p \in DOMAIN Current /\ Current[p] # "healthy"
  <1>1. CASE p \in Missing \ DOMAIN prev
    BY <1>1, CurrentType
  <1>2. CASE p \in DOMAIN Current \cap DOMAIN prev /\ Current[p] \notin {"healthy", prev[p]}
    BY <1>2
  <1>3. QED
    BY <1>1, <1>2 DEF Raised

(* A pool known before that is not raised is remembered as before, or is   *)
(* healthy, or is gone.                                                    *)
LEMMA NotRaised ==
  ASSUME NEW p \in DOMAIN Current \cap DOMAIN prev, p \notin Raised
  PROVE  Current[p] \in {"healthy", prev[p]}
  BY DEF Raised

-----------------------------------------------------------------------------
LEMMA InitIInv == Init => IInv
  <1> SUFFICES ASSUME Init PROVE IInv
    OBVIOUS
  <1>1. TypeOK
    <2>1. reply \in Answers
      BY DEF Init, NoAnswer, Answers
    <2>2. data \in [known : BOOLEAN, names : SUBSET Pools]
      BY DEF Init, UnknownPools
    <2>3. note \in [Pools -> Reasons \cup {"missing", "none"}]
      BY DEF Init
    <2>4. QED
      BY <2>1, <2>2, <2>3 DEF TypeOK, Init
  <1>2. ShownIsCurrent /\ ProblemIsShown
    BY DEF Init, ShownIsCurrent, ProblemIsShown
  <1>3. MissingIsRegistered
    BY DEF Init, MissingIsRegistered
  <1>4. QED
    BY <1>1, <1>2, <1>3 DEF IInv

LEMMA HandleKnownType == TypeOK /\ HandleKnown => TypeOK'
  <1> SUFFICES ASSUME TypeOK, HandleKnown PROVE TypeOK'
    OBVIOUS
  <1>1. note' \in [Pools -> Reasons \cup {"missing", "none"}]
    <2>1. \A p \in Raised : Current[p] \in Reasons \cup {"missing"}
      BY RaisedFacts, CurrentType DEF Condition, Health
    <2>2. QED
      BY <2>1 DEF HandleKnown, TypeOK
  <1>2. DOMAIN prev' \subseteq Pools /\ \A p \in DOMAIN prev' : prev'[p] \in Condition
    BY CurrentType DEF HandleKnown
  <1>3. DOMAIN reply.list \subseteq Pools
    BY AnswerType DEF TypeOK
  <1>4. data' \in [known : BOOLEAN, names : SUBSET Pools]
    BY <1>3 DEF HandleKnown, KnownPools
  <1>5. reply' \in Answers
    BY DEF HandleKnown, NoAnswer, Answers
  <1>6. Raised \subseteq Pools
    BY RaisedFacts, CurrentType
  <1>7. mine' \subseteq Pools
    BY <1>6 DEF HandleKnown, TypeOK
  <1>8. quiet' \subseteq Pools
    BY CurrentType DEF HandleKnown
  <1>9. QED
    BY <1>1, <1>2, <1>4, <1>5, <1>7, <1>8 DEF TypeOK, HandleKnown

LEMMA NewCoordinatorType ==
  ASSUME TypeOK, NewCoordinator, note' \in [Pools -> Reasons \cup {"missing", "none"}]
  PROVE  TypeOK'
  <1>1. data' \in [known : BOOLEAN, names : SUBSET Pools]
    BY DEF NewCoordinator, UnknownPools
  <1>2. reply' \in Answers
    BY DEF NewCoordinator, NoAnswer, Answers
  <1>3. loads' \in Nat
    BY DEF NewCoordinator, TypeOK
  <1>4. DOMAIN prev' \subseteq Pools /\ \A p \in DOMAIN prev' : prev'[p] \in Condition
    BY DEF NewCoordinator
  <1>5. QED
    BY <1>1, <1>2, <1>3, <1>4 DEF NewCoordinator, TypeOK

(* The type invariant, action by action.                                   *)
LEMMA TypeStep == TypeOK /\ [Next]_vars => TypeOK'
  <1> SUFFICES ASSUME TypeOK, [Next]_vars PROVE TypeOK'
    OBVIOUS
  <1>1. CASE FetchFails
    <2>1. reply' \in Answers
      BY <1>1 DEF FetchFails, Answers
    <2>2. QED
      BY <1>1, <2>1 DEF FetchFails, TypeOK
  <1>2. CASE FetchLists
    <2>1. reply' \in Answers
      BY <1>2, FetchedIsAnswer DEF FetchLists
    <2>2. QED
      BY <1>2, <2>1 DEF FetchLists, TypeOK
  <1>3. CASE HandleKnown
    BY <1>3, HandleKnownType
  <1>4. CASE HandleUnknown
    <2>1. reply' \in Answers
      BY <1>4 DEF HandleUnknown, NoAnswer, Answers
    <2>2. QED
      BY <1>4, <2>1 DEF HandleUnknown, UnknownPools, TypeOK
  <1>5. CASE HandleFailed
    <2>1. reply' \in Answers
      BY <1>5 DEF HandleFailed, NoAnswer, Answers
    <2>2. QED
      BY <1>5, <2>1 DEF HandleFailed, TypeOK
  <1>6. ASSUME NEW p \in Pools, Register(p) PROVE TypeOK'
    BY <1>6 DEF Register, TypeOK
  <1>7. ASSUME NEW p \in Pools, RemoveDevice(p) PROVE TypeOK'
    BY <1>7 DEF RemoveDevice, TypeOK
  <1>8. ASSUME NEW p \in Pools, UserDismisses(p) PROVE TypeOK'
    BY <1>8 DEF UserDismisses, TypeOK
  <1>9. CASE Reload
    BY <1>9, NewCoordinatorType DEF Reload, TypeOK
  <1>10. CASE Restart
    BY <1>10, NewCoordinatorType DEF Restart
  <1>11. ASSUME NEW p \in Pools, PoolChanges(p) PROVE TypeOK'
    BY <1>11 DEF PoolChanges, TypeOK
  <1>12. CASE UNCHANGED vars
    BY <1>12 DEF vars, TypeOK
  <1>13. QED
    BY <1>1, <1>2, <1>3, <1>4, <1>5, <1>6, <1>7, <1>8, <1>9, <1>10, <1>11, <1>12 DEF Next

-----------------------------------------------------------------------------
(* HandleKnown, one property at a time.                                    *)
LEMMA HandleShown == IInv /\ HandleKnown => ShownIsCurrent'
  <1> SUFFICES ASSUME IInv, HandleKnown, NEW p \in mine'
               PROVE  p \in DOMAIN prev' /\ note'[p] = prev'[p]
    BY DEF ShownIsCurrent
  <1> TypeOK
    BY DEF IInv
  <1>1. prev' = Current /\ mine' = (mine \cup Raised) \ Dismissed
    BY DEF HandleKnown
  <1>2. CASE p \in Raised
    <2>1. p \in DOMAIN Current /\ p \in Pools
      BY <1>2, RaisedFacts, CurrentType
    <2>2. note'[p] = Current[p]
      BY <1>2, <2>1 DEF HandleKnown
    <2>3. QED
      BY <1>1, <2>1, <2>2
  <1>3. CASE p \notin Raised
    <2>1. p \in mine /\ p \notin Dismissed /\ p \in Pools
      BY <1>1, <1>3 DEF TypeOK
    <2>2. p \in DOMAIN prev /\ note[p] = prev[p]
      BY <2>1 DEF IInv, ShownIsCurrent
    <2>3. note[p] # "healthy"
      BY <2>1, WordsApart DEF TypeOK, Words
    <2>4. p \in DOMAIN Current /\ Current[p] # "healthy"
      BY <2>1, <2>2, <2>3 DEF Dismissed
    <2>5. Current[p] = prev[p]
      BY <1>3, <2>2, <2>4, NotRaised
    <2>6. note'[p] = note[p]
      BY <1>3, <2>1 DEF HandleKnown
    <2>7. QED
      BY <1>1, <2>2, <2>4, <2>5, <2>6
  <1>4. QED
    BY <1>2, <1>3

LEMMA HandleProblem == IInv /\ HandleKnown => ProblemIsShown'
  <1> SUFFICES ASSUME IInv, HandleKnown, NEW p \in DOMAIN prev',
                      prev'[p] # "healthy", p \notin quiet'
               PROVE  note'[p] = prev'[p]
    BY DEF ProblemIsShown
  <1> TypeOK
    BY DEF IInv
  <1>1. prev' = Current /\ p \in DOMAIN Current /\ p \in Pools /\ Current[p] # "healthy"
    BY CurrentType DEF HandleKnown
  <1>2. CASE p \in Raised
    BY <1>1, <1>2 DEF HandleKnown
  <1>3. CASE p \notin Raised
    <2>1. ~Unsaid(p) /\ p \notin quiet
      BY <1>1, <1>3 DEF HandleKnown
    <2>2. p \in DOMAIN prev
      <3>1. CASE p \in DOMAIN reply.list
        BY <2>1, <3>1 DEF Unsaid
      <3>2. CASE p \in Missing
        BY <1>3, <3>2 DEF Raised
      <3>3. QED
        BY <1>1, <3>1, <3>2, CurrentType
    <2>3. Current[p] = prev[p]
      BY <1>1, <1>3, <2>2, NotRaised
    <2>4. note[p] = prev[p]
      BY <1>1, <2>1, <2>2, <2>3 DEF IInv, ProblemIsShown
    <2>5. p \notin Dismissed
      BY <1>1 DEF Dismissed
    <2>6. note'[p] = note[p]
      BY <1>1, <1>3, <2>5 DEF HandleKnown
    <2>7. QED
      BY <1>1, <2>3, <2>4, <2>6
  <1>4. QED
    BY <1>2, <1>3

LEMMA HandleMissing == IInv /\ HandleKnown => MissingIsRegistered'
  <1> SUFFICES ASSUME IInv, HandleKnown, NEW p \in Pools, note'[p] = "missing"
               PROVE  p \in registered'
    BY DEF MissingIsRegistered
  <1> TypeOK
    BY DEF IInv
  <1>1. registered' = registered
    BY DEF HandleKnown
  <1>2. CASE p \in Raised
    <2>1. note'[p] = Current[p]
      BY <1>2 DEF HandleKnown
    <2>2. p \in Missing
      BY <1>2, <2>1, RaisedFacts, CurrentType
    <2>3. QED
      BY <1>1, <2>2, CurrentType
  <1>3. CASE p \notin Raised
    <2>1. note'[p] = note[p] \/ note'[p] = "none"
      BY <1>3 DEF HandleKnown
    <2>2. QED
      BY <1>1, <2>1 DEF IInv, MissingIsRegistered
  <1>4. QED
    BY <1>2, <1>3

(* The other actions.                                                      *)
LEMMA IInvStep == IInv /\ [Next]_vars => IInv'
  <1> SUFFICES ASSUME IInv, [Next]_vars
               PROVE  ShownIsCurrent' /\ ProblemIsShown' /\ MissingIsRegistered'
    BY TypeStep DEF IInv
  <1> USE DEF ShownIsCurrent, ProblemIsShown, MissingIsRegistered
  <1>1. CASE FetchFails \/ FetchLists \/ HandleUnknown \/ HandleFailed
    BY <1>1 DEF IInv, FetchFails, FetchLists, HandleUnknown, HandleFailed
  <1>2. CASE HandleKnown
    BY <1>2, HandleShown, HandleProblem, HandleMissing
  <1>3. ASSUME NEW p \in Pools, Register(p)
        PROVE  ShownIsCurrent' /\ ProblemIsShown' /\ MissingIsRegistered'
    BY <1>3 DEF IInv, Register
  <1>4. ASSUME NEW p \in Pools, RemoveDevice(p)
        PROVE  ShownIsCurrent' /\ ProblemIsShown' /\ MissingIsRegistered'
    <2>1. note \in [Pools -> Reasons \cup {"missing", "none"}] /\ DOMAIN prev \subseteq Pools
      BY DEF IInv, TypeOK
    <2>2. ShownIsCurrent'
      BY <1>4, <2>1 DEF IInv, RemoveDevice, TypeOK
    <2>3. ProblemIsShown'
      BY <1>4, <2>1 DEF IInv, RemoveDevice
    <2>4. MissingIsRegistered'
      BY <1>4, <2>1 DEF IInv, RemoveDevice
    <2>5. QED
      BY <2>2, <2>3, <2>4
  <1>5. ASSUME NEW p \in Pools, UserDismisses(p)
        PROVE  ShownIsCurrent' /\ ProblemIsShown' /\ MissingIsRegistered'
    BY <1>5 DEF IInv, UserDismisses, TypeOK
  <1>6. CASE Reload
    BY <1>6 DEF IInv, Reload, NewCoordinator
  <1>7. CASE Restart
    BY <1>7 DEF Restart, NewCoordinator
  <1>8. ASSUME NEW p \in Pools, PoolChanges(p)
        PROVE  ShownIsCurrent' /\ ProblemIsShown' /\ MissingIsRegistered'
    BY <1>8 DEF IInv, PoolChanges
  <1>9. CASE UNCHANGED vars
    BY <1>9 DEF IInv, vars
  <1>10. QED
    BY <1>1, <1>2, <1>3, <1>4, <1>5, <1>6, <1>7, <1>8, <1>9 DEF Next

LEMMA SpecIInv == Spec => []IInv
  BY InitIInv, IInvStep, PTL DEF Spec

(* Every reachable state has its type.                                     *)
THEOREM TypeCorrect == Spec => []TypeOK
  <1>1. IInv => TypeOK
    BY DEF IInv
  <1>2. QED
    BY <1>1, SpecIInv, PTL

(* A notification this coordinator raised says what the last poll that     *)
(* could read the pools said (notification_actions, forget_pool).          *)
THEOREM ShownCurrent == Spec => []ShownIsCurrent
  <1>1. IInv => ShownIsCurrent
    BY DEF IInv
  <1>2. QED
    BY <1>1, SpecIInv, PTL

(* A problem in the memory is on the screen, unless it was a silent        *)
(* baseline or the user dismissed it (notification_actions).               *)
THEOREM ProblemShown == Spec => []ProblemIsShown
  <1>1. IInv => ProblemIsShown
    BY DEF IInv
  <1>2. QED
    BY <1>1, SpecIInv, PTL

(* Only a pool with a device is on the screen as missing (missing_pools,   *)
(* forget_pool).                                                           *)
THEOREM MissingRegistered == Spec => []MissingIsRegistered
  <1>1. IInv => MissingIsRegistered
    BY DEF IInv
  <1>2. QED
    BY <1>1, SpecIInv, PTL

-----------------------------------------------------------------------------
(* The cache.  That the pools are finitely many, which PoolCache assumes,  *)
(* is a hypothesis here.                                                   *)
RunningMeansAlive == running <=> \E r \in Readers : at[r] # "idle"

WindowCoversRead ==
  /\ running => imported \in window
  /\ ~running => window = {}
  /\ \A r \in Readers : at[r] = "store" =>
       \/ result[r].ok /\ result[r].list \in window
       \/ ~result[r].ok /\ result[r].list = {}

NotOkEmpty == ~ok => pools = {}
OkDone     == ok => done

CacheInv ==
  /\ Cache!TypeOK
  /\ Cache!OneZpool
  /\ RunningMeansAlive
  /\ WindowCoversRead
  /\ NotOkEmpty
  /\ OkDone

USE DEF Cache!cache, Cache!reader, Cache!http, Cache!host, Cache!hist

LEMMA InitCacheInv == Cache!Init => CacheInv
  <1> SUFFICES ASSUME Cache!Init PROVE CacheInv
    OBVIOUS
  <1> USE DEF Cache!Init
  <1>1. Cache!TypeOK
    BY DEF Cache!TypeOK, Cache!Modes, Cache!Zpools, Cache!Results, Cache!NoResult, Cache!NoAnswer, Cache!AnswerKinds
  <1>2. Cache!OneZpool /\ RunningMeansAlive /\ WindowCoversRead
    BY DEF Cache!OneZpool, RunningMeansAlive, WindowCoversRead
  <1>3. NotOkEmpty /\ OkDone
    BY DEF NotOkEmpty, OkDone
  <1>4. QED
    BY <1>1, <1>2, <1>3 DEF CacheInv

(* The type invariant, action by action.                                   *)
LEMMA CacheTypeStep ==
  ASSUME IsFiniteSet(Pools)
  PROVE  Cache!TypeOK /\ [Cache!Next]_(Cache!vars) => Cache!TypeOK'
  <1> SUFFICES ASSUME Cache!TypeOK, [Cache!Next]_(Cache!vars) PROVE Cache!TypeOK'
    OBVIOUS
  <1> USE DEF Cache!TypeOK, Cache!Modes, Cache!Zpools, Cache!Results, Cache!NoResult
  <1>1. ASSUME NEW r \in Readers, Cache!Refresh(r) PROVE Cache!TypeOK'
    BY <1>1 DEF Cache!Refresh
  <1>2. ASSUME NEW r \in Readers, Cache!ReadMode(r) PROVE Cache!TypeOK'
    BY <1>2 DEF Cache!ReadMode
  <1>3. ASSUME NEW r \in Readers, Cache!RunJSON(r) PROVE Cache!TypeOK'
    BY <1>3 DEF Cache!RunJSON, Cache!Listed, Cache!ReadFailed
  <1>4. ASSUME NEW r \in Readers, Cache!RunText(r) PROVE Cache!TypeOK'
    BY <1>4 DEF Cache!RunText, Cache!Listed, Cache!ReadFailed
  <1>5. ASSUME NEW r \in Readers, Cache!Store(r) PROVE Cache!TypeOK'
    BY <1>5 DEF Cache!Store
  <1>6. ASSUME NEW r \in Readers, Cache!ClearRunning(r) PROVE Cache!TypeOK'
    BY <1>6 DEF Cache!ClearRunning
  <1>7. ASSUME NEW q \in Requests, Cache!PoolsCheck(q) PROVE Cache!TypeOK'
    BY <1>7 DEF Cache!PoolsCheck, Cache!NoAnswer, Cache!Unavailable, Cache!AnswerKinds
  <1>8. ASSUME NEW q \in Requests, Cache!PoolsList(q) PROVE Cache!TypeOK'
    BY <1>8 DEF Cache!PoolsList, Cache!ListAnswer, Cache!AnswerKinds
  <1>9. ASSUME NEW q \in Requests, Cache!HealthStatus(q) PROVE Cache!TypeOK'
    BY <1>9 DEF Cache!HealthStatus, Cache!Status, Cache!NoAnswer, Cache!StatusAnswer, Cache!AnswerKinds
  <1>10. ASSUME NEW q \in Requests, Cache!HealthCount(q) PROVE Cache!TypeOK'
    <2>1. Cardinality(pools) \in Nat
      BY FS_Subset, FS_CardinalityType
    <2>2. Cache!Cardinality(pools) = Cardinality(pools)
      BY DEF Cardinality, Cache!Cardinality
    <2>3. QED
      BY <1>10, <2>1, <2>2 DEF Cache!HealthCount, Cache!CountAnswer, Cache!AnswerKinds
  <1>11. CASE Cache!ImportChanges
    BY <1>11 DEF Cache!ImportChanges
  <1>12. CASE Cache!ZpoolChanges
    BY <1>12 DEF Cache!ZpoolChanges
  <1>13. CASE UNCHANGED Cache!vars
    BY <1>13 DEF Cache!vars
  <1>14. QED
    BY <1>1, <1>2, <1>3, <1>4, <1>5, <1>6, <1>7, <1>8, <1>9, <1>10, <1>11,
       <1>12, <1>13 DEF Cache!Next

(* A request reads the cache and changes nothing but its own answer.       *)
RequestStep(q) ==
  \/ Cache!PoolsCheck(q)   \/ Cache!PoolsList(q)
  \/ Cache!HealthStatus(q) \/ Cache!HealthCount(q)

LEMMA RequestsOnlyRead ==
  ASSUME NEW q \in Requests, RequestStep(q)
  PROVE  UNCHANGED <<Cache!cache, Cache!reader, Cache!host, Cache!hist>>
  BY DEF RequestStep, Cache!PoolsCheck, Cache!PoolsList, Cache!HealthStatus, Cache!HealthCount

LEMMA CacheInvStep ==
  ASSUME IsFiniteSet(Pools)
  PROVE  CacheInv /\ [Cache!Next]_(Cache!vars) => CacheInv'
  <1> SUFFICES ASSUME CacheInv, [Cache!Next]_(Cache!vars) PROVE CacheInv'
    OBVIOUS
  <1>0. Cache!TypeOK'
    BY CacheTypeStep DEF CacheInv
  <1> USE DEF CacheInv, Cache!TypeOK, Cache!OneZpool, RunningMeansAlive, WindowCoversRead,
              NotOkEmpty, OkDone, Cache!Modes, Cache!Results, Cache!NoResult
  <1>1. ASSUME NEW r \in Readers, Cache!Refresh(r) PROVE CacheInv'
    BY <1>0, <1>1 DEF Cache!Refresh
  <1>2. ASSUME NEW r \in Readers, Cache!ReadMode(r) PROVE CacheInv'
    BY <1>0, <1>2 DEF Cache!ReadMode
  <1>3. ASSUME NEW r \in Readers, Cache!RunJSON(r) PROVE CacheInv'
    BY <1>0, <1>3 DEF Cache!RunJSON, Cache!Listed, Cache!ReadFailed
  <1>4. ASSUME NEW r \in Readers, Cache!RunText(r) PROVE CacheInv'
    BY <1>0, <1>4 DEF Cache!RunText, Cache!Listed, Cache!ReadFailed
  <1>5. ASSUME NEW r \in Readers, Cache!Store(r) PROVE CacheInv'
    BY <1>0, <1>5 DEF Cache!Store
  <1>6. ASSUME NEW r \in Readers, Cache!ClearRunning(r) PROVE CacheInv'
    BY <1>0, <1>6 DEF Cache!ClearRunning
  <1>7. ASSUME NEW q \in Requests, RequestStep(q) PROVE CacheInv'
    BY <1>0, <1>7, RequestsOnlyRead
  <1>8. CASE Cache!ImportChanges
    BY <1>0, <1>8 DEF Cache!ImportChanges
  <1>9. CASE Cache!ZpoolChanges
    BY <1>0, <1>9 DEF Cache!ZpoolChanges
  <1>10. CASE UNCHANGED Cache!vars
    BY <1>0, <1>10 DEF Cache!vars
  <1>11. QED
    BY <1>1, <1>2, <1>3, <1>4, <1>5, <1>6, <1>7, <1>8, <1>9, <1>10
       DEF Cache!Next, RequestStep

LEMMA SpecCacheInv ==
  ASSUME IsFiniteSet(Pools)
  PROVE  Cache!Spec => []CacheInv
  BY InitCacheInv, CacheInvStep, PTL DEF Cache!Spec

(* Every variable keeps its type, for every set of pools and goroutines.   *)
THEOREM CacheTypeCorrect ==
  ASSUME IsFiniteSet(Pools)
  PROVE  Cache!Spec => []Cache!TypeOK
  <1>1. CacheInv => Cache!TypeOK
    BY DEF CacheInv
  <1>2. QED
    BY <1>1, SpecCacheInv, PTL

(* "One zpool at a time, however long the kernel holds it" (Refresh).      *)
THEOREM OneZpoolAtATime ==
  ASSUME IsFiniteSet(Pools)
  PROVE  Cache!Spec => []Cache!OneZpool
  <1>1. CacheInv => Cache!OneZpool
    BY DEF CacheInv
  <1>2. QED
    BY <1>1, SpecCacheInv, PTL

(* The cache implements PoolFeed: what is published is "failed" or a list  *)
(* that was true at some moment of the read that published it, and reads   *)
(* do not overlap.                                                         *)
THEOREM CacheImplementsPoolFeed ==
  ASSUME IsFiniteSet(Pools)
  PROVE  Cache!Spec => Cache!ImplementsPoolFeed
  <1>1. Cache!Init => Cache!Abstract!Init
    BY DEF Cache!Init, Cache!Abstract!Init, Cache!Feed, Cache!Status, Cache!Abstract!Pending
  <1>2. CacheInv /\ [Cache!Next]_(Cache!vars) => [Cache!Abstract!Next]_(Cache!Abstract!vars)
    <2> SUFFICES ASSUME CacheInv, [Cache!Next]_(Cache!vars)
                 PROVE  [Cache!Abstract!Next]_(Cache!Abstract!vars)
      OBVIOUS
    <2> USE DEF Cache!Abstract!Next, Cache!Abstract!vars, Cache!Feed, Cache!Status
    <2>1. ASSUME NEW r \in Readers, Cache!Refresh(r) PROVE Cache!Abstract!StartRead
      BY <2>1 DEF Cache!Refresh, Cache!Abstract!StartRead
    <2>2. ASSUME NEW r \in Readers, Cache!ReadMode(r) \/ Cache!RunJSON(r) \/ Cache!RunText(r)
          PROVE  UNCHANGED Cache!Abstract!vars
      BY <2>2 DEF Cache!ReadMode, Cache!RunJSON, Cache!RunText
    <2>3. ASSUME NEW r \in Readers, Cache!Store(r) PROVE Cache!Abstract!Publish
      <3>1. running
        BY <2>3 DEF Cache!Store, CacheInv, RunningMeansAlive
      <3>2. Cache!Feed' \in {Cache!Abstract!Failed} \cup {Cache!Abstract!Listed(L) : L \in window}
        BY <2>3 DEF Cache!Store, CacheInv, Cache!TypeOK, Cache!Results, WindowCoversRead,
                    Cache!Abstract!Failed, Cache!Abstract!Listed
      <3>3. QED
        BY <2>3, <3>1, <3>2 DEF Cache!Store, Cache!Abstract!Publish
    <2>4. ASSUME NEW r \in Readers, Cache!ClearRunning(r) PROVE Cache!Abstract!EndRead
      BY <2>4 DEF Cache!ClearRunning, Cache!Abstract!EndRead, CacheInv, RunningMeansAlive
    <2>5. ASSUME NEW q \in Requests, RequestStep(q) PROVE UNCHANGED Cache!Abstract!vars
      BY <2>5, RequestsOnlyRead
    <2>6. CASE Cache!ImportChanges
      BY <2>6 DEF Cache!ImportChanges, Cache!Abstract!ImportChanges
    <2>7. CASE Cache!ZpoolChanges
      BY <2>7 DEF Cache!ZpoolChanges
    <2>8. CASE UNCHANGED Cache!vars
      BY <2>8 DEF Cache!vars
    <2>9. QED
      BY <2>1, <2>2, <2>3, <2>4, <2>5, <2>6, <2>7, <2>8 DEF Cache!Next, RequestStep
  <1>3. QED
    BY <1>1, <1>2, SpecCacheInv, PTL DEF Cache!Spec, Cache!ImplementsPoolFeed, Cache!Abstract!Spec

(* The agent checks that a read succeeded and takes its list in two        *)
(* critical sections (HandlePools, health), and a failed read may come     *)
(* between: not every list that goes out was read.  But no other list can  *)
(* go out than one that zpool returned or the empty one.                   *)
ReadOrEmpty(L) == L \in returned \cup {{}}

AnswersReadOrEmpty ==
  \A q \in Requests :
    /\ resp[q].kind = "list" => ReadOrEmpty(resp[q].list)
    /\ resp[q].kind = "count" =>
         \E L \in returned \cup {{}} : resp[q].count = Cache!Cardinality(L)

AnswerInv ==
  /\ CacheInv
  /\ ReadOrEmpty(pools)
  /\ \A r \in Readers : result[r].ok => result[r].list \in returned
  /\ AnswersReadOrEmpty

LEMMA AnswerInvStep ==
  ASSUME IsFiniteSet(Pools)
  PROVE  AnswerInv /\ [Cache!Next]_(Cache!vars) => AnswerInv'
  <1> SUFFICES ASSUME AnswerInv, [Cache!Next]_(Cache!vars) PROVE AnswerInv'
    OBVIOUS
  <1>0. CacheInv'
    BY CacheInvStep DEF AnswerInv
  <1> USE DEF AnswerInv, AnswersReadOrEmpty, ReadOrEmpty
  <1>1. ASSUME NEW r \in Readers, Cache!Refresh(r) \/ Cache!ReadMode(r) PROVE AnswerInv'
    BY <1>0, <1>1 DEF Cache!Refresh, Cache!ReadMode
  <1>2. ASSUME NEW r \in Readers, Cache!RunJSON(r) \/ Cache!RunText(r) PROVE AnswerInv'
    <2>1. /\ returned \subseteq returned'
          /\ UNCHANGED <<Cache!cache, Cache!http>>
          /\ result'[r].ok => result'[r].list \in returned'
          /\ \A s \in Readers \ {r} : result'[s] = result[s]
      BY <1>2 DEF Cache!RunJSON, Cache!RunText, Cache!Listed, Cache!ReadFailed, Cache!NoResult,
                  CacheInv, Cache!TypeOK
    <2>2. \A s \in Readers : result'[s].ok => result'[s].list \in returned'
      BY <2>1
    <2>3. QED
      BY <1>0, <2>1, <2>2
  <1>3. ASSUME NEW r \in Readers, Cache!Store(r) PROVE AnswerInv'
    <2>1. result[r].ok \/ result[r].list = {}
      BY <1>3 DEF Cache!Store, CacheInv, WindowCoversRead
    <2>2. QED
      BY <1>0, <1>3, <2>1 DEF Cache!Store
  <1>4. ASSUME NEW r \in Readers, Cache!ClearRunning(r) PROVE AnswerInv'
    BY <1>0, <1>4 DEF Cache!ClearRunning, Cache!NoResult, CacheInv, Cache!TypeOK
  <1>5. ASSUME NEW q \in Requests, RequestStep(q) PROVE AnswerInv'
    <2>1. UNCHANGED <<Cache!cache, Cache!reader, Cache!host, Cache!hist>>
      BY <1>5, RequestsOnlyRead
    <2>2. /\ \A p \in Requests \ {q} : resp'[p] = resp[p]
          /\ resp'[q].kind = "list" => resp'[q].list = pools
          /\ resp'[q].kind = "count" => resp'[q].count = Cache!Cardinality(pools)
      BY <1>5 DEF RequestStep, Cache!PoolsCheck, Cache!PoolsList, Cache!HealthStatus,
                  Cache!HealthCount, Cache!NoAnswer, Cache!Unavailable, Cache!ListAnswer,
                  Cache!StatusAnswer, Cache!CountAnswer, Cache!Status, CacheInv, Cache!TypeOK
    <2>3. AnswersReadOrEmpty'
      BY <2>1, <2>2
    <2>4. QED
      BY <1>0, <2>1, <2>3
  <1>6. CASE Cache!ImportChanges \/ Cache!ZpoolChanges
    BY <1>0, <1>6 DEF Cache!ImportChanges, Cache!ZpoolChanges
  <1>7. CASE UNCHANGED Cache!vars
    BY <1>0, <1>7 DEF Cache!vars
  <1>8. QED
    BY <1>1, <1>2, <1>3, <1>4, <1>5, <1>6, <1>7 DEF Cache!Next, RequestStep

(* What AnswersMeanRead misses by: the only list, or count, that goes out  *)
(* without having been read is that of no pools (HandlePools, health).     *)
THEOREM WrongAnswersAreEmpty ==
  ASSUME IsFiniteSet(Pools)
  PROVE  Cache!Spec => []AnswersReadOrEmpty
  <1>1. Cache!Init => AnswerInv
    BY InitCacheInv DEF Cache!Init, AnswerInv, AnswersReadOrEmpty, ReadOrEmpty,
                        Cache!NoResult, Cache!NoAnswer
  <1>2. AnswerInv /\ [Cache!Next]_(Cache!vars) => AnswerInv'
    BY AnswerInvStep
  <1>3. AnswerInv => AnswersReadOrEmpty
    BY DEF AnswerInv
  <1>4. QED
    BY <1>1, <1>2, <1>3, PTL DEF Cache!Spec
=============================================================================
