-------------------------- MODULE DriveNoticesProofs --------------------------
(***************************************************************************)
(* DriveNotices for any drives, reasons and number of interruptions.       *)
(*                                                                         *)
(* IInv holds whatever interrupts the coordinator.  That UNSUPPORTED is    *)
(* never raised rests on SeenJudged: what was judged by its SMART data is  *)
(* in SmartPresence, so losing it is noticed, and removing a device cannot *)
(* break this because the memory holds only listed drives (PrevListed).    *)
(*                                                                         *)
(* TellInv: while only orderly stops interrupt it, the record, what the    *)
(* user was told, and the file (once nothing is pending) are one.          *)
(***************************************************************************)
EXTENDS DriveNotices, TLAPS

SeenJudged == \A d \in DOMAIN prev : prev[d].state # "UNSUPPORTED" => d \in seen
PrevListed == DOMAIN prev \subseteq names

IInv ==
  /\ TypeOK
  /\ SeenJudged
  /\ PrevListed
  /\ ShownIsCurrent
  /\ ProblemIsShown
  /\ UnsupportedNeverRaised

USE DEF store, history

LEMMA AnswerType ==
  ASSUME NEW a \in Answers
  PROVE  /\ DOMAIN a.list \subseteq Drives
         /\ \A d \in DOMAIN a.list : a.list[d] \in Report
         /\ a.kind \in {"none", "failed", "listed"}
  <1>1. CASE a \in {NoAnswer, Answer("failed", << >>)}
    BY <1>1 DEF NoAnswer, Answer
  <1>2. CASE a \in {Answer("listed", L) : L \in Lists}
    <2>1. PICK L \in Lists : a = Answer("listed", L)
      BY <1>2
    <2>2. PICK S \in SUBSET Drives : L \in [S -> Report]
      BY <2>1 DEF Lists
    <2>3. a.list = L /\ a.kind = "listed"
      BY <2>1 DEF Answer
    <2>4. QED
      BY <2>2, <2>3
  <1>3. QED
    BY <1>1, <1>2 DEF Answers

LEMMA VerdictReasons ==
  ASSUME NEW v \in Verdict
  PROVE  /\ v.reasons \subseteq Reasons
         /\ v.state \in {"NO", "UNSUPPORTED", "MAYBE", "YES"}
         /\ ~Problem(v) => v.reasons = {}
         /\ v.state = "UNSUPPORTED" => v = Unsupported
  BY DEF Verdict, Problem, Unsupported

LEMMA ReplyType ==
  ASSUME TypeOK
  PROVE  /\ DOMAIN reply.list \subseteq Drives
         /\ Judged \subseteq DOMAIN reply.list
         /\ \A d \in DOMAIN reply.list : Now(d) \in Verdict
  <1>1. reply \in Answers
    BY DEF TypeOK
  <1>2. /\ DOMAIN reply.list \subseteq Drives
        /\ \A d \in DOMAIN reply.list : reply.list[d] \in Report
    BY <1>1, AnswerType
  <1>3. \A r \in Report : r.verdict \in Verdict
    BY DEF Report
  <1>4. QED
    BY <1>2, <1>3 DEF Judged, Now

(* What is announced or raised was judged in this poll and is a problem,   *)
(* unless it is the informational notification.                            *)
LEMMA SaidFacts ==
  ASSUME TypeOK, NEW d \in Announced \cup Raised
  PROVE  /\ d \in Judged /\ d \in Drives
         /\ Now(d) \in Verdict
         /\ Now(d).state # "NO"
         /\ d \in Announced => Problem(Now(d))
  <1>1. d \in Judged
    BY DEF Announced, Raised, First, Changed
  <1>2. d \in Drives /\ Now(d) \in Verdict
    BY <1>1, ReplyType
  <1>3. ASSUME d \in Announced PROVE Problem(Now(d))
    <2>1. Readings(d) # {}
      BY <1>3 DEF Announced
    <2>2. Now(d).reasons # {}
      BY <2>1 DEF Readings
    <2>3. QED
      BY <1>2, <2>2, VerdictReasons
  <1>4. Now(d).state # "NO"
    BY <1>3 DEF Raised, Problem
  <1>5. QED
    BY <1>1, <1>2, <1>3, <1>4

LEMMA ReadingsType ==
  ASSUME TypeOK, NEW d \in Judged
  PROVE  /\ Readings(d) \in SUBSET GapReasons
         /\ ~Problem(Now(d)) => Readings(d) = {}
         /\ d \notin HasSerial => Readings(d) = {}
  <1>1. Now(d) \in Verdict
    BY ReplyType
  <1>2. ~Problem(Now(d)) => Now(d).reasons = {}
    BY <1>1, VerdictReasons
  <1>3. QED
    BY <1>2 DEF Readings

(* How the new memory is made.                                             *)
LEMMA RememberedFacts ==
  ASSUME TypeOK
  PROVE  /\ DOMAIN Remembered \subseteq DOMAIN reply.list
         /\ Judged \subseteq DOMAIN Remembered
         /\ \A d \in Judged : Remembered[d] = Now(d)
         /\ \A d \in DOMAIN Remembered \ Judged : d \in DOMAIN prev /\ Remembered[d] = prev[d]
         /\ \A d \in DOMAIN Remembered : Remembered[d] \in Verdict
  <1>1. DOMAIN Remembered = Judged \cup (DOMAIN prev \cap DOMAIN reply.list)
    BY DEF Remembered
  <1>2. \A d \in Judged : Remembered[d] = Now(d)
    BY DEF Remembered
  <1>3. \A d \in DOMAIN Remembered \ Judged : d \in DOMAIN prev /\ Remembered[d] = prev[d]
    BY DEF Remembered
  <1>4. \A d \in DOMAIN prev : prev[d] \in Verdict
    BY DEF TypeOK
  <1>5. QED
    BY <1>1, <1>2, <1>3, <1>4, ReplyType

-----------------------------------------------------------------------------
LEMMA InitIInv == Init => IInv
  <1> SUFFICES ASSUME Init PROVE IInv
    OBVIOUS
  <1>1. reply \in Answers
    BY DEF Init, Answers
  <1>2. note \in [Drives -> Notes]
    BY DEF Init, Notes, NoNote
  <1>3. announced \in Records /\ file \in Records /\ told \in Records
    BY DEF Init, Records, NoRecords
  <1>4. TypeOK
    <2>1. DOMAIN prev \subseteq Drives /\ \A d \in DOMAIN prev : prev[d] \in Verdict
      BY DEF Init
    <2>2. /\ seen \subseteq Drives /\ lost \subseteq Drives /\ names \subseteq Drives
          /\ mine \subseteq Drives /\ quiet \subseteq Drives /\ repeated \subseteq Drives
          /\ leftovers \subseteq Records
          /\ loads \in Nat
      BY DEF Init
    <2>3. lastOk \in BOOLEAN /\ pending \in BOOLEAN /\ orderly \in BOOLEAN
      BY DEF Init
    <2>4. QED
      BY <1>1, <1>2, <1>3, <2>1, <2>2, <2>3 DEF TypeOK
  <1>5. SeenJudged /\ PrevListed /\ ShownIsCurrent /\ ProblemIsShown
    BY DEF Init, SeenJudged, PrevListed, ShownIsCurrent, ProblemIsShown
  <1>6. UnsupportedNeverRaised
    BY DEF Init, UnsupportedNeverRaised, NoNote, Unsupported
  <1>7. QED
    BY <1>4, <1>5, <1>6 DEF IInv

LEMMA HandleType == TypeOK /\ Handle => TypeOK'
  <1> SUFFICES ASSUME TypeOK, Handle PROVE TypeOK'
    OBVIOUS
  <1>1. DOMAIN prev' \subseteq Drives /\ \A d \in DOMAIN prev' : prev'[d] \in Verdict
    BY RememberedFacts, ReplyType DEF Handle
  <1>2. note' \in [Drives -> Notes]
    <2>1. \A d \in Announced \cup Raised : Now(d) \in Notes
      BY SaidFacts DEF Notes
    <2>2. NoNote \in Notes
      BY DEF Notes, NoNote
    <2>3. QED
      BY <2>1, <2>2 DEF Handle, TypeOK
  <1>3. announced' \in Records
    <2>1. \A d \in Judged : Recorded(d) \in SUBSET GapReasons
      <3>1. TAKE d \in Judged
      <3>2. announced[d] \in SUBSET GapReasons
        BY ReplyType DEF TypeOK, Records
      <3>3. QED
        BY <3>2, ReadingsType DEF Recorded
    <2>2. QED
      BY <2>1 DEF Handle, TypeOK, Records
  <1>4. told' \in Records
    <2>1. \A d \in Announced \cup Raised : Readings(d) \in SUBSET GapReasons
      BY SaidFacts, ReadingsType
    <2>2. QED
      BY <2>1 DEF Handle, TypeOK, Records
  <1>5. reply' \in Answers
    BY DEF Handle, Answers
  <1>6. pending' \in BOOLEAN
    BY DEF Handle, TypeOK
  <1>7. Announced \subseteq Drives /\ Raised \subseteq Drives
    BY SaidFacts
  <1>8. /\ seen' \subseteq Drives /\ lost' \subseteq Drives /\ names' \subseteq Drives
        /\ quiet' \subseteq Drives
    BY ReplyType, RememberedFacts DEF Handle, TypeOK, LostNow
  <1>9. mine' \subseteq Drives /\ repeated' \subseteq Drives
    BY <1>7 DEF Handle, TypeOK
  <1>10. QED
    BY <1>1, <1>2, <1>3, <1>4, <1>5, <1>6, <1>8, <1>9 DEF Handle, TypeOK

LEMMA NewCoordinatorType ==
  ASSUME TypeOK, NewCoordinator, file' \in Records, leftovers' \subseteq Records,
         note' \in [Drives -> Notes], orderly' \in BOOLEAN
  PROVE  TypeOK'
  <1>1. reply' \in Answers
    BY DEF NewCoordinator, Answers
  <1>2. DOMAIN prev' \subseteq Drives /\ \A d \in DOMAIN prev' : prev'[d] \in Verdict
    BY DEF NewCoordinator
  <1>3. loads' \in Nat
    BY DEF NewCoordinator, TypeOK
  <1>4. QED
    BY <1>1, <1>2, <1>3 DEF NewCoordinator, TypeOK

LEMMA ClearsType == Clears => leftovers' \subseteq Records /\ note' \in [Drives -> Notes]
  BY DEF Clears, Notes, NoNote

LEMMA StopSavesType == TypeOK /\ StopSaves => file' \in Records
  <1> SUFFICES ASSUME TypeOK, StopSaves PROVE file' \in Records
    OBVIOUS
  <1> DEFINE due == leftovers \cup IF pending THEN {announced} ELSE {}
  <1>1. due \subseteq Records
    BY DEF TypeOK
  <1>2. file' = file \/ file' \in due
    BY DEF StopSaves
  <1>3. QED
    BY <1>1, <1>2 DEF TypeOK

LEMMA ForgetType ==
  ASSUME TypeOK, NEW d \in Drives, Forget(d)
  PROVE  TypeOK'
  <1>1. announced' \in Records /\ told' \in Records
    BY DEF Forget, TypeOK, Records
  <1>2. pending' \in BOOLEAN
    BY DEF Forget, TypeOK
  <1>3. QED
    BY <1>1, <1>2 DEF Forget, TypeOK

(* The type invariant, action by action.                                   *)
LEMMA TypeStep == TypeOK /\ [Next]_vars => TypeOK'
  <1> SUFFICES ASSUME TypeOK, [Next]_vars PROVE TypeOK'
    OBVIOUS
  <1>1. CASE Fetch
    BY <1>1 DEF Fetch, TypeOK
  <1>2. CASE Handle
    BY <1>2, HandleType
  <1>3. CASE HandleFailed
    <2>1. reply' \in Answers
      BY <1>3 DEF HandleFailed, Answers
    <2>2. QED
      BY <1>3, <2>1 DEF HandleFailed, TypeOK
  <1>4. ASSUME NEW d \in Drives, Forget(d) PROVE TypeOK'
    BY <1>4, ForgetType
  <1>5. ASSUME NEW d \in Drives, UserDismisses(d) PROVE TypeOK'
    <2>0. NoNote \in Notes
      BY DEF Notes, NoNote
    <2>1. note' \in [Drives -> Notes]
      BY <1>5, <2>0 DEF UserDismisses, TypeOK
    <2>2. QED
      BY <1>5, <2>1 DEF UserDismisses, TypeOK
  <1>6. CASE Save
    BY <1>6 DEF Save, TypeOK
  <1>7. CASE SaveLeftover
    BY <1>7 DEF SaveLeftover, TypeOK
  <1>8. CASE Reload
    <2>1. file' \in Records /\ leftovers' \subseteq Records /\ note' \in [Drives -> Notes]
      BY <1>8 DEF Reload, TypeOK
    <2>2. QED
      BY <1>8, <2>1, NewCoordinatorType DEF Reload
  <1>9. CASE Stop
    <2>1. orderly' \in BOOLEAN
      BY <1>9 DEF Stop, TypeOK
    <2>2. QED
      BY <1>9, <2>1, StopSavesType, ClearsType, NewCoordinatorType DEF Stop
  <1>10. CASE Crash
    <2>1. file' \in Records
      BY <1>10 DEF Crash, TypeOK
    <2>2. QED
      BY <1>10, <2>1, ClearsType, NewCoordinatorType DEF Crash
  <1>11. CASE UNCHANGED vars
    BY <1>11 DEF vars, TypeOK
  <1>12. QED
    BY <1>1, <1>2, <1>3, <1>4, <1>5, <1>6, <1>7, <1>8, <1>9, <1>10, <1>11 DEF Next

-----------------------------------------------------------------------------
(* Handle, one property at a time.                                         *)
LEMMA HandleSeen == IInv /\ Handle => SeenJudged' /\ PrevListed'
  <1> SUFFICES ASSUME IInv, Handle PROVE SeenJudged' /\ PrevListed'
    OBVIOUS
  <1> TypeOK
    BY DEF IInv
  <1>1. prev' = Remembered /\ names' = DOMAIN reply.list
    BY DEF Handle
  <1>2. seen' = seen \cup {d \in DOMAIN reply.list : Usable(reply.list[d])}
    BY DEF Handle
  <1>3. ASSUME NEW d \in DOMAIN Remembered, Remembered[d].state # "UNSUPPORTED"
        PROVE  d \in seen'
    <2>1. CASE d \in Judged
      BY <1>2, <1>3, <2>1, RememberedFacts DEF Usable, Now
    <2>2. CASE d \notin Judged
      <3>1. d \in DOMAIN prev /\ prev[d].state # "UNSUPPORTED"
        BY <1>3, <2>2, RememberedFacts
      <3>2. QED
        BY <1>2, <3>1 DEF IInv, SeenJudged
    <2>3. QED
      BY <2>1, <2>2
  <1>4. QED
    BY <1>1, <1>3, RememberedFacts DEF SeenJudged, PrevListed

LEMMA HandleShown == IInv /\ Handle => ShownIsCurrent'
  <1> SUFFICES ASSUME IInv, Handle, NEW d \in mine'
               PROVE  d \in DOMAIN prev' /\ note'[d] = prev'[d]
    BY DEF ShownIsCurrent
  <1> TypeOK
    BY DEF IInv
  <1>1. prev' = Remembered /\ mine' = (mine \cup Announced \cup Raised) \ Dismissed
    BY DEF Handle
  <1>2. CASE d \in Announced \cup Raised
    <2>1. d \in Judged /\ d \in Drives
      BY <1>2, SaidFacts
    <2>2. note'[d] = Now(d)
      BY <1>2, <2>1 DEF Handle
    <2>3. QED
      BY <1>1, <2>1, <2>2, RememberedFacts
  <1>3. CASE d \notin Announced \cup Raised
    <2>1. d \in mine /\ d \notin Dismissed /\ d \in Drives
      BY <1>1, <1>3 DEF TypeOK
    <2>2. d \in DOMAIN prev /\ note[d] = prev[d]
      BY <2>1 DEF IInv, ShownIsCurrent
    <2>3. note'[d] = note[d]
      BY <1>3, <2>1 DEF Handle
    <2>4. d \in DOMAIN reply.list
      BY <2>1, <2>2 DEF Dismissed, Gone
    <2>5. d \in DOMAIN Remembered
      BY <2>2, <2>4 DEF Remembered
    <2>6. CASE d \in Judged
      <3>1. Now(d) = prev[d]
        BY <1>3, <2>1, <2>2, <2>6 DEF Changed, Raised, Dismissed
      <3>2. QED
        BY <1>1, <2>2, <2>3, <2>5, <2>6, <3>1, RememberedFacts
    <2>7. CASE d \notin Judged
      BY <1>1, <2>2, <2>3, <2>5, <2>7, RememberedFacts
    <2>8. QED
      BY <2>6, <2>7
  <1>4. QED
    BY <1>2, <1>3

LEMMA HandleProblem == IInv /\ Handle => ProblemIsShown'
  <1> SUFFICES ASSUME IInv, Handle, NEW d \in DOMAIN prev', Problem(prev'[d]), d \notin quiet'
               PROVE  note'[d] = prev'[d]
    BY DEF ProblemIsShown, Problem
  <1> TypeOK
    BY DEF IInv
  <1>1. prev' = Remembered /\ d \in DOMAIN Remembered /\ Problem(Remembered[d])
    BY DEF Handle, Problem
  <1>2. d \in Drives /\ d \in DOMAIN reply.list
    BY <1>1, RememberedFacts, ReplyType
  <1>3. CASE d \in Announced \cup Raised
    <2>1. note'[d] = Now(d)
      BY <1>2, <1>3 DEF Handle
    <2>2. QED
      BY <1>1, <1>3, <2>1, SaidFacts, RememberedFacts
  <1>4. CASE d \notin Announced \cup Raised
    <2>1. ~Unsaid(d) /\ d \notin quiet
      BY <1>1, <1>4 DEF Handle
    <2>2. d \in DOMAIN prev /\ Remembered[d] = prev[d] /\ d \notin Dismissed
      <3>1. CASE d \in Judged
        <4>1. Remembered[d] = Now(d)
          BY <3>1, RememberedFacts
        <4>2. d \in DOMAIN prev
          BY <1>4, <2>1, <3>1 DEF Unsaid, First
        <4>3. Now(d).state # "NO"
          BY <1>1, <4>1 DEF Problem
        <4>4. d \notin Changed
          BY <1>4, <4>3 DEF Raised
        <4>5. Now(d) = prev[d]
          BY <3>1, <4>2, <4>4 DEF Changed
        <4>6. QED
          BY <1>2, <4>1, <4>2, <4>4, <4>5 DEF Dismissed, Gone
      <3>2. CASE d \notin Judged
        BY <1>1, <1>2, <3>2, RememberedFacts DEF Dismissed, Gone, Changed
      <3>3. QED
        BY <3>1, <3>2
    <2>3. note[d] = prev[d]
      BY <1>1, <2>1, <2>2 DEF IInv, ProblemIsShown
    <2>4. note'[d] = note[d]
      BY <1>2, <1>4, <2>2 DEF Handle
    <2>5. QED
      BY <1>1, <2>2, <2>3, <2>4
  <1>5. QED
    BY <1>3, <1>4

(* A drive that is judged without usable SMART data has never given any in *)
(* this load, so it was UNSUPPORTED before and nothing has changed.        *)
LEMMA HandleUnsupported == IInv /\ Handle => UnsupportedNeverRaised'
  <1> SUFFICES ASSUME IInv, Handle, NEW d \in Drives, note'[d] = Unsupported
               PROVE  FALSE
    BY DEF UnsupportedNeverRaised, Unsupported
  <1> TypeOK
    BY DEF IInv
  <1>1. CASE d \notin Announced \cup Raised
    <2>1. note'[d] = note[d] \/ note'[d] = NoNote
      BY <1>1 DEF Handle
    <2>2. QED
      BY <2>1 DEF IInv, UnsupportedNeverRaised, NoNote, Unsupported
  <1>2. CASE d \in Announced \cup Raised
    <2>1. Now(d) = Unsupported
      BY <1>2 DEF Handle
    <2>2. d \in Raised /\ d \in Judged
      BY <1>2, <2>1, SaidFacts DEF Problem, Unsupported
    <2>3. d \in DOMAIN prev /\ prev[d] # Unsupported
      BY <2>1, <2>2 DEF Raised, Changed
    <2>4. d \notin seen
      BY <2>1, <2>2 DEF Judged, LostNow, Usable, Now, Unsupported
    <2>5. prev[d] \in Verdict /\ prev[d].state = "UNSUPPORTED"
      BY <2>3, <2>4 DEF IInv, SeenJudged, TypeOK
    <2>6. QED
      BY <2>3, <2>5, VerdictReasons
  <1>3. QED
    BY <1>1, <1>2

(* Starting again: nothing is remembered, and nothing new is shown.        *)
LEMMA NewCoordinatorStep ==
  ASSUME IInv, NewCoordinator, \A d \in Drives : note'[d] \in {note[d], NoNote}
  PROVE  /\ SeenJudged' /\ PrevListed'
         /\ ShownIsCurrent' /\ ProblemIsShown' /\ UnsupportedNeverRaised'
  <1>1. SeenJudged' /\ PrevListed' /\ ShownIsCurrent' /\ ProblemIsShown'
    BY DEF NewCoordinator, SeenJudged, PrevListed, ShownIsCurrent, ProblemIsShown
  <1>2. UnsupportedNeverRaised'
    BY DEF IInv, UnsupportedNeverRaised, NoNote, Unsupported
  <1>3. QED
    BY <1>1, <1>2

LEMMA IInvStep == IInv /\ [Next]_vars => IInv'
  <1> SUFFICES ASSUME IInv, [Next]_vars
               PROVE  /\ SeenJudged' /\ PrevListed'
                      /\ ShownIsCurrent' /\ ProblemIsShown' /\ UnsupportedNeverRaised'
    BY TypeStep DEF IInv
  <1> DEFINE Rest == /\ SeenJudged' /\ PrevListed'
                     /\ ShownIsCurrent' /\ ProblemIsShown' /\ UnsupportedNeverRaised'
  <1>1. CASE Fetch \/ HandleFailed \/ Save \/ SaveLeftover \/ UNCHANGED vars
    <2>1. UNCHANGED <<prev, seen, names, note, mine, quiet>>
      BY <1>1 DEF Fetch, HandleFailed, Save, SaveLeftover, vars
    <2>2. QED
      BY <2>1 DEF IInv, SeenJudged, PrevListed, ShownIsCurrent, ProblemIsShown,
                  UnsupportedNeverRaised, Problem, Unsupported
  <1>2. CASE Handle
    BY <1>2, HandleSeen, HandleShown, HandleProblem, HandleUnsupported
  <1>3. ASSUME NEW d \in Drives, Forget(d) PROVE Rest
    <2>1. d \notin DOMAIN prev
      BY <1>3 DEF Forget, IInv, PrevListed
    <2>2. UNCHANGED <<prev, names, note, mine, quiet>> /\ seen' = seen \ {d}
      BY <1>3 DEF Forget
    <2>3. QED
      BY <2>1, <2>2 DEF IInv, SeenJudged, PrevListed, ShownIsCurrent, ProblemIsShown,
                        UnsupportedNeverRaised, Problem, Unsupported
  <1>4. ASSUME NEW d \in Drives, UserDismisses(d) PROVE Rest
    <2>1. note' = [note EXCEPT ![d] = NoNote] /\ mine' = mine \ {d}
      BY <1>4 DEF UserDismisses
    <2>2. UNCHANGED <<prev, seen, names>>
      BY <1>4 DEF UserDismisses
    <2>3. d \in DOMAIN prev /\ Problem(prev[d]) => d \in quiet'
      BY <1>4 DEF UserDismisses
    <2>4. quiet \subseteq quiet'
      BY <1>4 DEF UserDismisses
    <2>5. note \in [Drives -> Notes] /\ DOMAIN prev \subseteq Drives /\ mine \subseteq Drives
      BY DEF IInv, TypeOK
    <2>6. SeenJudged' /\ PrevListed'
      BY <2>2 DEF IInv, SeenJudged, PrevListed
    <2>7. ShownIsCurrent'
      BY <2>1, <2>2, <2>5 DEF IInv, ShownIsCurrent
    <2>8. ProblemIsShown'
      BY <2>1, <2>2, <2>3, <2>4, <2>5 DEF IInv, ProblemIsShown, Problem
    <2>9. UnsupportedNeverRaised'
      BY <2>1, <2>5 DEF IInv, UnsupportedNeverRaised, NoNote, Unsupported
    <2>10. QED
      BY <2>6, <2>7, <2>8, <2>9
  <1>5. CASE Reload
    BY <1>5, NewCoordinatorStep DEF Reload
  <1>6. CASE Stop
    BY <1>6, NewCoordinatorStep DEF Stop, Clears
  <1>7. CASE Crash
    BY <1>7, NewCoordinatorStep DEF Crash, Clears
  <1>8. QED
    BY <1>1, <1>2, <1>3, <1>4, <1>5, <1>6, <1>7 DEF Next

LEMMA SpecIInv == Spec => []IInv
  BY InitIInv, IInvStep, PTL DEF Spec

(* Every reachable state has its type.                                     *)
THEOREM TypeCorrect == Spec => []TypeOK
  <1>1. IInv => TypeOK
    BY DEF IInv
  <1>2. QED
    BY <1>1, SpecIInv, PTL

(* A notification this coordinator raised says what it last judged of the  *)
(* drive (_handle_attention_notifications).                                *)
THEOREM ShownCurrent == Spec => []ShownIsCurrent
  <1>1. IInv => ShownIsCurrent
    BY DEF IInv
  <1>2. QED
    BY <1>1, SpecIInv, PTL

(* A drive last judged MAYBE or YES has its notification, unless that was  *)
(* a silent baseline or the user dismissed it, also while it is lost.      *)
THEOREM ProblemShown == Spec => []ProblemIsShown
  <1>1. IInv => ProblemIsShown
    BY DEF IInv
  <1>2. QED
    BY <1>1, SpecIInv, PTL

(* "The informational notification is no longer raised at all" (module     *)
(* docstring of coordinator.py).                                           *)
THEOREM UnsupportedUnraised == Spec => []UnsupportedNeverRaised
  <1>1. IInv => UnsupportedNeverRaised
    BY DEF IInv
  <1>2. QED
    BY <1>1, SpecIInv, PTL

-----------------------------------------------------------------------------
OneRecord ==
  /\ repeated = {}
  /\ told = announced
  /\ leftovers = {}
  /\ ~pending => file = announced
  /\ \A d \in Drives \ HasSerial : announced[d] = {}

TellInv ==
  /\ IInv
  /\ orderly => OneRecord
  /\ GapIsTold

LEMMA InitTellInv == Init => TellInv
  BY InitIInv DEF Init, TellInv, OneRecord, GapIsTold, NoRecords

(* What is told is what is recorded, and nothing recorded is told again.   *)
LEMMA HandleOneRecord == TellInv /\ Handle /\ orderly => OneRecord'
  <1> SUFFICES ASSUME TellInv, Handle, orderly PROVE OneRecord'
    OBVIOUS
  <1> TypeOK
    BY DEF TellInv, IInv
  <1>1. told = announced /\ leftovers = {} /\ (~pending => file = announced)
    BY DEF TellInv, OneRecord
  <1>2. ASSUME NEW d \in Drives PROVE told'[d] = announced'[d]
    <2>1. CASE d \in Announced \cup Raised
      <3>1. d \in Judged /\ told'[d] = told[d] \cup Readings(d)
        BY <2>1, SaidFacts DEF Handle
      <3>2. announced'[d] = Recorded(d)
        BY <3>1 DEF Handle
      <3>3. Problem(Now(d)) \/ Readings(d) = {}
        BY <3>1, ReadingsType
      <3>4. QED
        BY <1>1, <2>1, <3>1, <3>2, <3>3 DEF Recorded
    <2>2. CASE d \notin Announced \cup Raised
      BY <1>1, <2>2 DEF Handle, Recorded
    <2>3. QED
      BY <2>1, <2>2
  <1>3. told' = announced'
    <2>1. told' \in Records /\ announced' \in Records
      BY HandleType DEF TypeOK
    <2>2. QED
      BY <1>2, <2>1 DEF Records
  <1>4. leftovers' = {} /\ (~pending' => file' = announced')
    BY <1>1 DEF Handle
  <1>5. ASSUME NEW d \in Drives \ HasSerial PROVE announced'[d] = {}
    <2>1. announced[d] = {}
      BY DEF TellInv, OneRecord
    <2>2. CASE d \in Judged
      BY <2>1, <2>2, ReadingsType DEF Handle, Recorded
    <2>3. CASE d \notin Judged
      BY <2>1, <2>3 DEF Handle
    <2>4. QED
      BY <2>2, <2>3
  <1>6. \A d \in Announced : ~(Readings(d) \subseteq told[d])
    BY <1>1 DEF Announced
  <1>7. repeated' = {}
    BY <1>6 DEF Handle, TellInv, OneRecord
  <1>8. QED
    BY <1>3, <1>4, <1>5, <1>7 DEF OneRecord

LEMMA HandleGap == TellInv /\ Handle => GapIsTold'
  <1> SUFFICES ASSUME TellInv, Handle, orderly, NEW d \in DOMAIN prev' \cap HasSerial
               PROVE  prev'[d].reasons \cap GapReasons \subseteq told'[d]
    BY DEF GapIsTold, Handle
  <1> TypeOK
    BY DEF TellInv, IInv
  <1>1. told = announced
    BY DEF TellInv, OneRecord
  <1>2. prev' = Remembered /\ d \in DOMAIN Remembered /\ d \in Drives
    BY DrivesAssumption DEF Handle
  <1>3. told'[d] = IF d \in Announced \cup Raised THEN told[d] \cup Readings(d) ELSE told[d]
    BY <1>2 DEF Handle
  <1>4. d \in DOMAIN prev => prev[d].reasons \cap GapReasons \subseteq told[d]
    BY DEF TellInv, GapIsTold
  <1>5. CASE d \in Judged
    <2>1. prev'[d] = Now(d) /\ Readings(d) = Now(d).reasons \cap GapReasons
      BY <1>2, <1>5, RememberedFacts DEF Readings
    <2>2. CASE d \in First
      BY <1>1, <1>3, <2>1, <2>2 DEF Announced
    <2>3. CASE d \notin First
      <3>1. d \in DOMAIN prev
        BY <1>5, <2>3 DEF First
      <3>2. CASE d \in Changed /\ Now(d).state = "NO"
        <4>1. Now(d).reasons = {}
          BY <1>5, <3>2, ReplyType, VerdictReasons DEF Problem
        <4>2. QED
          BY <2>1, <4>1
      <3>3. CASE d \in Changed /\ Now(d).state # "NO"
        BY <1>3, <2>1, <3>3 DEF Raised
      <3>4. CASE d \notin Changed
        <4>1. Now(d) = prev[d]
          BY <1>5, <3>1, <3>4 DEF Changed
        <4>2. QED
          BY <1>3, <1>4, <2>1, <3>1, <4>1
      <3>5. QED
        BY <3>2, <3>3, <3>4
    <2>4. QED
      BY <2>2, <2>3
  <1>6. CASE d \notin Judged
    <2>1. d \in DOMAIN prev /\ prev'[d] = prev[d]
      BY <1>2, <1>6, RememberedFacts
    <2>2. QED
      BY <1>3, <1>4, <2>1
  <1>7. QED
    BY <1>5, <1>6

(* The removal of a device forgets both sides, and the drive is not in the *)
(* memory.                                                                 *)
LEMMA ForgetTell ==
  ASSUME TellInv, orderly, NEW d \in Drives, Forget(d)
  PROVE  OneRecord' /\ GapIsTold'
  <1>1. /\ announced \in Records /\ told = announced /\ leftovers = {}
        /\ ~pending => file = announced
    BY DEF TellInv, OneRecord, IInv, TypeOK
  <1>2. told' = announced'
    <2>1. CASE d \in HasSerial
      BY <1>1, <2>1 DEF Forget
    <2>2. CASE d \notin HasSerial
      <3>1. announced[d] = {}
        BY <2>2 DEF TellInv, OneRecord
      <3>2. announced' = announced /\ told' = [told EXCEPT ![d] = {}]
        BY <2>2 DEF Forget
      <3>3. [announced EXCEPT ![d] = {}] = announced
        BY <1>1, <3>1 DEF Records
      <3>4. QED
        BY <1>1, <3>2, <3>3
    <2>3. QED
      BY <2>1, <2>2
  <1>3. leftovers' = {} /\ (~pending' => file' = announced')
    BY <1>1 DEF Forget
  <1>4. \A e \in Drives \ HasSerial : announced'[e] = {}
    <2>1. \A e \in Drives \ HasSerial : announced[e] = {}
      BY DEF TellInv, OneRecord
    <2>2. QED
      BY <1>1, <2>1 DEF Forget, Records
  <1>5. GapIsTold'
    <2>1. d \notin DOMAIN prev /\ prev' = prev /\ told' = [told EXCEPT ![d] = {}]
      BY DEF Forget, TellInv, IInv, PrevListed
    <2>2. told \in Records
      BY DEF TellInv, IInv, TypeOK
    <2>3. QED
      BY <2>1, <2>2 DEF TellInv, GapIsTold, Records
  <1>6. repeated' = {}
    BY DEF Forget, TellInv, OneRecord
  <1>7. QED
    BY <1>2, <1>3, <1>4, <1>5, <1>6 DEF OneRecord

(* An orderly stop writes the record before the next start reads it.       *)
LEMMA StopTell == TellInv /\ orderly /\ Stop => OneRecord' /\ GapIsTold'
  <1> SUFFICES ASSUME TellInv, orderly, Stop PROVE OneRecord' /\ GapIsTold'
    OBVIOUS
  <1>1. told = announced /\ leftovers = {} /\ (~pending => file = announced)
    BY DEF TellInv, OneRecord
  <1>2. file' = announced
    BY <1>1 DEF Stop, StopSaves
  <1>3. announced' = announced /\ told' = announced /\ leftovers' = {}
    BY <1>1, <1>2 DEF Stop, NewCoordinator, Clears
  <1>4. OneRecord'
    BY <1>2, <1>3 DEF TellInv, OneRecord, Stop, NewCoordinator
  <1>5. GapIsTold'
    BY DEF Stop, NewCoordinator, GapIsTold
  <1>6. QED
    BY <1>4, <1>5

LEMMA TellStep == TellInv /\ [Next]_vars => TellInv'
  <1> SUFFICES ASSUME TellInv, [Next]_vars, orderly' PROVE OneRecord' /\ GapIsTold'
    BY IInvStep DEF TellInv, GapIsTold
  <1>1. CASE Fetch \/ HandleFailed \/ UNCHANGED vars \/ \E d \in Drives : UserDismisses(d)
    <2>1. UNCHANGED <<prev, announced, pending, file, leftovers, told, repeated, orderly>>
      BY <1>1 DEF Fetch, HandleFailed, UserDismisses, vars
    <2>2. QED
      BY <2>1 DEF TellInv, OneRecord, GapIsTold
  <1>2. CASE Handle
    <2>1. orderly
      BY <1>2 DEF Handle
    <2>2. QED
      BY <1>2, <2>1, HandleOneRecord, HandleGap
  <1>3. CASE \E d \in Drives : Forget(d)
    <2>1. orderly
      BY <1>3 DEF Forget
    <2>2. QED
      BY <1>3, <2>1, ForgetTell
  <1>4. CASE Save
    BY <1>4 DEF Save, TellInv, OneRecord, GapIsTold
  <1>5. CASE SaveLeftover
    BY <1>5 DEF SaveLeftover, TellInv, OneRecord
  <1>6. CASE Reload \/ Crash
    BY <1>6 DEF Reload, Crash
  <1>7. CASE Stop
    <2>1. orderly
      BY <1>7 DEF Stop
    <2>2. QED
      BY <1>7, <2>1, StopTell
  <1>8. QED
    BY <1>1, <1>2, <1>3, <1>4, <1>5, <1>6, <1>7 DEF Next

LEMMA SpecTellInv == Spec => []TellInv
  BY InitTellInv, TellStep, PTL DEF Spec

(* While only stops interrupt the coordinators, a reason only Device       *)
(* Statistics could give is never remembered without having been told      *)
(* (D11).                                                                  *)
THEOREM GapTold == Spec => []GapIsTold
  <1>1. TellInv => GapIsTold
    BY DEF TellInv
  <1>2. QED
    BY <1>1, SpecTellInv, PTL

(* Meanwhile it is told once, across restarts (D11).                       *)
THEOREM AnnouncedOnceOnStops == Spec => []AnnouncedOnce
  <1>1. TellInv => AnnouncedOnce
    BY DEF TellInv, OneRecord, AnnouncedOnce
  <1>2. QED
    BY <1>1, SpecTellInv, PTL
===============================================================================
