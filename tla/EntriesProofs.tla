---------------------------- MODULE EntriesProofs ----------------------------
(***************************************************************************)
(* Entries for any agents, addresses, flows and network.                   *)
(*                                                                         *)
(* That unique ids differ rests on two things: an entry that is made takes *)
(* the place of the one with its unique id, and a migration is not done    *)
(* while an entry has the name's. That an id stays rests on NamedById: an  *)
(* entry with an id has a host name too, so an agent of another name must  *)
(* be the same one by its id. FlowsOK says what a flow has at each phase,  *)
(* which makes the entries that flows make entries.                        *)
(*                                                                         *)
(* That no entry is made beside one with its agent rests on what each flow *)
(* has ruled out by its phase (Beside), that a moved entry is at its agent *)
(* on what each has found (Moving), and on no two flows moving one unique  *)
(* id. Both are stated where they are used.                                *)
(***************************************************************************)
EXTENDS Entries, FiniteSetTheorems, TLAPS

RecordOK(r) ==
    /\ r.phase \in Phases \ {"ask"} => r.host \in Hosts
    /\ r.phase \in Phases \ {"ask", "try"} => r.kind \in Kinds
    /\ r.phase \in {"own", "there", "theirs"} =>
          r.was \in Entry /\ r.kind = "zeroconf" /\ ~r.confirmed
    /\ r.phase \in {"own", "there", "theirs", "elsewhere", "card", "create"} => r.uid \in Uids
    /\ r.phase = "health" /\ r.kind \notin {"user", "import"} => r.uid \in Uids
    /\ r.phase \in {"claim", "create"} => r.health \in HealthRead
    /\ r.phase = "elsewhere" /\ (r.kind # "zeroconf" \/ r.confirmed) => r.health \in HealthRead
    /\ r.phase \in {"ask", "try"} => r.kind = "reauth"

FlowsOK ==
    \A f \in Flows : RecordOK(flow[f]) /\ (flow[f].kind = "reauth" => flow[f].slot \in Live)

NamedById == \A e \in Live : entries[e].id # None => entries[e].name # None

IInv == TypeOK /\ FlowsOK /\ UidsDiffer /\ NamedById

\* What a step may do to the entries.
EntriesOK ==
    /\ DOMAIN entries' \subseteq Slots
    /\ entries' \in [DOMAIN entries' -> Entry]
    /\ \A d, e \in DOMAIN entries' : d # e => entries'[d].uid # entries'[e].uid
    /\ \A e \in DOMAIN entries' : entries'[e].id # None => entries'[e].name # None
    /\ \A e \in DOMAIN entries \cap DOMAIN entries' :
          entries[e].id \notin {None, entries'[e].id} => entries'[e].name = entries[e].name

USE NamesAssumption, NoneAssumption, BoundsAssumption

LEMMA AnswerType ==
  ASSUME TypeOK, NEW h \in Hosts
  PROVE  /\ Answers(h) \in Agents \cup {None}
         /\ Health(h) \in HealthRead \cup {None}
         /\ \A t : DrivesAt(h, t) \in DriveSets \cup {None}
  <1>1. AddressOf[h] \in Addresses
    BY DEF Addresses
  <1>2. Answers(h) \in Agents \cup {None}
    BY <1>1 DEF TypeOK, Answers
  <1>3. Answers(h) # None => name[Answers(h)] \in Names /\ id[Answers(h)] \in Ids \cup {None}
    BY <1>2 DEF TypeOK
  <1>4. Health(h) \in HealthRead \cup {None}
    BY <1>2, <1>3 DEF Health, HealthRead
  <1>5. \A t : DrivesAt(h, t) \in DriveSets \cup {None}
    BY <1>2 DEF DrivesAt, DriveSets
  <1>6. QED
    BY <1>2, <1>4, <1>5

LEMMA EntriesUnchanged ==
  ASSUME IInv, entries' = entries
  PROVE  EntriesOK
  BY DEF IInv, TypeOK, UidsDiffer, NamedById, EntriesOK, Live

LEMMA EntrySet ==
  ASSUME IInv, NEW e \in Live, NEW r \in Entry,
         entries' = [entries EXCEPT ![e] = r],
         r.uid = entries[e].uid,
         r.id # None => r.name # None,
         entries[e].id \notin {None, r.id} => r.name = entries[e].name
  PROVE  EntriesOK /\ DOMAIN entries' = DOMAIN entries
  <1>1. entries \in [DOMAIN entries -> Entry]
    BY DEF IInv, TypeOK, Live
  <1>2. \A d \in DOMAIN entries : entries'[d] = IF d = e THEN r ELSE entries[d]
    BY <1>1 DEF Live
  <1>3. DOMAIN entries' = DOMAIN entries
    BY <1>1
  <1>4. entries' \in [DOMAIN entries' -> Entry]
    BY <1>1
  <1>5. QED
    BY <1>1, <1>2, <1>3, <1>4 DEF IInv, TypeOK, UidsDiffer, NamedById, EntriesOK, Live

\* What is learned keeps the unique id, and replaces an id only where the host
\* name is the same.
LEMMA LearnedFacts ==
  ASSUME NEW known \in Entry, NEW health \in HealthRead \cup {None},
         NEW drives \in DriveSets \cup {None},
         known.id # None => known.name # None
  PROVE  LET r == Learned(known, health, drives)
         IN  /\ r \in Entry
             /\ r.uid = known.uid /\ r.host = known.host
             /\ r.id # None => r.name # None
             /\ known.id \notin {None, r.id} => r.name = known.name
  <1> DEFINE read  == IF drives = {} THEN None ELSE drives
             newId == IF health.id = None THEN known.id ELSE health.id
             newDrives == IF read = None THEN known.drives ELSE read
             new == [known EXCEPT !.name = health.name, !.id = newId, !.drives = newDrives]
             kept == \/ health = None
                     \/ known.name \notin {None, health.name} /\ ~SameAgent(known, health, read)
  <1>1. Learned(known, health, drives) = IF kept THEN known ELSE new
    BY DEF Learned
  <1>2. CASE kept
    BY <1>1, <1>2
  <1>3. CASE ~kept
    <2>1. health.name \in Names /\ health.id \in Ids \cup {None}
      BY <1>3 DEF HealthRead
    <2>2. newId \in Ids \cup {None} /\ newDrives \in DriveSets \cup {None}
      BY <2>1 DEF Entry
    <2>3. new \in Entry
      <3> HIDE DEF newId, newDrives
      <3> QED
        BY <2>1, <2>2 DEF Entry
    <2>4. /\ new.uid = known.uid /\ new.host = known.host
          /\ new.name = health.name /\ new.id = newId
      <3> HIDE DEF newId, newDrives
      <3> QED
        BY DEF Entry
    <2>5. known.id \notin {None, new.id} => new.name = known.name
      <3> HIDE DEF new
      <3> QED
        BY <1>3, <2>1, <2>4 DEF SameAgent
    <2>6. QED
      BY <1>1, <1>3, <2>1, <2>3, <2>4, <2>5
  <1>4. QED
    BY <1>2, <1>3

-------------------------------------------------------------------------------
(* One flow goes on. *)

StepOK == TypeOK' /\ FlowsOK' /\ EntriesOK

Flows0 == flow \in [Flows -> Flow] /\ FlowsOK

HistoryType == earlier \in [Flows -> SUBSET Slots] /\ steady \in [Flows -> BOOLEAN]

LEMMA NoFlowOK == NoFlow \in Flow /\ RecordOK(NoFlow) /\ NoFlow.kind # "reauth"
  <1>1. NoFlow \in Flow
    BY DEF NoFlow, Flow
  <1>2. NoFlow.phase = None /\ NoFlow.kind = None
    BY DEF NoFlow
  <1>3. QED
    BY <1>1, <1>2 DEF RecordOK, Phases

LEMMA FlowSet ==
  ASSUME IInv, NEW f \in Flows, NEW r \in Flow, RecordOK(r),
         r.kind = "reauth" => r.slot \in DOMAIN entries',
         DOMAIN entries \subseteq DOMAIN entries',
         flow' = [flow EXCEPT ![f] = r]
  PROVE  Flows0'
  <1>1. flow \in [Flows -> Flow]
    BY DEF IInv, TypeOK
  <1>2. \A g \in Flows : flow'[g] = IF g = f THEN r ELSE flow[g]
    BY <1>1
  <1>3. flow' \in [Flows -> Flow]
    BY <1>1
  <1>4. \A g \in Flows : RecordOK(flow[g]) /\ (flow[g].kind = "reauth" => flow[g].slot \in DOMAIN entries)
    BY DEF IInv, FlowsOK, Live
  <1>5. \A g \in Flows : RecordOK(flow'[g]) /\ (flow'[g].kind = "reauth" => flow'[g].slot \in DOMAIN entries')
    BY <1>2, <1>4
  <1>6. QED
    BY <1>3, <1>5 DEF Flows0, FlowsOK, RecordOK, Live

LEMMA HistoryKept ==
  ASSUME IInv, NEW f \in Flows
  PROVE  /\ UNCHANGED <<earlier, steady>> => HistoryType'
         /\ \A r : Begins(f, r) \/ Goes(f, r) \/ End(f) => HistoryType'
         /\ \A e : Forgets(e) => earlier' \in [Flows -> SUBSET Slots]
  <1>1. /\ earlier \in [Flows -> SUBSET Slots] /\ steady \in [Flows -> BOOLEAN]
        /\ Live \subseteq Slots
    BY DEF IInv, TypeOK
  <1>2. QED
    BY <1>1 DEF Begins, Goes, End, Forgets, HistoryType

LEMMA FlowStep ==
  ASSUME IInv, NEW f \in Flows, NEW r \in Flow, RecordOK(r),
         r.kind = "reauth" => r.slot \in Live,
         flow' = [flow EXCEPT ![f] = r],
         UNCHANGED <<entries, network, polled, doubled>>,
         begun' \in 0..MaxBegun, HistoryType'
  PROVE  StepOK
  <1>1. EntriesOK
    BY EntriesUnchanged
  <1>2. Flows0'
    BY FlowSet DEF Live
  <1>3. TypeOK
    BY DEF IInv
  <1>4. TypeOK'
    BY <1>2, <1>3 DEF TypeOK, Flows0, HistoryType, network, Live, Names
  <1>5. QED
    BY <1>1, <1>2, <1>4 DEF StepOK, Flows0

LEMMA RecordFacts ==
  ASSUME IInv, NEW f \in Flows
  PROVE  /\ flow[f] \in Flow /\ RecordOK(flow[f])
         /\ flow[f].kind = "reauth" => flow[f].slot \in Live
         /\ begun \in 0..MaxBegun
         /\ Free(f) => begun' \in 0..MaxBegun
  BY DEF IInv, TypeOK, FlowsOK, Free

\* What is left of the flow that ends.
LEMMA EndStep ==
  ASSUME IInv, NEW f \in Flows, End(f),
         UNCHANGED <<entries, network, polled, doubled>>, begun' \in 0..MaxBegun
  PROVE  StepOK
  <1>1. HistoryType'
    BY HistoryKept
  <1>2. QED
    BY <1>1, NoFlowOK, FlowStep DEF End

LEMMA PhaseSet ==
  ASSUME NEW r \in Flow, NEW p \in Phases \ {"ask", "try", "own", "there", "theirs"},
         r.host \in Hosts, r.kind \in Kinds, r.uid \in Uids,
         p \in {"claim", "create"} => r.health \in HealthRead,
         p = "elsewhere" /\ (r.kind # "zeroconf" \/ r.confirmed) => r.health \in HealthRead
  PROVE  RecordOK([r EXCEPT !.phase = p])
  <1> DEFINE q == [r EXCEPT !.phase = p]
  <1>1. /\ q.phase = p /\ q.host = r.host /\ q.kind = r.kind /\ q.uid = r.uid
        /\ q.health = r.health /\ q.confirmed = r.confirmed
    BY DEF Flow
  <1> HIDE DEF q
  <1>2. RecordOK(q)
    BY <1>1 DEF RecordOK, Phases, Kinds
  <1>3. QED
    BY <1>2 DEF q

LEMMA ToStep ==
  ASSUME IInv, NEW f \in Flows, NEW p \in Phases, To(f, p),
         RecordOK([flow[f] EXCEPT !.phase = p]),
         UNCHANGED <<entries, network, polled, doubled, begun>>
  PROVE  StepOK
  <1> DEFINE r == [flow[f] EXCEPT !.phase = p]
  <1>1. Goes(f, r)
    BY DEF To
  <1>2. HistoryType'
    BY <1>1, HistoryKept
  <1>3. r \in Flow /\ r.kind = flow[f].kind /\ r.slot = flow[f].slot
    BY RecordFacts DEF Flow
  <1>4. flow' = [flow EXCEPT ![f] = r]
    BY <1>1 DEF Goes
  <1>5. begun' \in 0..MaxBegun
    BY RecordFacts
  <1>6. QED
    BY <1>2, <1>3, <1>4, <1>5, RecordFacts, FlowStep

-------------------------------------------------------------------------------
(* The flows' steps that leave the entries alone. *)

LEMMA SubmitUserStep ==
  ASSUME IInv, NEW f \in Flows, NEW h \in Hosts, NEW t \in Tokens \cup {None},
         SubmitUser(f, h, t)
  PROVE  StepOK
  <1> DEFINE r == [NoFlow EXCEPT !.kind = "user", !.phase = "health", !.host = h, !.token = t]
  <1>1. r \in Flow /\ RecordOK(r) /\ r.kind # "reauth"
    BY DEF NoFlow, Flow, RecordOK, Kinds, Phases
  <1>2. Free(f) /\ Begins(f, r) /\ UNCHANGED <<unseen, entries>>
    BY DEF SubmitUser
  <1>3. HistoryType' /\ begun' \in 0..MaxBegun
    BY <1>2, HistoryKept, RecordFacts
  <1>4. flow' = [flow EXCEPT ![f] = r]
    BY <1>2 DEF Begins
  <1> HIDE DEF r
  <1>5. QED
    BY <1>1, <1>2, <1>3, <1>4, FlowStep DEF unseen

LEMMA ImportStep ==
  ASSUME IInv, NEW f \in Flows, NEW h \in Hosts, NEW discovered \in BOOLEAN,
         Import(f, h, discovered)
  PROVE  StepOK
  <1> DEFINE n == IF discovered THEN name[Answers(h)] ELSE None
             c == Cardinality(Drives[Answers(h)])
             r == [NoFlow EXCEPT !.kind = "import", !.phase = "health", !.host = h,
                                 !.name = n, !.count = c]
  <1>1. Answers(h) \in Agents
    BY AnswerType DEF Import, IInv
  <1>2. n \in Names \cup {None} /\ c \in Nat
    BY <1>1, DrivesAssumption, FS_CardinalityType DEF IInv, TypeOK
  <1>3. r \in Flow /\ RecordOK(r) /\ r.kind # "reauth"
    <2> HIDE DEF n, c
    <2> QED
      BY <1>2 DEF NoFlow, Flow, RecordOK, Kinds, Phases
  <1>4. Free(f) /\ Begins(f, r) /\ UNCHANGED <<unseen, entries>>
    BY DEF Import
  <1>5. HistoryType' /\ begun' \in 0..MaxBegun
    BY <1>4, HistoryKept, RecordFacts
  <1>6. flow' = [flow EXCEPT ![f] = r]
    BY <1>4 DEF Begins
  <1> HIDE DEF r
  <1>7. QED
    BY <1>3, <1>4, <1>5, <1>6, FlowStep DEF unseen

LEMMA HassioStep ==
  ASSUME IInv, NEW f \in Flows, NEW h \in Hosts, NEW t \in Tokens \cup {None},
         Hassio(f, h, t)
  PROVE  StepOK
  <1> DEFINE r == [NoFlow EXCEPT !.kind = "hassio", !.phase = "greet", !.host = h, !.told = t]
  <1>1. r \in Flow /\ RecordOK(r) /\ r.kind # "reauth"
    BY DEF NoFlow, Flow, RecordOK, Kinds, Phases
  <1>2. Free(f) /\ Goes(f, r) /\ UNCHANGED <<unseen, entries>>
    BY DEF Hassio
  <1>3. HistoryType' /\ begun' \in 0..MaxBegun
    BY <1>2, HistoryKept, RecordFacts
  <1>4. flow' = [flow EXCEPT ![f] = r]
    BY <1>2 DEF Goes
  <1> HIDE DEF r
  <1>5. QED
    BY <1>1, <1>2, <1>3, <1>4, FlowStep DEF unseen

LEMMA ConfirmStep ==
  ASSUME IInv, NEW f \in Flows, NEW t \in Tokens \cup {None}, Confirm(f, t)
  PROVE  StepOK
  <1> DEFINE w == IF t = None THEN flow[f].told ELSE t
             r == [flow[f] EXCEPT !.phase = "health", !.confirmed = TRUE, !.token = w]
  <1>1. flow[f] \in Flow /\ RecordOK(flow[f]) /\ flow[f].phase = "card"
    BY RecordFacts DEF Confirm
  <1>2. w \in Tokens \cup {None}
    BY <1>1 DEF Flow
  <1>3. r \in Flow /\ RecordOK(r) /\ r.kind # "reauth"
    <2> HIDE DEF w
    <2>1. r \in Flow
      BY <1>1, <1>2 DEF Flow, Phases
    <2>2. /\ r.phase = "health" /\ r.host = flow[f].host /\ r.kind = flow[f].kind
          /\ r.uid = flow[f].uid
      BY <1>1 DEF Flow
    <2>3. flow[f].host \in Hosts /\ flow[f].kind \in Kinds /\ flow[f].uid \in Uids
      BY <1>1 DEF RecordOK, Phases
    <2> HIDE DEF r
    <2>4. QED
      BY <2>1, <2>2, <2>3 DEF RecordOK, Phases, Kinds
  <1>4. Begins(f, r) /\ UNCHANGED <<others, entries>>
    BY DEF Confirm
  <1>5. HistoryType' /\ begun' \in 0..MaxBegun
    BY <1>4, HistoryKept, RecordFacts DEF others
  <1>6. flow' = [flow EXCEPT ![f] = r]
    BY <1>4 DEF Begins
  <1> HIDE DEF r
  <1>7. QED
    BY <1>3, <1>4, <1>5, <1>6, FlowStep DEF others, unseen

LEMMA DismissStep ==
  ASSUME IInv, NEW f \in Flows, Dismiss(f)
  PROVE  StepOK
  BY EndStep, RecordFacts DEF Dismiss, others, unseen

LEMMA ConnectStep ==
  ASSUME IInv, NEW f \in Flows, Connect(f)
  PROVE  StepOK
  <1> DEFINE health == Health(flow[f].host)
             r == [flow[f] EXCEPT !.health = health, !.phase = "claim"]
  <1>1. /\ flow[f] \in Flow /\ RecordOK(flow[f]) /\ flow[f].phase = "health"
        /\ UNCHANGED <<others, entries>>
    BY RecordFacts DEF Connect
  <1>2. flow[f].host \in Hosts /\ flow[f].kind \in Kinds
    BY <1>1 DEF RecordOK, Phases
  <1>3. health \in HealthRead \cup {None}
    BY <1>2, AnswerType DEF IInv
  <1>4. CASE End(f)
    BY <1>1, <1>4, EndStep, RecordFacts DEF others, unseen
  <1>5. CASE To(f, "card") /\ flow[f].kind \notin {"user", "import"}
    <2>1. RecordOK([flow[f] EXCEPT !.phase = "card"])
      <3>1. flow[f].uid \in Uids
        BY <1>1, <1>5 DEF RecordOK
      <3>2. QED
        BY <1>1, <1>2, <3>1, PhaseSet DEF Phases
    <2>2. QED
      BY <1>1, <1>5, <2>1, ToStep DEF others, unseen, Phases
  <1>6. CASE Goes(f, r) /\ health # None
    <2>1. r \in Flow /\ RecordOK(r) /\ r.kind # "reauth"
      <3> HIDE DEF health
      <3>1. r \in Flow
        <4>1. "claim" \in Phases
          BY DEF Phases
        <4>2. QED
          BY <1>1, <1>3, <4>1 DEF Flow
      <3>2. /\ r.phase = "claim" /\ r.host = flow[f].host /\ r.kind = flow[f].kind
            /\ r.health = health
        BY <1>1 DEF Flow
      <3> HIDE DEF r
      <3>3. QED
        BY <1>2, <1>3, <1>6, <3>1, <3>2 DEF RecordOK, Phases, Kinds
    <2>2. HistoryType' /\ begun' \in 0..MaxBegun
      BY <1>1, <1>6, HistoryKept, RecordFacts DEF others
    <2>3. flow' = [flow EXCEPT ![f] = r]
      BY <1>6 DEF Goes
    <2> HIDE DEF r
    <2>4. QED
      BY <1>1, <2>1, <2>2, <2>3, FlowStep DEF others, unseen
  <1>7. QED
    BY <1>4, <1>5, <1>6 DEF Connect

LEMMA ClaimStep ==
  ASSUME IInv, NEW f \in Flows, Claim(f)
  PROVE  StepOK
  <1> DEFINE u == UidOf(f)
             p == IF flow[f].kind = "hassio" THEN "create" ELSE "elsewhere"
             r == [flow[f] EXCEPT !.uid = u, !.phase = p]
  <1>1. /\ flow[f] \in Flow /\ RecordOK(flow[f]) /\ flow[f].phase = "claim"
        /\ UNCHANGED <<others, entries>>
        /\ End(f) \/ Goes(f, r)
    BY RecordFacts DEF Claim
  <1>2. flow[f].host \in Hosts /\ flow[f].kind \in Kinds /\ flow[f].health \in HealthRead
    BY <1>1 DEF RecordOK, Phases
  <1>3. u \in Uids
    BY <1>1, <1>2 DEF UidOf, Flow, Uids
  <1>4. CASE End(f)
    BY <1>1, <1>4, EndStep, RecordFacts DEF others, unseen
  <1>5. CASE Goes(f, r)
    <2>1. r \in Flow /\ RecordOK(r) /\ r.kind # "reauth"
      <3>1. p \in {"create", "elsewhere"}
        OBVIOUS
      <3> HIDE DEF u, p
      <3>2. r \in Flow
        <4>1. p \in Phases
          BY <3>1 DEF Phases
        <4>2. QED
          BY <1>1, <1>3, <4>1 DEF Flow
      <3>3. /\ r.phase = p /\ r.host = flow[f].host /\ r.kind = flow[f].kind
            /\ r.health = flow[f].health /\ r.uid = u
        BY <1>1 DEF Flow
      <3> HIDE DEF r
      <3>4. QED
        BY <1>2, <1>3, <3>1, <3>2, <3>3 DEF RecordOK, Phases, Kinds
    <2>2. HistoryType' /\ begun' \in 0..MaxBegun
      BY <1>1, <1>5, HistoryKept, RecordFacts DEF others
    <2>3. flow' = [flow EXCEPT ![f] = r]
      BY <1>5 DEF Goes
    <2> HIDE DEF r
    <2>4. QED
      BY <1>1, <2>1, <2>2, <2>3, FlowStep DEF others, unseen
  <1>6. QED
    BY <1>1, <1>4, <1>5

LEMMA CheckElsewhereStep ==
  ASSUME IInv, NEW f \in Flows, CheckElsewhere(f)
  PROVE  StepOK
  <1>1. /\ flow[f] \in Flow /\ RecordOK(flow[f]) /\ flow[f].phase = "elsewhere"
        /\ UNCHANGED <<others, entries>>
        /\ \/ End(f)
           \/ To(f, "card")
           \/ To(f, "create") /\ (flow[f].kind # "zeroconf" \/ flow[f].confirmed)
    BY RecordFacts DEF CheckElsewhere
  <1>2. /\ flow[f].host \in Hosts /\ flow[f].kind \in Kinds /\ flow[f].uid \in Uids
        /\ flow[f].kind # "zeroconf" \/ flow[f].confirmed => flow[f].health \in HealthRead
    BY <1>1 DEF RecordOK, Phases
  <1>3. CASE End(f)
    BY <1>1, <1>3, EndStep, RecordFacts DEF others, unseen
  <1>4. CASE To(f, "card")
    <2>1. RecordOK([flow[f] EXCEPT !.phase = "card"])
      BY <1>1, <1>2, PhaseSet DEF Phases
    <2>2. QED
      BY <1>1, <1>4, <2>1, ToStep DEF others, unseen, Phases
  <1>5. CASE To(f, "create") /\ (flow[f].kind # "zeroconf" \/ flow[f].confirmed)
    <2>1. RecordOK([flow[f] EXCEPT !.phase = "create"])
      BY <1>1, <1>2, <1>5, PhaseSet DEF Phases
    <2>2. QED
      BY <1>1, <1>5, <2>1, ToStep DEF others, unseen, Phases
  <1>6. QED
    BY <1>1, <1>3, <1>4, <1>5

LEMMA StaysStep ==
  ASSUME IInv, NEW f \in Flows, flow[f].phase \in {"own", "there", "theirs"}, Stays(f)
  PROVE  StepOK
  <1> DEFINE r == [flow[f] EXCEPT !.phase = "elsewhere", !.slot = None, !.was = None]
  <1>1. /\ flow[f] \in Flow /\ RecordOK(flow[f])
        /\ UNCHANGED <<others, entries>>
        /\ End(f) \/ Goes(f, r)
    BY RecordFacts DEF Stays
  <1>2. /\ flow[f].host \in Hosts /\ flow[f].kind = "zeroconf" /\ ~flow[f].confirmed
        /\ flow[f].uid \in Uids
    BY <1>1 DEF RecordOK, Phases
  <1>3. CASE End(f)
    BY <1>1, <1>3, EndStep, RecordFacts DEF others, unseen
  <1>4. CASE Goes(f, r)
    <2>1. r \in Flow /\ RecordOK(r) /\ r.kind # "reauth"
      <3>1. r \in Flow
        BY <1>1 DEF Flow, Phases
      <3>2. /\ r.phase = "elsewhere" /\ r.host = flow[f].host /\ r.kind = flow[f].kind
            /\ r.uid = flow[f].uid /\ r.confirmed = flow[f].confirmed
        BY <1>1 DEF Flow
      <3> HIDE DEF r
      <3>3. QED
        BY <1>2, <3>1, <3>2 DEF RecordOK, Phases, Kinds
    <2>2. HistoryType' /\ begun' \in 0..MaxBegun
      BY <1>1, <1>4, HistoryKept, RecordFacts DEF others
    <2>3. flow' = [flow EXCEPT ![f] = r]
      BY <1>4 DEF Goes
    <2> HIDE DEF r
    <2>4. QED
      BY <1>1, <2>1, <2>2, <2>3, FlowStep DEF others, unseen
  <1>5. QED
    BY <1>1, <1>3, <1>4

\* From one question about a move to the next.
LEMMA AskStep ==
  ASSUME IInv, NEW f \in Flows, flow[f].phase \in {"own", "there"},
         NEW p \in {"there", "theirs"}, To(f, p), UNCHANGED <<others, entries>>
  PROVE  StepOK
  <1> DEFINE r == [flow[f] EXCEPT !.phase = p]
  <1>1. flow[f] \in Flow /\ RecordOK(flow[f])
    BY RecordFacts
  <1>2. /\ r.phase = p /\ r.host = flow[f].host /\ r.kind = flow[f].kind
        /\ r.uid = flow[f].uid /\ r.confirmed = flow[f].confirmed /\ r.was = flow[f].was
    BY <1>1 DEF Flow
  <1>3. RecordOK(r)
    <2> HIDE DEF r
    <2> QED
      BY <1>1, <1>2 DEF RecordOK, Phases, Kinds
  <1>4. QED
    BY <1>3, ToStep DEF Phases, others, unseen

LEMMA ProbeOwnStep ==
  ASSUME IInv, NEW f \in Flows, ProbeOwn(f)
  PROVE  StepOK
  BY StaysStep, AskStep DEF ProbeOwn

LEMMA ProbeThereStep ==
  ASSUME IInv, NEW f \in Flows, ProbeThere(f)
  PROVE  StepOK
  BY StaysStep, AskStep DEF ProbeThere

-------------------------------------------------------------------------------
(* One entry changes. *)

LEMMA FlowSame ==
  ASSUME IInv, flow' = flow, DOMAIN entries \subseteq DOMAIN entries'
  PROVE  Flows0'
  BY DEF IInv, TypeOK, FlowsOK, Flows0, Live, RecordOK

LEMMA EntryStep ==
  ASSUME IInv, NEW e \in Live, NEW r \in Entry,
         entries' = [entries EXCEPT ![e] = r],
         r.uid = entries[e].uid,
         r.id # None => r.name # None,
         entries[e].id \notin {None, r.id} => r.name = entries[e].name,
         DOMAIN entries' = DOMAIN entries => Flows0',
         polled' \in [Live -> DriveSets \cup {None}],
         UNCHANGED <<network, doubled>>, begun' \in 0..MaxBegun, HistoryType'
  PROVE  StepOK
  <1>1. EntriesOK /\ DOMAIN entries' = DOMAIN entries
    BY EntrySet
  <1>2. Flows0'
    BY <1>1
  <1>3. TypeOK
    BY DEF IInv
  <1>4. TypeOK'
    BY <1>1, <1>2, <1>3 DEF TypeOK, EntriesOK, Flows0, HistoryType, network, Live, Names
  <1>5. QED
    BY <1>1, <1>2, <1>4 DEF StepOK, Flows0

\* What one field of an entry is changed to.
LEMMA FieldFacts ==
  ASSUME IInv, NEW e \in Live
  PROVE  /\ entries[e] \in Entry
         /\ entries[e].id # None => entries[e].name # None
         /\ \A t \in Tokens \cup {None} :
               LET r == [entries[e] EXCEPT !.token = t]
               IN  /\ r \in Entry /\ r.uid = entries[e].uid
                   /\ r.id = entries[e].id /\ r.name = entries[e].name
         /\ \A h \in Hosts :
               LET r == [entries[e] EXCEPT !.host = h]
               IN  /\ r \in Entry /\ r.uid = entries[e].uid
                   /\ r.id = entries[e].id /\ r.name = entries[e].name
  <1>1. entries[e] \in Entry
    BY DEF IInv, TypeOK, Live
  <1>2. entries[e].id # None => entries[e].name # None
    BY DEF IInv, NamedById
  <1>3. QED
    BY <1>1, <1>2 DEF Entry

LEMMA MoveToStep ==
  ASSUME IInv, NEW f \in Flows, NEW e \in Live, flow[f].phase = "theirs", MoveTo(f, e)
  PROVE  StepOK
  <1> DEFINE r == [entries[e] EXCEPT !.host = flow[f].host]
  <1>1. flow[f].host \in Hosts
    BY RecordFacts DEF RecordOK, Phases
  <1>2. /\ r \in Entry /\ r.uid = entries[e].uid /\ r.id = entries[e].id
        /\ r.name = entries[e].name /\ (r.id # None => r.name # None)
    BY <1>1, FieldFacts
  <1>3. /\ entries' = [entries EXCEPT ![e] = r]
        /\ flow' = [flow EXCEPT ![f] = NoFlow]
        /\ UNCHANGED <<network, begun, doubled>>
        /\ polled' = [polled EXCEPT ![e] = None]
    BY DEF MoveTo
  <1>4. HistoryType'
    BY DEF MoveTo, IInv, TypeOK, HistoryType
  <1>5. polled' \in [Live -> DriveSets \cup {None}] /\ begun' \in 0..MaxBegun
    BY <1>3 DEF IInv, TypeOK
  <1>6. DOMAIN entries' = DOMAIN entries => Flows0'
    BY <1>3, NoFlowOK, FlowSet
  <1> HIDE DEF r
  <1>7. QED
    BY <1>2, <1>3, <1>4, <1>5, <1>6, EntryStep

LEMMA MoveStep ==
  ASSUME IInv, NEW f \in Flows, Move(f)
  PROVE  StepOK
  <1>1. flow[f].phase = "theirs"
    BY DEF Move
  <1>2. CASE Stays(f)
    BY <1>1, <1>2, StaysStep
  <1>3. CASE \E e \in Live : MoveTo(f, e)
    BY <1>1, <1>3, MoveToStep
  <1>4. QED
    BY <1>2, <1>3 DEF Move

LEMMA PollDrivesStep ==
  ASSUME IInv, NEW e \in Live, PollDrives(e)
  PROVE  StepOK
  <1>1. /\ polled' = [polled EXCEPT ![e] = DrivesAt(entries[e].host, entries[e].token)]
        /\ UNCHANGED <<network, begun, entries, flow, history>>
    BY DEF PollDrives
  <1>2. entries[e].host \in Hosts
    BY FieldFacts DEF Entry
  <1>3. DrivesAt(entries[e].host, entries[e].token) \in DriveSets \cup {None}
    BY <1>2, AnswerType DEF IInv
  <1>4. EntriesOK /\ Flows0'
    BY <1>1, EntriesUnchanged, FlowSame
  <1>5. polled' \in [Live -> DriveSets \cup {None}]
    BY <1>1, <1>3 DEF IInv, TypeOK
  <1>6. TypeOK'
    BY <1>1, <1>4, <1>5 DEF IInv, TypeOK, Flows0, network, history, Live, Names
  <1>7. QED
    BY <1>4, <1>6 DEF StepOK, Flows0

LEMMA PollHealthStep ==
  ASSUME IInv, NEW e \in Live, PollHealth(e)
  PROVE  StepOK
  <1> DEFINE health == Health(entries[e].host)
             r == Learned(entries[e], health, polled[e])
  <1>1. /\ entries' = [entries EXCEPT ![e] = r]
        /\ polled' = [polled EXCEPT ![e] = None]
        /\ UNCHANGED earlier \/ Forgets(e)
        /\ UNCHANGED <<network, begun, flow, steady, doubled>>
    BY DEF PollHealth
  <1>2. entries[e] \in Entry /\ entries[e].host \in Hosts
    BY FieldFacts DEF Entry
  <1>3. health \in HealthRead \cup {None}
    BY <1>2, AnswerType DEF IInv
  <1>4. polled[e] \in DriveSets \cup {None}
    BY DEF IInv, TypeOK
  <1>5. /\ r \in Entry /\ r.uid = entries[e].uid /\ (r.id # None => r.name # None)
        /\ entries[e].id \notin {None, r.id} => r.name = entries[e].name
    BY <1>2, <1>3, <1>4, FieldFacts, LearnedFacts
  <1> HIDE DEF r, health
  <1>6. polled' \in [Live -> DriveSets \cup {None}] /\ begun' \in 0..MaxBegun
    BY <1>1 DEF IInv, TypeOK
  <1>7. HistoryType'
    BY <1>1 DEF IInv, TypeOK, HistoryType, Forgets
  <1>8. DOMAIN entries' = DOMAIN entries => Flows0'
    BY <1>1, FlowSame
  <1>9. QED
    BY <1>1, <1>5, <1>6, <1>7, <1>8, EntryStep

LEMMA SettingsStep ==
  ASSUME IInv, NEW e \in Live, NEW t \in Tokens \cup {None}, Settings(e, t)
  PROVE  StepOK
  <1> DEFINE r == [entries[e] EXCEPT !.token = t]
  <1>1. /\ entries' = [entries EXCEPT ![e] = r]
        /\ Forgets(e) /\ UNCHANGED <<others, flow, steady>>
    BY DEF Settings
  <1>2. /\ r \in Entry /\ r.uid = entries[e].uid /\ r.id = entries[e].id
        /\ r.name = entries[e].name /\ (r.id # None => r.name # None)
    BY FieldFacts
  <1> HIDE DEF r
  <1>3. HistoryType'
    BY <1>1 DEF IInv, TypeOK, HistoryType, Forgets
  <1>4. DOMAIN entries' = DOMAIN entries => Flows0'
    BY <1>1, FlowSame
  <1>5. QED
    BY <1>1, <1>2, <1>3, <1>4, EntryStep DEF IInv, TypeOK, others, unseen

LEMMA PollRefusedStep ==
  ASSUME IInv, NEW f \in Flows, NEW e \in Live, PollRefused(e, f)
  PROVE  StepOK
  <1> DEFINE r == [NoFlow EXCEPT !.kind = "reauth", !.phase = "ask", !.slot = e,
                                 !.uid = entries[e].uid]
  <1>1. entries[e].uid \in Uids /\ e \in Slots
    BY FieldFacts DEF Entry, IInv, TypeOK
  <1>2. r \in Flow /\ RecordOK(r) /\ r.slot \in Live
    BY <1>1 DEF NoFlow, Flow, RecordOK, Kinds, Phases
  <1>3. Free(f) /\ Goes(f, r) /\ UNCHANGED <<unseen, entries>>
    BY DEF PollRefused
  <1>4. HistoryType' /\ begun' \in 0..MaxBegun
    BY <1>3, HistoryKept, RecordFacts
  <1>5. flow' = [flow EXCEPT ![f] = r]
    BY <1>3 DEF Goes
  <1> HIDE DEF r
  <1>6. QED
    BY <1>2, <1>3, <1>4, <1>5, FlowStep DEF unseen

LEMMA GivePasswordStep ==
  ASSUME IInv, NEW f \in Flows, NEW t \in Tokens \cup {None}, GivePassword(f, t)
  PROVE  StepOK
  <1> DEFINE h == entries[flow[f].slot].host
             r == [flow[f] EXCEPT !.phase = "try", !.token = t, !.host = h]
  <1>1. /\ flow[f] \in Flow /\ flow[f].phase = "ask" /\ flow[f].kind = "reauth"
        /\ flow[f].slot \in Live
    BY RecordFacts DEF GivePassword, RecordOK
  <1>2. h \in Hosts
    BY <1>1, FieldFacts DEF Entry
  <1>3. r \in Flow /\ RecordOK(r) /\ r.slot \in Live
    <2> HIDE DEF h
    <2>1. r \in Flow
      BY <1>1, <1>2 DEF Flow, Phases
    <2>2. r.phase = "try" /\ r.host = h /\ r.kind = "reauth" /\ r.slot = flow[f].slot
      BY <1>1 DEF Flow
    <2> HIDE DEF r
    <2>3. QED
      BY <1>1, <1>2, <2>1, <2>2 DEF RecordOK, Phases
  <1>4. Goes(f, r) /\ UNCHANGED <<others, entries>>
    BY DEF GivePassword
  <1>5. HistoryType' /\ begun' \in 0..MaxBegun
    BY <1>4, HistoryKept, RecordFacts DEF others
  <1>6. flow' = [flow EXCEPT ![f] = r]
    BY <1>4 DEF Goes
  <1> HIDE DEF r
  <1>7. QED
    BY <1>3, <1>4, <1>5, <1>6, FlowStep DEF others, unseen

LEMMA ReauthStep ==
  ASSUME IInv, NEW f \in Flows, Reauth(f)
  PROVE  StepOK
  <1> DEFINE e == flow[f].slot
             q == [entries[e] EXCEPT !.token = flow[f].token]
  <1>1. /\ flow[f] \in Flow /\ flow[f].phase = "try" /\ flow[f].kind = "reauth"
        /\ e \in Live /\ flow[f].token \in Tokens \cup {None}
    BY RecordFacts DEF Reauth, RecordOK, Flow
  <1>2. UNCHANGED others
    BY DEF Reauth
  <1>3. CASE To(f, "ask") /\ UNCHANGED entries
    <2> DEFINE r == [flow[f] EXCEPT !.phase = "ask"]
    <2>1. r.phase = "ask" /\ r.kind = "reauth"
      BY <1>1 DEF Flow
    <2>2. RecordOK(r)
      <3> HIDE DEF r
      <3> QED
        BY <2>1 DEF RecordOK, Phases
    <2>3. QED
      BY <1>2, <1>3, <2>2, ToStep DEF Phases, others, unseen
  <1>4. CASE /\ entries' = [entries EXCEPT ![e] = q]
             /\ flow' = [flow EXCEPT ![f] = NoFlow]
             /\ Forgets(e) /\ UNCHANGED steady
    <2>1. /\ q \in Entry /\ q.uid = entries[e].uid /\ q.id = entries[e].id
          /\ q.name = entries[e].name /\ (q.id # None => q.name # None)
      BY <1>1, FieldFacts
    <2> HIDE DEF q, e
    <2>2. HistoryType'
      BY <1>4 DEF IInv, TypeOK, HistoryType, Forgets
    <2>3. DOMAIN entries' = DOMAIN entries => Flows0'
      BY <1>4, NoFlowOK, FlowSet
    <2>4. QED
      BY <1>1, <1>2, <1>4, <2>1, <2>2, <2>3, EntryStep DEF IInv, TypeOK, others, unseen
  <1>5. QED
    BY <1>3, <1>4 DEF Reauth

LEMMA KeepsTokenStep ==
  ASSUME IInv, NEW f \in Flows, NEW known \in SUBSET Live, KeepsToken(f, known),
         UNCHANGED others
  PROVE  StepOK
  <1>1. PICK e \in known :
          /\ entries' = IF flow[f].told = None THEN entries
                        ELSE [entries EXCEPT ![e].token = flow[f].told]
          /\ flow' = [flow EXCEPT ![f] = NoFlow]
          /\ steady' = [steady EXCEPT ![f] = FALSE]
          /\ earlier' = [[g \in Flows |-> earlier[g] \ {e}] EXCEPT ![f] = {}]
    BY DEF KeepsToken
  <1> DEFINE r == IF flow[f].told = None THEN entries[e]
                  ELSE [entries[e] EXCEPT !.token = flow[f].told]
  <1>2. flow[f].told \in Tokens \cup {None}
    BY RecordFacts DEF Flow
  <1>3. /\ r \in Entry /\ r.uid = entries[e].uid /\ r.id = entries[e].id
        /\ r.name = entries[e].name /\ (r.id # None => r.name # None)
    BY <1>2, FieldFacts
  <1>4. entries' = [entries EXCEPT ![e] = r]
    BY <1>1 DEF IInv, TypeOK
  <1> HIDE DEF r
  <1>5. HistoryType'
    BY <1>1 DEF IInv, TypeOK, HistoryType
  <1>6. DOMAIN entries' = DOMAIN entries => Flows0'
    BY <1>1, NoFlowOK, FlowSet
  <1>7. QED
    BY <1>3, <1>4, <1>5, <1>6, EntryStep DEF IInv, TypeOK, others, unseen

LEMMA GreetStep ==
  ASSUME IInv, NEW f \in Flows, Greet(f)
  PROVE  StepOK
  <1> DEFINE h == flow[f].host
             r == [flow[f] EXCEPT !.phase = "card", !.uid = ByHost(h)]
             known == HassioKnown(Health(h).id, Health(h).name, h)
             same  == {e \in Live : entries[e].uid = ByHost(h)}
             there == {e \in Live : AddressOf[entries[e].host] = AddressOf[h]}
  <1>1. /\ flow[f] \in Flow /\ RecordOK(flow[f]) /\ flow[f].phase = "greet"
        /\ UNCHANGED others
        /\ \/ End(f) /\ UNCHANGED entries
           \/ KeepsToken(f, known) \/ KeepsToken(f, same) \/ KeepsToken(f, there)
           \/ Goes(f, r) /\ UNCHANGED entries
    BY RecordFacts, Zenon DEF Greet
  <1>2. h \in Hosts /\ flow[f].kind \in Kinds
    BY <1>1 DEF RecordOK, Phases
  <1>3. CASE End(f) /\ UNCHANGED entries
    BY <1>1, <1>3, EndStep, RecordFacts DEF others, unseen
  <1>4. CASE KeepsToken(f, known) \/ KeepsToken(f, same) \/ KeepsToken(f, there)
    <2>1. known \subseteq Live /\ same \subseteq Live /\ there \subseteq Live
      BY DEF HassioKnown
    <2> HIDE DEF known, same, there
    <2>2. QED
      BY <1>1, <1>4, <2>1, KeepsTokenStep
  <1>5. CASE Goes(f, r) /\ UNCHANGED entries
    <2>1. ByHost(h) \in Uids
      BY <1>2 DEF Uids
    <2>2. r \in Flow
      BY <1>1, <2>1 DEF Flow, Phases
    <2>3. /\ r.phase = "card" /\ r.host = h /\ r.kind = flow[f].kind
          /\ r.uid = ByHost(h)
      BY <1>1 DEF Flow
    <2> HIDE DEF r
    <2>4. RecordOK(r) /\ r.kind # "reauth"
      BY <1>2, <2>1, <2>3 DEF RecordOK, Phases, Kinds
    <2>5. HistoryType' /\ begun' \in 0..MaxBegun
      BY <1>1, <1>5, HistoryKept, RecordFacts DEF others
    <2>6. flow' = [flow EXCEPT ![f] = r]
      BY <1>5 DEF Goes
    <2>7. QED
      BY <1>1, <1>5, <2>2, <2>4, <2>5, <2>6, FlowStep DEF others, unseen
  <1>6. QED
    BY <1>1, <1>3, <1>4, <1>5

LEMMA ChangeStep ==
  ASSUME IInv, Change
  PROVE  StepOK
  <1>1. UNCHANGED <<id, entries, polled, flow, begun, earlier, doubled>>
    BY DEF Change
  <1>2. EntriesOK /\ Flows0'
    BY <1>1, EntriesUnchanged, FlowSame
  <1>3. at' \in [Addresses -> Agents \cup {None}] /\ name' \in [Agents -> Names]
    <2>1. at \in [Addresses -> Agents \cup {None}] /\ name \in [Agents -> Names]
      BY DEF IInv, TypeOK
    <2>2. \A a \in Agents : NamesOf[a] \subseteq Names
      BY DEF Names
    <2>3. QED
      BY <2>1, <2>2 DEF Change
  <1>4. changes' \in 0..MaxChanges /\ steady' \in [Flows -> BOOLEAN]
    BY DEF Change, IInv, TypeOK
  <1>5. TypeOK'
    BY <1>1, <1>2, <1>3, <1>4 DEF IInv, TypeOK, Flows0, Live, Names
  <1>6. QED
    BY <1>2, <1>5 DEF StepOK, Flows0

-------------------------------------------------------------------------------
(* Entries come and go. *)

LEMMA WithoutFacts ==
  ASSUME IInv, NEW gone \in SUBSET Live
  PROVE  /\ Without(gone) \in [Flows -> Flow]
         /\ \A g \in Flows : /\ RecordOK(Without(gone)[g])
                             /\ Without(gone)[g].kind = "reauth" =>
                                   Without(gone)[g].slot \in Live \ gone
  <1> DEFINE W(g) == Without(gone)[g]
  <1>1. ASSUME NEW g \in Flows
        PROVE  /\ W(g) \in Flow /\ RecordOK(W(g))
               /\ W(g).kind = "reauth" => W(g).slot \in Live \ gone
    <2> DEFINE r == [flow[g] EXCEPT !.slot = None]
    <2>1. flow[g] \in Flow /\ RecordOK(flow[g])
          /\ (flow[g].kind = "reauth" => flow[g].slot \in Live)
      BY RecordFacts
    <2>2. CASE flow[g].slot \in gone /\ flow[g].kind = "reauth"
      BY <2>2, NoFlowOK DEF Without
    <2>3. CASE flow[g].slot \in gone /\ flow[g].kind # "reauth"
      <3>1. W(g) = r
        BY <2>3 DEF Without
      <3>2. /\ r \in Flow /\ r.phase = flow[g].phase /\ r.kind = flow[g].kind
            /\ r.host = flow[g].host /\ r.uid = flow[g].uid /\ r.health = flow[g].health
            /\ r.was = flow[g].was /\ r.confirmed = flow[g].confirmed
        BY <2>1 DEF Flow
      <3> HIDE DEF r, W
      <3>3. RecordOK(r)
        BY <2>1, <3>2 DEF RecordOK
      <3>4. QED
        BY <2>3, <3>1, <3>2, <3>3
    <2>4. CASE flow[g].slot \notin gone
      <3>1. W(g) = flow[g]
        BY <2>4 DEF Without
      <3> HIDE DEF W
      <3>2. QED
        BY <2>1, <2>4, <3>1
    <2>5. QED
      BY <2>2, <2>3, <2>4
  <1>2. Without(gone) \in [Flows -> Flow]
    BY <1>1 DEF Without
  <1>3. QED
    BY <1>1, <1>2

LEMMA DeleteStep ==
  ASSUME IInv, NEW e \in Live, Delete(e)
  PROVE  StepOK
  <1> DEFINE left == Live \ {e}
  <1>1. /\ entries' = [d \in left |-> entries[d]]
        /\ polled' = [d \in left |-> polled[d]]
        /\ Forgets(e) /\ flow' = Without({e})
        /\ UNCHANGED <<network, begun, steady, doubled>>
    BY DEF Delete, Restrict
  <1>2. DOMAIN entries' = left
    BY <1>1
  <1>3. /\ entries \in [Live -> Entry] /\ Live \subseteq Slots
        /\ polled \in [Live -> DriveSets \cup {None}]
        /\ UidsDiffer /\ NamedById
    BY DEF IInv, TypeOK
  <1>4. EntriesOK
    BY <1>1, <1>2, <1>3 DEF EntriesOK, UidsDiffer, NamedById, Live
  <1>5. Flows0'
    BY <1>1, <1>2, WithoutFacts DEF Flows0, FlowsOK, RecordOK, Live
  <1>6. HistoryType'
    BY <1>1 DEF IInv, TypeOK, HistoryType, Forgets
  <1>7. polled' \in [left -> DriveSets \cup {None}]
    BY <1>1, <1>3
  <1>8. TypeOK'
    BY <1>1, <1>2, <1>4, <1>5, <1>6, <1>7
       DEF IInv, TypeOK, EntriesOK, Flows0, HistoryType, network, Live, Names
  <1>9. QED
    BY <1>4, <1>5, <1>8 DEF StepOK, Flows0

\* What is made is an entry with the flow's unique id.
LEMMA MadeFacts ==
  ASSUME IInv, NEW f \in Flows, flow[f].phase = "create"
  PROVE  /\ Made(f) \in Entry /\ Made(f).uid = flow[f].uid
         /\ Made(f).id # None => Made(f).name # None
  <1> DEFINE r == flow[f]
             title == CASE r.kind = "hassio" -> None
                        [] r.name # None -> r.name
                        [] OTHER -> r.host
             new == [uid |-> r.uid, source |-> r.kind, host |-> r.host, token |-> r.token,
                     title |-> title, name |-> None, drives |-> None, id |-> None]
             drives == DrivesAt(r.host, r.token)
  <1>1. /\ r \in Flow /\ r.uid \in Uids /\ r.kind \in Kinds /\ r.host \in Hosts
        /\ r.health \in HealthRead /\ r.token \in Tokens \cup {None}
    BY RecordFacts DEF RecordOK, Phases, Flow
  <1>2. title \in Hosts \cup Names \cup {None}
    BY <1>1 DEF Flow
  <1>3. drives \in DriveSets \cup {None}
    BY <1>1, AnswerType DEF IInv
  <1>4. new \in Entry /\ new.uid = r.uid /\ new.id = None
    <2> HIDE DEF title
    <2> QED
      BY <1>1, <1>2 DEF Entry
  <1>5. Made(f) = Learned(new, r.health, drives)
    BY DEF Made
  <1> HIDE DEF new, drives
  <1>6. QED
    BY <1>1, <1>3, <1>4, <1>5, LearnedFacts

\* The new entry takes the place of those with its unique id.
LEMMA CreateStep ==
  ASSUME IInv, NEW f \in Flows, NEW e \in Slots, Create(f, e)
  PROVE  StepOK
  <1> DEFINE same == {d \in Live : entries[d].uid = flow[f].uid}
             left == Live \ same
             next == left \cup {e}
  <1>1. flow[f].phase = "create" /\ e \notin Live
    BY DEF Create
  <1>2. /\ entries' = [d \in next |-> IF d = e THEN Made(f) ELSE entries[d]]
        /\ polled' = [d \in next |-> IF d = e THEN None ELSE polled[d]]
    BY DEF Create
  <1>3. /\ flow' = [Without(same) EXCEPT ![f] = NoFlow]
        /\ earlier' = [[g \in Flows |-> earlier[g] \ same] EXCEPT ![f] = {}]
        /\ steady' = [steady EXCEPT ![f] = FALSE]
        /\ doubled' \in BOOLEAN
        /\ UNCHANGED <<network, begun>>
    BY DEF Create, IInv, TypeOK
  <1>4. DOMAIN entries' = next
    BY <1>2
  <1>5. /\ entries \in [Live -> Entry] /\ Live \subseteq Slots
        /\ polled \in [Live -> DriveSets \cup {None}]
        /\ UidsDiffer /\ NamedById
    BY DEF IInv, TypeOK
  <1>6. EntriesOK
    <2>1. entries' \in [next -> Entry]
      BY <1>1, <1>2, <1>5, MadeFacts
    <2>2. \A c, d \in next : c # d => entries'[c].uid # entries'[d].uid
      BY <1>1, <1>2, <1>5, MadeFacts DEF UidsDiffer
    <2>3. \A d \in next : entries'[d].id # None => entries'[d].name # None
      BY <1>1, <1>2, <1>5, MadeFacts DEF NamedById
    <2>4. \A d \in Live \cap next : entries'[d] = entries[d]
      BY <1>1, <1>2
    <2>5. QED
      BY <1>4, <1>5, <2>1, <2>2, <2>3, <2>4 DEF EntriesOK, Live
  <1>7. Flows0'
    <2> HIDE DEF same
    <2>1. same \subseteq Live
      BY DEF same
    <2>2. \A g \in Flows : flow'[g] = IF g = f THEN NoFlow ELSE Without(same)[g]
      BY <1>3, <2>1, WithoutFacts
    <2>3. flow' \in [Flows -> Flow]
      BY <1>3, <2>1, WithoutFacts, NoFlowOK
    <2>4. \A g \in Flows : RecordOK(flow'[g]) /\ (flow'[g].kind = "reauth" => flow'[g].slot \in next)
      BY <2>1, <2>2, WithoutFacts, NoFlowOK
    <2>5. QED
      BY <1>4, <2>3, <2>4 DEF Flows0, FlowsOK, RecordOK, Live
  <1>8. HistoryType'
    BY <1>3 DEF IInv, TypeOK, HistoryType
  <1>9. polled' \in [next -> DriveSets \cup {None}]
    <2> HIDE DEF same
    <2> QED
      BY <1>1, <1>2, <1>5
  <1>10. TypeOK'
    <2> HIDE DEF next
    <2> QED
      BY <1>3, <1>4, <1>6, <1>7, <1>8, <1>9
         DEF IInv, TypeOK, EntriesOK, Flows0, HistoryType, network, Live, Names
  <1>11. QED
    BY <1>6, <1>7, <1>10 DEF StepOK, Flows0

-------------------------------------------------------------------------------
(* Discovered. *)

\* One entry at most is given a unique id that no entry has.
LEMMA MigrationFacts ==
  ASSUME IInv, NEW n \in Names, NEW h \in Hosts, NEW m \in Migrations(n, h), entries' = m
  PROVE  EntriesOK /\ m \in [Live -> Entry] /\ DOMAIN m = Live
  <1> DEFINE old == {e \in Live : OfOldKind(e, n, h)}
  <1>1. /\ entries \in [Live -> Entry] /\ Live \subseteq Slots
        /\ UidsDiffer /\ NamedById /\ Live = DOMAIN entries
    BY DEF IInv, TypeOK, Live
  <1>2. CASE m = entries
    BY <1>1, <1>2, EntriesUnchanged
  <1>3. CASE m # entries
    <2>1. /\ ~Configured(ByName(n))
          /\ m \in {[entries EXCEPT ![e].uid = ByName(n)] : e \in old}
      BY <1>3 DEF Migrations
    <2>2. PICK e \in Live : m = [entries EXCEPT ![e].uid = ByName(n)]
      BY <2>1
    <2> DEFINE r == [entries[e] EXCEPT !.uid = ByName(n)]
    <2>3. ByName(n) \in Uids
      BY DEF Uids
    <2>4. /\ r \in Entry /\ r.uid = ByName(n) /\ r.id = entries[e].id
          /\ r.name = entries[e].name
      BY <1>1, <2>3 DEF Entry
    <2>5. m = [entries EXCEPT ![e] = r]
      BY <1>1, <2>2
    <2> HIDE DEF r
    <2>6. /\ DOMAIN m = Live /\ m \in [Live -> Entry]
          /\ \A d \in Live : m[d] = IF d = e THEN r ELSE entries[d]
      BY <1>1, <2>4, <2>5
    <2>7. \A d \in Live : entries[d].uid # ByName(n)
      BY <2>1 DEF Configured
    <2>8. QED
      BY <1>1, <2>4, <2>6, <2>7 DEF EntriesOK, UidsDiffer, NamedById
  <1>4. QED
    BY <1>2, <1>3

LEMMA AnnounceStep ==
  ASSUME IInv, NEW f \in Flows, NEW a \in Agents, NEW told \in SUBSET Hosts,
         Announce(f, a, told)
  PROVE  StepOK
  <1> DEFINE n == name[a]
             R(h, c) == [NoFlow EXCEPT !.kind = "zeroconf", !.host = h, !.name = n,
                                       !.uid = ByName(n), !.count = c]
  <1>1. n \in Names
    BY DEF IInv, TypeOK
  <1>2. PICK h \in Hosts, c \in Nat :
        \E m \in Migrations(n, h) :
          /\ entries' = m
          /\ \/ UNCHANGED <<flow, earlier, steady>>
             \/ Begins(f, [R(h, c) EXCEPT !.phase = "elsewhere"])
             \/ \E e \in Live :
                   Begins(f, [R(h, c) EXCEPT !.phase = "own", !.slot = e, !.was = m[e]])
    <2>1. Cardinality(Drives[a]) \in Nat
      BY DrivesAssumption, FS_CardinalityType
    <2>2. Best(told) \subseteq Hosts
      BY DEF Best
    <2>3. QED
      BY <2>1, <2>2 DEF Announce
  <1>14. PICK m \in Migrations(n, h) :
          /\ entries' = m
          /\ \/ UNCHANGED <<flow, earlier, steady>>
             \/ Begins(f, [R(h, c) EXCEPT !.phase = "elsewhere"])
             \/ \E e \in Live :
                   Begins(f, [R(h, c) EXCEPT !.phase = "own", !.slot = e, !.was = m[e]])
    BY <1>2
  <1>3. Free(f) /\ UNCHANGED unseen
    BY DEF Announce
  <1>4. EntriesOK /\ m \in [Live -> Entry] /\ DOMAIN m = Live
    BY <1>1, <1>14, MigrationFacts
  <1>5. begun' \in 0..MaxBegun
    BY <1>3, RecordFacts
  <1>6. HistoryType'
    BY <1>14, HistoryKept
  <1>7. Flows0'
    <2>1. CASE flow' = flow
      BY <1>14, <1>4, <2>1, FlowSame DEF Live
    <2>2. ASSUME NEW r \in Flow, RecordOK(r), r.kind # "reauth", Begins(f, r)
          PROVE  Flows0'
      BY <1>14, <1>4, <2>2, FlowSet DEF Begins, Live
    <2>3. ByName(n) \in Uids
      BY <1>1 DEF Uids
    <2>4. CASE Begins(f, [R(h, c) EXCEPT !.phase = "elsewhere"])
      <3> DEFINE r == [R(h, c) EXCEPT !.phase = "elsewhere"]
      <3>1. r \in Flow /\ RecordOK(r) /\ r.kind # "reauth"
        <4> HIDE DEF n
        <4> QED
          BY <1>1, <2>3 DEF NoFlow, Flow, RecordOK, Kinds, Phases
      <3> HIDE DEF r
      <3>2. QED
        BY <2>2, <2>4, <3>1 DEF r
    <2>5. ASSUME NEW e \in Live,
                 Begins(f, [R(h, c) EXCEPT !.phase = "own", !.slot = e, !.was = m[e]])
          PROVE  Flows0'
      <3> DEFINE r == [R(h, c) EXCEPT !.phase = "own", !.slot = e, !.was = m[e]]
      <3>1. m[e] \in Entry /\ e \in Slots
        BY <1>4 DEF IInv, TypeOK
      <3>2. r \in Flow /\ RecordOK(r) /\ r.kind # "reauth"
        <4> HIDE DEF n
        <4> QED
          BY <1>1, <2>3, <3>1 DEF NoFlow, Flow, RecordOK, Kinds, Phases
      <3> HIDE DEF r
      <3>3. QED
        BY <2>2, <2>5, <3>2 DEF r
    <2>6. QED
      BY <1>14, <2>1, <2>4, <2>5
  <1>8. DOMAIN entries' = Live
    BY <1>14, <1>4
  <1>9. TypeOK'
    BY <1>3, <1>4, <1>5, <1>6, <1>7, <1>8
       DEF IInv, TypeOK, EntriesOK, Flows0, HistoryType, unseen, network, Live, Names
  <1>10. QED
    BY <1>4, <1>7, <1>9 DEF StepOK, Flows0

-------------------------------------------------------------------------------
LEMMA InitInv == Init => IInv
  <1> SUFFICES ASSUME Init
               PROVE  IInv
    OBVIOUS
  <1>1. PICK s \in Starts : at = s.at /\ id = s.id /\ entries = s.entries
    BY DEF Init
  <1>2. /\ at \in [Addresses -> Agents \cup {None}] /\ id \in [Agents -> Ids \cup {None}]
        /\ Live \subseteq Slots /\ entries \in [Live -> Entry]
        /\ UidsDiffer /\ NamedById
    BY <1>1, StartsAssumption DEF Live, UidsDiffer, NamedById
  <1>3. /\ polled \in [Live -> DriveSets \cup {None}]
    BY DEF Init, Live
  <1>4. name \in [Agents -> Names]
    BY DEF Init
  <1>5. /\ flow \in [Flows -> Flow]
        /\ \A f \in Flows : RecordOK(flow[f]) /\ flow[f].kind # "reauth"
    BY NoFlowOK DEF Init
  <1>6. /\ changes \in 0..MaxChanges /\ begun \in 0..MaxBegun /\ doubled \in BOOLEAN
        /\ earlier \in [Flows -> SUBSET Slots] /\ steady \in [Flows -> BOOLEAN]
    <2>1. changes = 0 /\ begun = 0
      BY DEF Init
    <2>2. changes \in 0..MaxChanges /\ begun \in 0..MaxBegun
      BY <2>1
    <2>3. doubled \in BOOLEAN
      BY DEF Init
    <2>4. earlier \in [Flows -> SUBSET Slots]
      BY DEF Init
    <2>5. steady \in [Flows -> BOOLEAN]
      BY DEF Init
    <2>6. QED
      BY <2>2, <2>3, <2>4, <2>5
  <1>7. TypeOK
    BY <1>2, <1>3, <1>4, <1>5, <1>6 DEF TypeOK
  <1>8. QED
    BY <1>2, <1>5, <1>7 DEF IInv, FlowsOK

LEMMA NextStep ==
  ASSUME IInv, Next
  PROVE  StepOK
  <1>1. ASSUME NEW f \in Flows, NEW h \in Hosts, NEW t \in Tokens \cup {None},
               SubmitUser(f, h, t) \/ Hassio(f, h, t)
        PROVE  StepOK
    BY <1>1, SubmitUserStep, HassioStep
  <1>2. ASSUME NEW f \in Flows, NEW told \in (SUBSET Hosts) \ {{}}, NEW a \in Agents,
               Announce(f, a, told)
        PROVE  StepOK
    BY <1>2, AnnounceStep
  <1>3. ASSUME NEW f \in Flows, NEW h \in Hosts, NEW discovered \in BOOLEAN,
               Import(f, h, discovered)
        PROVE  StepOK
    BY <1>3, ImportStep
  <1>4. ASSUME NEW f \in Flows, NEW t \in Tokens \cup {None},
               Confirm(f, t) \/ GivePassword(f, t)
        PROVE  StepOK
    BY <1>4, ConfirmStep, GivePasswordStep
  <1>5. ASSUME NEW f \in Flows, Dismiss(f) \/ Connect(f) \/ Claim(f) \/ CheckElsewhere(f)
        PROVE  StepOK
    BY <1>5, DismissStep, ConnectStep, ClaimStep, CheckElsewhereStep
  <1>6. ASSUME NEW f \in Flows, ProbeOwn(f) \/ ProbeThere(f) \/ Move(f)
        PROVE  StepOK
    BY <1>6, ProbeOwnStep, ProbeThereStep, MoveStep
  <1>7. ASSUME NEW f \in Flows, Greet(f) \/ Reauth(f)
        PROVE  StepOK
    BY <1>7, GreetStep, ReauthStep
  <1>8. ASSUME NEW f \in Flows, NEW e \in Slots, Create(f, e)
        PROVE  StepOK
    BY <1>8, CreateStep
  <1>9. ASSUME NEW f \in Flows, NEW e \in Live, PollRefused(e, f)
        PROVE  StepOK
    BY <1>9, PollRefusedStep
  <1>10. ASSUME NEW e \in Live, PollDrives(e) \/ PollHealth(e) \/ Delete(e)
         PROVE  StepOK
    BY <1>10, PollDrivesStep, PollHealthStep, DeleteStep
  <1>11. ASSUME NEW e \in Live, NEW t \in Tokens \cup {None}, Settings(e, t)
         PROVE  StepOK
    BY <1>11, SettingsStep
  <1>12. ASSUME Change
         PROVE  StepOK
    BY <1>12, ChangeStep
  <1>13. QED
    BY <1>1, <1>2, <1>3, <1>4, <1>5, <1>6, <1>7, <1>8, <1>9, <1>10, <1>11, <1>12 DEF Next

LEMMA StutterStep ==
  ASSUME IInv, UNCHANGED vars
  PROVE  StepOK
  <1>1. EntriesOK /\ Flows0'
    BY EntriesUnchanged, FlowSame DEF vars
  <1>2. TypeOK'
    BY DEF IInv, TypeOK, vars, network, history, Live, Names
  <1>3. QED
    BY <1>1, <1>2 DEF StepOK, Flows0

LEMMA StepInv == ASSUME IInv, [Next]_vars PROVE IInv' /\ EntriesOK
  <1>1. StepOK
    BY NextStep, StutterStep
  <1>2. QED
    BY <1>1 DEF StepOK, IInv, EntriesOK, UidsDiffer, NamedById, Live

LEMMA Inductive == Spec => []IInv
  <1>1. Init => IInv
    BY InitInv
  <1>2. IInv /\ [Next]_vars => IInv'
    BY StepInv
  <1>3. QED
    BY <1>1, <1>2, PTL DEF Spec

\* Every variable keeps its type, and a flow has at each phase what its next
\* step needs.
THEOREM TypeCorrect == Spec => [](TypeOK /\ FlowsOK)
  <1>1. IInv => TypeOK /\ FlowsOK
    BY DEF IInv
  <1>2. QED
    BY <1>1, Inductive, PTL

\* No two entries share a unique id, however flows, migrations and removals
\* interleave.
THEOREM UniqueIds == Spec => []UidsDiffer
  <1>1. IInv => UidsDiffer
    BY DEF IInv
  <1>2. QED
    BY <1>1, Inductive, PTL

\* An entry's agent_id is replaced only where the host name is the same.
THEOREM IdentityKept == Spec => IdentityStays
  <1> DEFINE Keeps ==
        \A e \in Live \cap Live' :
           entries[e].id \notin {None, entries'[e].id} => entries'[e].name = entries[e].name
  <1>1. IInv /\ [Next]_vars => [Keeps]_entries
    BY StepInv DEF EntriesOK, Live
  <1>2. Spec => [][Keeps]_entries
    BY <1>1, Inductive, PTL DEF Spec
  <1>3. QED
    BY <1>2 DEF IdentityStays

-------------------------------------------------------------------------------
(* No twin: what a flow has asked of the entries there were at its last      *)
(* button. Once it has claimed its unique id none of them is at its address; *)
(* once it may create its entry, none of them is confirmed to be its agent.  *)
(* While the network is steady what it read of that agent is still so.       *)

Asked == {"health", "claim", "elsewhere", "create"}

\* Those of a name: a migration does not touch them.
NameUids == {ByName(n) : n \in Names}

NameSaid(r) == IF r.kind = "zeroconf" THEN r.name ELSE r.health.name

\* Flow r has been told that entry d is not its agent's.
RuledOut(r, d) ==
    IF r.kind = "hassio" THEN r.health.id # None => entries[d].id # r.health.id
    ELSE (r.kind = "zeroconf" => entries[d].uid # r.uid)
           => ~ConfirmsSame(NameSaid(r), d, r.host, r.token, r.count)

BesideOK(f) ==
    LET r == flow[f]
    IN  /\ earlier[f] \subseteq Live
        /\ r.kind = "zeroconf" => r.uid \in NameUids /\ r.phase # "greet"
        /\ r.kind = "hassio" /\ r.phase \in Asked => r.confirmed /\ r.phase # "elsewhere"
        /\ \/ r.phase \in {"claim", "create"}
           \/ r.phase = "elsewhere" /\ (r.kind # "zeroconf" \/ r.confirmed)
           => (steady[f] => r.health = Health(r.host))
        /\ r.phase \in {"elsewhere", "create"} =>
              \A d \in earlier[f] : AddressOf[entries[d].host] # AddressOf[r.host]
        /\ r.phase = "create" /\ steady[f] => \A d \in earlier[f] : RuledOut(r, d)

Beside == (\A f \in Flows : BesideOK(f)) /\ NoTwin

LEMMA RuledOutKept ==
  ASSUME NEW g \in Flows, NEW d, UNCHANGED <<at, name, id>>,
         flow'[g].kind = flow[g].kind, flow'[g].health = flow[g].health,
         flow'[g].uid = flow[g].uid, flow'[g].name = flow[g].name,
         flow'[g].host = flow[g].host, flow'[g].token = flow[g].token,
         flow'[g].count = flow[g].count,
         flow[g].kind = "zeroconf" => flow[g].uid \in NameUids,
         entries'[d].host = entries[d].host, entries'[d].token = entries[d].token,
         entries'[d].id = entries[d].id,
         entries'[d].uid # entries[d].uid => entries[d].uid \notin NameUids,
         RuledOut(flow[g], d)
  PROVE  RuledOut(flow[g], d)'
  <1>1. ASSUME NEW n
        PROVE  ConfirmsSame(n, d, flow[g].host, flow[g].token, flow[g].count)' =
               ConfirmsSame(n, d, flow[g].host, flow[g].token, flow[g].count)
    BY DEF ConfirmsSame, Health, DrivesAt, Answers, Accepts
  <1>2. PICK n : n = NameSaid(flow[g])
    OBVIOUS
  <1>3. NameSaid(flow[g])' = n
    BY <1>2 DEF NameSaid
  <1>4. ConfirmsSame(NameSaid(flow[g]), d, flow[g].host, flow[g].token, flow[g].count)' =
        ConfirmsSame(n, d, flow[g].host, flow[g].token, flow[g].count)'
    BY <1>3 DEF ConfirmsSame, Health, DrivesAt, Answers, Accepts
  <1>5. QED
    BY <1>1, <1>2, <1>4 DEF RuledOut

\* A step that leaves the flow alone, its entries too but for their unique ids,
\* and the network while that is taken to be steady.
LEMMA BesideLeft ==
  ASSUME NEW g \in Flows, BesideOK(g), flow[g] \in Flow,
         flow'[g] \in {flow[g], [flow[g] EXCEPT !.slot = None]},
         earlier'[g] \subseteq earlier[g], earlier'[g] \subseteq DOMAIN entries',
         steady'[g] => steady[g] /\ UNCHANGED <<at, name, id>>,
         \A d \in earlier'[g] :
            /\ entries'[d].host = entries[d].host /\ entries'[d].token = entries[d].token
            /\ entries'[d].id = entries[d].id
            /\ entries'[d].uid # entries[d].uid => entries[d].uid \notin NameUids
  PROVE  BesideOK(g)'
  <1>1. /\ flow'[g].kind = flow[g].kind /\ flow'[g].phase = flow[g].phase
        /\ flow'[g].health = flow[g].health /\ flow'[g].uid = flow[g].uid
        /\ flow'[g].name = flow[g].name /\ flow'[g].host = flow[g].host
        /\ flow'[g].token = flow[g].token /\ flow'[g].count = flow[g].count
        /\ flow'[g].confirmed = flow[g].confirmed
    BY DEF Flow
  <1>2. /\ earlier'[g] \subseteq Live'
        /\ flow'[g].kind = "zeroconf" => flow'[g].uid \in NameUids /\ flow'[g].phase # "greet"
        /\ flow'[g].kind = "hassio" /\ flow'[g].phase \in Asked =>
              flow'[g].confirmed /\ flow'[g].phase # "elsewhere"
        /\ flow'[g].phase \in {"elsewhere", "create"} =>
              \A d \in earlier'[g] : AddressOf[entries'[d].host] # AddressOf[flow'[g].host]
    BY <1>1 DEF BesideOK, Live
  <1>3. ASSUME steady'[g],
               \/ flow'[g].phase \in {"claim", "create"}
               \/ flow'[g].phase = "elsewhere" /\ (flow'[g].kind # "zeroconf" \/ flow'[g].confirmed)
        PROVE  flow'[g].health = Health(flow[g].host)'
    <2>1. flow[g].health = Health(flow[g].host)
      BY <1>1, <1>3 DEF BesideOK
    <2>2. QED
      BY <1>1, <1>3, <2>1 DEF Health, Answers
  <1>4. ASSUME flow'[g].phase = "create", steady'[g], NEW d \in earlier'[g]
        PROVE  RuledOut(flow[g], d)'
    <2>1. RuledOut(flow[g], d) /\ (flow[g].kind = "zeroconf" => flow[g].uid \in NameUids)
      BY <1>1, <1>4 DEF BesideOK
    <2>2. QED
      BY <1>1, <1>4, <2>1, RuledOutKept
  <1>5. QED
    BY <1>2, <1>3, <1>4 DEF BesideOK, NameUids

\* A flow that has nothing to ask yet, or no more.
LEMMA BesideIdle ==
  ASSUME NEW f \in Flows, earlier'[f] \subseteq DOMAIN entries',
         flow'[f].kind = "zeroconf" => flow'[f].uid \in NameUids /\ flow'[f].phase # "greet",
         flow'[f].phase \notin {"claim", "elsewhere", "create"},
         flow'[f].kind = "hassio" /\ flow'[f].phase = "health" => flow'[f].confirmed
  PROVE  BesideOK(f)'
  BY DEF BesideOK, Live, NameUids, Asked

LEMMA BesideEnded ==
  ASSUME NEW f \in Flows, flow'[f] = NoFlow, earlier'[f] \subseteq DOMAIN entries'
  PROVE  BesideOK(f)'
  <1>1. NoFlow.phase = None /\ NoFlow.kind = None
    BY DEF NoFlow
  <1>2. None \notin {"claim", "elsewhere", "create", "zeroconf", "hassio"}
    BY DEF Kinds, Phases
  <1>3. QED
    BY <1>1, <1>2, BesideIdle

\* A flow's step that changes no entry leaves the others as they are.
LEMMA QuietStep ==
  ASSUME IInv, Beside, NEW f \in Flows, NEW r,
         Goes(f, r) \/ Begins(f, r) \/ End(f), UNCHANGED <<entries, network>>
  PROVE  /\ \A g \in Flows \ {f} : BesideOK(g)'
         /\ Goes(f, r) \/ Begins(f, r) => flow'[f] = r
         /\ Goes(f, r) => earlier'[f] = earlier[f] /\ steady'[f] = steady[f]
         /\ earlier'[f] \subseteq DOMAIN entries'
         /\ End(f) => BesideOK(f)'
  <1>1. /\ flow \in [Flows -> Flow] /\ earlier \in [Flows -> SUBSET Slots]
        /\ steady \in [Flows -> BOOLEAN]
    BY DEF IInv, TypeOK
  <1>2. \A g \in Flows \ {f} : flow'[g] = flow[g] /\ earlier'[g] = earlier[g] /\ steady'[g] = steady[g]
    BY <1>1 DEF Goes, Begins, End
  <1>3. \A g \in Flows : BesideOK(g) /\ earlier[g] \subseteq DOMAIN entries
    BY DEF Beside, BesideOK, Live
  <1>4. ASSUME NEW g \in Flows \ {f} PROVE BesideOK(g)'
    BY <1>1, <1>2, <1>3, BesideLeft DEF network
  <1>5. earlier'[f] \subseteq DOMAIN entries'
    BY <1>1, <1>3 DEF Goes, Begins, End, Live
  <1>6. Goes(f, r) \/ Begins(f, r) => flow'[f] = r
    BY <1>1 DEF Goes, Begins
  <1>7. End(f) => BesideOK(f)'
    BY <1>1, <1>5, BesideEnded DEF End
  <1>8. Goes(f, r) => earlier'[f] = earlier[f] /\ steady'[f] = steady[f]
    BY DEF Goes
  <1>9. QED
    BY <1>4, <1>5, <1>6, <1>7, <1>8

AllBeside == \A g \in Flows : BesideOK(g)'

LEMMA FlowType ==
  ASSUME IInv, Beside, NEW f \in Flows
  PROVE  /\ flow[f] \in Flow /\ RecordOK(flow[f]) /\ BesideOK(f)
         /\ earlier[f] \subseteq Live
  BY RecordFacts DEF Beside, BesideOK

LEMMA SubmitUserBeside ==
  ASSUME IInv, Beside, NEW f \in Flows, NEW h, NEW t, SubmitUser(f, h, t)
  PROVE  AllBeside
  <1> DEFINE r == [NoFlow EXCEPT !.kind = "user", !.phase = "health", !.host = h, !.token = t]
  <1>1. Begins(f, r) /\ UNCHANGED <<entries, network>>
    BY DEF SubmitUser, unseen
  <1>2. r.kind = "user" /\ r.phase = "health"
    BY DEF NoFlow
  <1> HIDE DEF r
  <1>3. BesideOK(f)'
    BY <1>1, <1>2, QuietStep, BesideIdle
  <1>4. QED
    BY <1>1, <1>3, QuietStep DEF AllBeside

LEMMA ImportBeside ==
  ASSUME IInv, Beside, NEW f \in Flows, NEW h, NEW discovered, Import(f, h, discovered)
  PROVE  AllBeside
  <1> DEFINE r == [NoFlow EXCEPT !.kind = "import", !.phase = "health", !.host = h,
                                 !.name = IF discovered THEN name[Answers(h)] ELSE None,
                                 !.count = Cardinality(Drives[Answers(h)])]
  <1>1. Begins(f, r) /\ UNCHANGED <<entries, network>>
    BY DEF Import, unseen
  <1>2. r.kind = "import" /\ r.phase = "health"
    BY DEF NoFlow
  <1> HIDE DEF r
  <1>3. BesideOK(f)'
    BY <1>1, <1>2, QuietStep, BesideIdle
  <1>4. QED
    BY <1>1, <1>3, QuietStep DEF AllBeside

LEMMA HassioBeside ==
  ASSUME IInv, Beside, NEW f \in Flows, NEW h, NEW t, Hassio(f, h, t)
  PROVE  AllBeside
  <1> DEFINE r == [NoFlow EXCEPT !.kind = "hassio", !.phase = "greet", !.host = h, !.told = t]
  <1>1. Goes(f, r) /\ UNCHANGED <<entries, network>>
    BY DEF Hassio, unseen
  <1>2. r.kind = "hassio" /\ r.phase = "greet"
    BY DEF NoFlow
  <1> HIDE DEF r
  <1>3. BesideOK(f)'
    BY <1>1, <1>2, QuietStep, BesideIdle
  <1>4. QED
    BY <1>1, <1>3, QuietStep DEF AllBeside

LEMMA ConfirmBeside ==
  ASSUME IInv, Beside, NEW f \in Flows, NEW t, Confirm(f, t)
  PROVE  AllBeside
  <1> DEFINE w == IF t = None THEN flow[f].told ELSE t
             r == [flow[f] EXCEPT !.phase = "health", !.confirmed = TRUE, !.token = w]
  <1>1. Begins(f, r) /\ UNCHANGED <<entries, network>>
    BY DEF Confirm, others, unseen
  <1>2. /\ r.kind = flow[f].kind /\ r.phase = "health" /\ r.uid = flow[f].uid
        /\ r.confirmed = TRUE
    BY FlowType DEF Flow
  <1> HIDE DEF r
  <1>3. BesideOK(f)'
    BY <1>1, <1>2, FlowType, QuietStep, BesideIdle DEF BesideOK
  <1>4. QED
    BY <1>1, <1>3, QuietStep DEF AllBeside

LEMMA DismissBeside ==
  ASSUME IInv, Beside, NEW f \in Flows, Dismiss(f)
  PROVE  AllBeside
  BY QuietStep DEF Dismiss, others, unseen, AllBeside

\* To a phase in which nothing is asked.
LEMMA ToIdle ==
  ASSUME IInv, Beside, NEW f \in Flows,
         NEW p, p \notin Asked, p # "greet", To(f, p), UNCHANGED <<entries, network>>
  PROVE  AllBeside
  <1> DEFINE r == [flow[f] EXCEPT !.phase = p]
  <1>1. Goes(f, r)
    BY DEF To
  <1>2. r.kind = flow[f].kind /\ r.phase = p /\ r.uid = flow[f].uid
    BY FlowType DEF Flow
  <1> HIDE DEF r
  <1>3. BesideOK(f)'
    BY <1>1, <1>2, FlowType, QuietStep, BesideIdle DEF BesideOK, Asked
  <1>4. QED
    BY <1>1, <1>3, QuietStep DEF AllBeside

LEMMA ConnectBeside ==
  ASSUME IInv, Beside, NEW f \in Flows, Connect(f)
  PROVE  AllBeside
  <1> DEFINE r == [flow[f] EXCEPT !.health = Health(flow[f].host), !.phase = "claim"]
  <1>1. /\ flow[f].phase = "health" /\ UNCHANGED <<entries, network>>
        /\ End(f) \/ To(f, "card") \/ Goes(f, r)
    BY DEF Connect, others, unseen
  <1>2. CASE End(f)
    BY <1>1, <1>2, QuietStep DEF AllBeside
  <1>3. CASE To(f, "card")
    BY <1>1, <1>3, ToIdle DEF Asked
  <1>4. CASE Goes(f, r)
    <2>1. /\ r.kind = flow[f].kind /\ r.phase = "claim" /\ r.uid = flow[f].uid
          /\ r.health = Health(flow[f].host) /\ r.host = flow[f].host
          /\ r.confirmed = flow[f].confirmed
      BY FlowType DEF Flow
    <2> HIDE DEF r
    <2>2. flow'[f] = r /\ earlier'[f] \subseteq DOMAIN entries'
      BY <1>1, <1>4, QuietStep
    <2>3. Health(flow[f].host)' = r.health
      BY <1>1, <2>1, <2>2 DEF Health, Answers, network
    <2>4. BesideOK(f)'
      BY <1>1, <2>1, <2>2, <2>3, FlowType DEF BesideOK, Live, Asked, NameUids
    <2>5. QED
      BY <1>1, <1>4, <2>4, QuietStep DEF AllBeside
  <1>5. QED
    BY <1>1, <1>2, <1>3, <1>4

\* No entry is at the address that a flow has claimed.
LEMMA ClaimBeside ==
  ASSUME IInv, Beside, NEW f \in Flows, Claim(f)
  PROVE  AllBeside
  <1> DEFINE u == UidOf(f)
             p == IF flow[f].kind = "hassio" THEN "create" ELSE "elsewhere"
             r == [flow[f] EXCEPT !.uid = u, !.phase = p]
  <1>1. /\ flow[f].phase = "claim" /\ UNCHANGED <<entries, network>>
        /\ End(f) \/ (Goes(f, r) /\ ~EntryAt(flow[f].host, {})
                      /\ (flow[f].confirmed => ~HassioAdded(f)))
    BY DEF Claim, others, unseen, AddedSinceDiscovery
  <1>2. CASE End(f)
    BY <1>1, <1>2, QuietStep DEF AllBeside
  <1>3. CASE Goes(f, r) /\ ~EntryAt(flow[f].host, {}) /\ (flow[f].confirmed => ~HassioAdded(f))
    <2>1. /\ r.kind = flow[f].kind /\ r.phase = p /\ r.uid = u
          /\ r.health = flow[f].health /\ r.host = flow[f].host
          /\ r.confirmed = flow[f].confirmed
      BY FlowType DEF Flow
    <2>2. p = "create" => flow[f].kind = "hassio"
      OBVIOUS
    <2>3. p \in {"create", "elsewhere"}
      OBVIOUS
    <2>4. flow[f].kind = "zeroconf" => u \in NameUids
      <3>1. None \notin NameUids
        BY DEF NameUids, Uids
      <3>2. flow[f].kind = "zeroconf" => flow[f].uid \in NameUids
        BY FlowType DEF BesideOK
      <3>3. flow[f].uid # None => u = flow[f].uid
        BY DEF UidOf
      <3> HIDE DEF u
      <3>4. QED
        BY <3>1, <3>2, <3>3
    <2> HIDE DEF u, p, r
    <2>5. /\ flow'[f] = r /\ earlier'[f] = earlier[f] /\ steady'[f] = steady[f]
      BY <1>1, <1>3, QuietStep
    <2>6. \A d \in Live : AddressOf[entries[d].host] # AddressOf[flow[f].host]
      BY <1>3 DEF EntryAt
    <2>7. steady[f] => flow[f].health = Health(flow[f].host)
      BY <1>1, FlowType DEF BesideOK
    <2>8. Health(flow[f].host)' = Health(flow[f].host)
      BY <1>1, <2>1, <2>5 DEF Health, Answers, network
    <2>9. ASSUME p = "create", NEW d \in earlier[f]
          PROVE  RuledOut(flow[f], d)'
      <3>1. flow[f].kind = "hassio" /\ flow[f].confirmed
        BY <1>1, <2>2, <2>9, FlowType DEF BesideOK, Asked
      <3>2. flow[f].health.id # None => entries[d].id # flow[f].health.id
        BY <1>3, <3>1, FlowType DEF HassioAdded, HassioKnown
      <3>3. QED
        BY <1>1, <2>1, <2>5, <3>1, <3>2 DEF RuledOut
    <2>10. BesideOK(f)'
      <3>1. /\ earlier'[f] \subseteq Live'
            /\ flow'[f].kind = "zeroconf" => flow'[f].uid \in NameUids
            /\ flow'[f].phase \in {"create", "elsewhere"}
            /\ flow'[f].kind = "hassio" => flow'[f].confirmed /\ flow'[f].phase # "elsewhere"
        BY <1>1, <2>1, <2>2, <2>3, <2>4, <2>5, FlowType DEF BesideOK, Live, Asked, p
      <3>2. steady'[f] => flow'[f].health = Health(flow[f].host)'
        BY <1>1, <2>1, <2>5, <2>7, <2>8
      <3>3. \A d \in earlier'[f] : AddressOf[entries'[d].host] # AddressOf[flow'[f].host]
        BY <1>1, <2>1, <2>5, <2>6, FlowType
      <3>4. flow'[f].phase = "create" => \A d \in earlier'[f] : RuledOut(flow[f], d)'
        BY <2>1, <2>5, <2>9
      <3>5. QED
        BY <3>1, <3>2, <3>3, <3>4 DEF BesideOK, NameUids
    <2>11. QED
      BY <1>1, <1>3, <2>10, QuietStep DEF AllBeside
  <1>4. QED
    BY <1>1, <1>2, <1>3

\* No entry is confirmed to be the agent of a flow that goes on to create.
LEMMA CheckElsewhereBeside ==
  ASSUME IInv, Beside, NEW f \in Flows, CheckElsewhere(f)
  PROVE  AllBeside
  <1> DEFINE card == flow[f].kind = "zeroconf"
             n == IF card THEN flow[f].name ELSE flow[f].health.name
             w == IF card THEN flow[f].uid ELSE None
             r == [flow[f] EXCEPT !.phase = "create"]
  <1>1. /\ flow[f].phase = "elsewhere" /\ UNCHANGED <<entries, network>>
        /\ \/ End(f) \/ To(f, "card")
           \/ /\ Goes(f, r) /\ (card => flow[f].confirmed)
              /\ ~ConfiguredElsewhere(n, flow[f].host, flow[f].token, flow[f].count, w)
    BY DEF CheckElsewhere, others, unseen, To
  <1>2. CASE End(f)
    BY <1>1, <1>2, QuietStep DEF AllBeside
  <1>3. CASE To(f, "card")
    BY <1>1, <1>3, ToIdle DEF Asked
  <1>4. CASE /\ Goes(f, r) /\ (card => flow[f].confirmed)
             /\ ~ConfiguredElsewhere(n, flow[f].host, flow[f].token, flow[f].count, w)
    <2>1. /\ r.kind = flow[f].kind /\ r.phase = "create" /\ r.uid = flow[f].uid
          /\ r.health = flow[f].health /\ r.host = flow[f].host
          /\ r.confirmed = flow[f].confirmed /\ r.name = flow[f].name
          /\ r.token = flow[f].token /\ r.count = flow[f].count
      BY FlowType DEF Flow
    <2> HIDE DEF r
    <2>2. /\ flow'[f] = r /\ earlier'[f] = earlier[f] /\ steady'[f] = steady[f]
      BY <1>1, <1>4, QuietStep
    <2>3. steady[f] => flow[f].health = Health(flow[f].host)
      BY <1>1, <1>4, FlowType DEF BesideOK
    <2>4. Health(flow[f].host)' = Health(flow[f].host)
      BY <1>1, <2>1, <2>2 DEF Health, Answers, network
    <2>5. \A d \in earlier[f] : AddressOf[entries[d].host] # AddressOf[flow[f].host]
      BY <1>1, FlowType DEF BesideOK
    <2>6. ASSUME NEW d \in earlier[f]
          PROVE  RuledOut(flow[f], d)
      <3>1. entries[d].host # flow[f].host
        BY <2>5
      <3>2. (card => entries[d].uid # flow[f].uid)
              => ~ConfirmsSame(n, d, flow[f].host, flow[f].token, flow[f].count)
        BY <1>4, <3>1, FlowType DEF ConfiguredElsewhere
      <3>3. flow[f].kind # "hassio"
        BY <1>1, FlowType DEF BesideOK, Asked
      <3>4. n = NameSaid(flow[f])
        BY DEF NameSaid
      <3> HIDE DEF n
      <3>5. QED
        BY <3>2, <3>3, <3>4 DEF RuledOut
    <2>7. \A d \in earlier'[f] : RuledOut(flow[f], d)'
      BY <1>1, <2>1, <2>2, <2>6, FlowType, RuledOutKept DEF BesideOK, network
    <2>8. BesideOK(f)'
      <3>1. /\ earlier'[f] \subseteq Live'
            /\ flow'[f].kind = "zeroconf" => flow'[f].uid \in NameUids
            /\ flow'[f].kind # "hassio"
        BY <1>1, <2>1, <2>2, FlowType DEF BesideOK, Live, Asked
      <3>2. steady'[f] => flow'[f].health = Health(flow[f].host)'
        BY <1>1, <2>1, <2>2, <2>3, <2>4
      <3>3. \A d \in earlier'[f] : AddressOf[entries'[d].host] # AddressOf[flow'[f].host]
        BY <1>1, <2>1, <2>2, <2>5
      <3>4. QED
        BY <2>1, <2>2, <2>7, <3>1, <3>2, <3>3 DEF BesideOK, NameUids
    <2>9. QED
      BY <1>1, <1>4, <2>8, QuietStep DEF AllBeside
  <1>5. QED
    BY <1>1, <1>2, <1>3, <1>4

LEMMA StaysBeside ==
  ASSUME IInv, Beside, NEW f \in Flows, flow[f].phase \in {"own", "there", "theirs"}, Stays(f)
  PROVE  AllBeside
  <1> DEFINE r == [flow[f] EXCEPT !.phase = "elsewhere", !.slot = None, !.was = None]
  <1>1. /\ UNCHANGED <<entries, network>>
        /\ End(f) \/ (Goes(f, r) /\ ~EntryAt(flow[f].host, {}))
    BY DEF Stays, others, unseen
  <1>2. CASE End(f)
    BY <1>1, <1>2, QuietStep DEF AllBeside
  <1>3. CASE Goes(f, r) /\ ~EntryAt(flow[f].host, {})
    <2>1. flow[f].kind = "zeroconf" /\ ~flow[f].confirmed
      BY FlowType DEF RecordOK
    <2>2. /\ r.kind = flow[f].kind /\ r.phase = "elsewhere" /\ r.uid = flow[f].uid
          /\ r.host = flow[f].host /\ r.confirmed = flow[f].confirmed
      BY FlowType DEF Flow
    <2> HIDE DEF r
    <2>3. flow'[f] = r /\ earlier'[f] = earlier[f]
      BY <1>1, <1>3, QuietStep
    <2>4. \A d \in Live : AddressOf[entries[d].host] # AddressOf[flow[f].host]
      BY <1>3 DEF EntryAt
    <2>5. BesideOK(f)'
      BY <1>1, <2>1, <2>2, <2>3, <2>4, FlowType DEF BesideOK, Live, NameUids
    <2>6. QED
      BY <1>1, <1>3, <2>5, QuietStep DEF AllBeside
  <1>4. QED
    BY <1>1, <1>2, <1>3

LEMMA ProbeOwnBeside ==
  ASSUME IInv, Beside, NEW f \in Flows, ProbeOwn(f)
  PROVE  AllBeside
  BY StaysBeside, ToIdle DEF ProbeOwn, Asked, others, unseen

LEMMA ProbeThereBeside ==
  ASSUME IInv, Beside, NEW f \in Flows, ProbeThere(f)
  PROVE  AllBeside
  BY StaysBeside, ToIdle DEF ProbeThere, Asked, others, unseen

\* A step after which a flow has ended or goes on with those of its entries that
\* nobody has touched.
LEMMA ForgottenBeside ==
  ASSUME IInv, Beside,
         \A g \in Flows :
            /\ flow'[g] \in {NoFlow, flow[g], [flow[g] EXCEPT !.slot = None]}
            /\ earlier'[g] \subseteq earlier[g] /\ earlier'[g] \subseteq DOMAIN entries'
            /\ steady'[g] => steady[g] /\ UNCHANGED <<at, name, id>>
            /\ \A d \in earlier'[g] : entries'[d] = entries[d]
  PROVE  AllBeside
  <1>1. ASSUME NEW g \in Flows, flow'[g] = NoFlow
        PROVE  BesideOK(g)'
    BY <1>1, BesideEnded
  <1>2. ASSUME NEW g \in Flows, flow'[g] # NoFlow
        PROVE  BesideOK(g)'
    BY <1>2, FlowType, BesideLeft
  <1>3. QED
    BY <1>1, <1>2 DEF AllBeside

LEMMA MoveBeside ==
  ASSUME IInv, Beside, NEW f \in Flows, Move(f)
  PROVE  AllBeside
  <1>1. CASE Stays(f)
    BY <1>1, StaysBeside DEF Move
  <1>2. CASE ~Stays(f)
    <2>1. PICK e \in Live : MoveTo(f, e)
      BY <1>2 DEF Move
    <2>2. /\ flow \in [Flows -> Flow] /\ earlier \in [Flows -> SUBSET Slots]
          /\ steady \in [Flows -> BOOLEAN] /\ entries \in [Live -> Entry]
      BY DEF IInv, TypeOK
    <2>3. /\ \A d \in Live \ {e} : entries'[d] = entries[d]
          /\ DOMAIN entries' = Live
          /\ \A g \in Flows : /\ flow'[g] \in {NoFlow, flow[g]}
                              /\ earlier'[g] \subseteq earlier[g] \ {e}
                              /\ steady'[g] => steady[g]
          /\ UNCHANGED <<at, name, id>>
      BY <2>1, <2>2 DEF MoveTo, network, Live
    <2>4. QED
      BY <2>3, FlowType, ForgottenBeside
  <1>3. QED
    BY <1>1, <1>2

LEMMA KeepsTokenBeside ==
  ASSUME IInv, Beside, NEW f \in Flows, NEW known \in SUBSET Live, KeepsToken(f, known),
         UNCHANGED network
  PROVE  AllBeside
  <1>1. PICK e \in Live :
          /\ entries' = IF flow[f].told = None THEN entries
                        ELSE [entries EXCEPT ![e].token = flow[f].told]
          /\ flow' = [flow EXCEPT ![f] = NoFlow]
          /\ steady' = [steady EXCEPT ![f] = FALSE]
          /\ earlier' = [[g \in Flows |-> earlier[g] \ {e}] EXCEPT ![f] = {}]
    BY DEF KeepsToken
  <1>2. /\ flow \in [Flows -> Flow] /\ earlier \in [Flows -> SUBSET Slots]
        /\ steady \in [Flows -> BOOLEAN] /\ entries \in [Live -> Entry]
    BY DEF IInv, TypeOK
  <1>3. /\ \A d \in Live \ {e} : entries'[d] = entries[d]
        /\ DOMAIN entries' = Live
        /\ \A g \in Flows : /\ flow'[g] \in {NoFlow, flow[g]}
                            /\ earlier'[g] \subseteq earlier[g] \ {e}
                            /\ steady'[g] => steady[g]
    BY <1>1, <1>2 DEF Live
  <1>4. QED
    BY <1>3, FlowType, ForgottenBeside DEF network

LEMMA GreetBeside ==
  ASSUME IInv, Beside, NEW f \in Flows, Greet(f)
  PROVE  AllBeside
  <1> DEFINE h == flow[f].host
             r == [flow[f] EXCEPT !.phase = "card", !.uid = ByHost(h)]
             known == HassioKnown(Health(h).id, Health(h).name, h)
             same  == {e \in Live : entries[e].uid = ByHost(h)}
             there == {e \in Live : AddressOf[entries[e].host] = AddressOf[h]}
  <1>1. /\ flow[f].phase = "greet" /\ UNCHANGED others
        /\ \/ End(f) /\ UNCHANGED entries
           \/ KeepsToken(f, known) \/ KeepsToken(f, same) \/ KeepsToken(f, there)
           \/ Goes(f, r) /\ UNCHANGED entries
    BY Zenon DEF Greet
  <1>2. CASE End(f) /\ UNCHANGED entries
    BY <1>1, <1>2, QuietStep DEF others, unseen, AllBeside
  <1>3. CASE KeepsToken(f, known) \/ KeepsToken(f, same) \/ KeepsToken(f, there)
    <2>1. known \subseteq Live /\ same \subseteq Live /\ there \subseteq Live
      BY DEF HassioKnown
    <2> HIDE DEF known, same, there
    <2>2. QED
      BY <1>1, <1>3, <2>1, KeepsTokenBeside DEF others, unseen
  <1>4. CASE Goes(f, r) /\ UNCHANGED entries
    <2>1. flow[f].kind # "zeroconf"
      BY <1>1, FlowType DEF BesideOK
    <2>2. r.kind = flow[f].kind /\ r.phase = "card"
      BY FlowType DEF Flow
    <2> HIDE DEF r
    <2>3. BesideOK(f)'
      BY <1>1, <1>4, <2>1, <2>2, QuietStep, BesideIdle DEF others, unseen
    <2>4. QED
      BY <1>1, <1>4, <2>3, QuietStep DEF others, unseen, AllBeside
  <1>5. QED
    BY <1>1, <1>2, <1>3, <1>4

LEMMA PollRefusedBeside ==
  ASSUME IInv, Beside, NEW e, NEW f \in Flows, PollRefused(e, f)
  PROVE  AllBeside
  <1> DEFINE r == [NoFlow EXCEPT !.kind = "reauth", !.phase = "ask", !.slot = e,
                                 !.uid = entries[e].uid]
  <1>1. Goes(f, r) /\ UNCHANGED <<entries, network>>
    BY DEF PollRefused, unseen
  <1>2. r.kind = "reauth" /\ r.phase = "ask"
    BY DEF NoFlow
  <1> HIDE DEF r
  <1>3. BesideOK(f)'
    BY <1>1, <1>2, QuietStep, BesideIdle
  <1>4. QED
    BY <1>1, <1>3, QuietStep DEF AllBeside

LEMMA GivePasswordBeside ==
  ASSUME IInv, Beside, NEW f \in Flows, NEW t, GivePassword(f, t)
  PROVE  AllBeside
  <1> DEFINE r == [flow[f] EXCEPT !.phase = "try", !.token = t,
                                  !.host = entries[flow[f].slot].host]
  <1>1. Goes(f, r) /\ UNCHANGED <<entries, network>> /\ flow[f].phase = "ask"
    BY DEF GivePassword, others, unseen
  <1>2. r.kind = flow[f].kind /\ r.phase = "try" /\ flow[f].kind = "reauth"
    BY <1>1, FlowType DEF Flow, RecordOK
  <1> HIDE DEF r
  <1>3. BesideOK(f)'
    BY <1>1, <1>2, QuietStep, BesideIdle
  <1>4. QED
    BY <1>1, <1>3, QuietStep DEF AllBeside

LEMMA ReauthBeside ==
  ASSUME IInv, Beside, NEW f \in Flows, Reauth(f)
  PROVE  AllBeside
  <1>1. CASE To(f, "ask") /\ UNCHANGED entries
    BY <1>1, ToIdle DEF Reauth, others, unseen, Asked
  <1>2. CASE ~(To(f, "ask") /\ UNCHANGED entries)
    <2> DEFINE e == flow[f].slot
    <2>1. /\ entries' = [entries EXCEPT ![e].token = flow[f].token]
          /\ flow' = [flow EXCEPT ![f] = NoFlow]
          /\ Forgets(e) /\ UNCHANGED <<steady, network>>
      BY <1>2 DEF Reauth, others, unseen
    <2> HIDE DEF e
    <2>2. /\ flow \in [Flows -> Flow] /\ earlier \in [Flows -> SUBSET Slots]
          /\ entries \in [Live -> Entry]
      BY DEF IInv, TypeOK
    <2>3. /\ \A d \in Live \ {e} : entries'[d] = entries[d]
          /\ DOMAIN entries' = Live
          /\ \A g \in Flows : /\ flow'[g] \in {NoFlow, flow[g]}
                              /\ earlier'[g] \subseteq earlier[g] \ {e}
      BY <2>1, <2>2 DEF Forgets, Live
    <2>4. QED
      BY <2>1, <2>3, FlowType, ForgottenBeside DEF network
  <1>3. QED
    BY <1>1, <1>2

LEMMA PollHealthBeside ==
  ASSUME IInv, Beside, NEW e \in Live, PollHealth(e)
  PROVE  AllBeside
  <1>1. PICK stored :
          /\ entries' = [entries EXCEPT ![e] = stored]
          /\ IF stored = entries[e] THEN UNCHANGED earlier ELSE Forgets(e)
          /\ UNCHANGED <<network, flow, steady>>
    BY DEF PollHealth
  <1>2. /\ earlier \in [Flows -> SUBSET Slots] /\ entries \in [Live -> Entry]
    BY DEF IInv, TypeOK
  <1>3. /\ \A d \in Live \ {e} : entries'[d] = entries[d]
        /\ DOMAIN entries' = Live
        /\ \A g \in Flows : earlier'[g] \subseteq earlier[g]
        /\ stored # entries[e] => \A g \in Flows : e \notin earlier'[g]
        /\ stored = entries[e] => entries'[e] = entries[e]
    BY <1>1, <1>2 DEF Forgets, Live
  <1>4. QED
    BY <1>1, <1>3, FlowType, ForgottenBeside DEF network

LEMMA SettingsBeside ==
  ASSUME IInv, Beside, NEW e \in Live, NEW t, Settings(e, t)
  PROVE  AllBeside
  <1>1. /\ entries' = [entries EXCEPT ![e].token = t] /\ Forgets(e)
        /\ UNCHANGED <<network, flow, steady>>
    BY DEF Settings, others, unseen
  <1>2. earlier \in [Flows -> SUBSET Slots] /\ entries \in [Live -> Entry]
    BY DEF IInv, TypeOK
  <1>3. /\ \A d \in Live \ {e} : entries'[d] = entries[d]
        /\ DOMAIN entries' = Live
        /\ \A g \in Flows : earlier'[g] \subseteq earlier[g] \ {e}
    BY <1>1, <1>2 DEF Forgets, Live
  <1>4. QED
    BY <1>1, <1>3, FlowType, ForgottenBeside DEF network

LEMMA DeleteBeside ==
  ASSUME IInv, Beside, NEW e \in Live, Delete(e)
  PROVE  AllBeside
  <1>1. /\ entries' = Restrict(entries, Live \ {e}) /\ Forgets(e)
        /\ flow' = Without({e}) /\ UNCHANGED <<network, steady>>
    BY DEF Delete
  <1>2. /\ flow \in [Flows -> Flow] /\ earlier \in [Flows -> SUBSET Slots]
    BY DEF IInv, TypeOK
  <1>3. /\ \A d \in Live \ {e} : entries'[d] = entries[d]
        /\ DOMAIN entries' = Live \ {e}
        /\ \A g \in Flows : earlier'[g] \subseteq earlier[g] \ {e}
    BY <1>1, <1>2 DEF Forgets, Restrict, Live
  <1>4. \A g \in Flows : flow'[g] \in {NoFlow, flow[g], [flow[g] EXCEPT !.slot = None]}
    BY <1>1 DEF Without
  <1>5. QED
    BY <1>1, <1>3, <1>4, FlowType, ForgottenBeside DEF network

LEMMA ChangeBeside ==
  ASSUME IInv, Beside, Change
  PROVE  AllBeside
  <1>1. UNCHANGED <<entries, flow, earlier>> /\ \A g \in Flows : ~steady'[g]
    BY DEF Change
  <1>2. QED
    BY <1>1, FlowType, ForgottenBeside DEF Live

\* A migration touches no more than a unique id, and none that is a name's.
LEMMA MigrationTouches ==
  ASSUME IInv, NEW n \in Names, NEW h \in Hosts, NEW m \in Migrations(n, h)
  PROVE  \A d \in Live : /\ m[d].host = entries[d].host /\ m[d].token = entries[d].token
                         /\ m[d].id = entries[d].id
                         /\ m[d].uid # entries[d].uid => entries[d].uid \notin NameUids
  <1>1. entries \in [Live -> Entry] /\ Live = DOMAIN entries
    BY DEF IInv, TypeOK, Live
  <1>2. CASE m = entries
    BY <1>2
  <1>3. CASE m # entries
    <2>1. PICK e \in Live : OfOldKind(e, n, h) /\ m = [entries EXCEPT ![e].uid = ByName(n)]
      BY <1>3 DEF Migrations
    <2>2. entries[e].uid \notin NameUids
      BY <2>1 DEF OfOldKind, NameUids
    <2>3. m[e] = [entries[e] EXCEPT !.uid = ByName(n)] /\ \A d \in Live \ {e} : m[d] = entries[d]
      BY <1>1, <2>1
    <2>4. m[e].host = entries[e].host /\ m[e].token = entries[e].token /\ m[e].id = entries[e].id
      BY <1>1, <2>3 DEF Entry
    <2>5. QED
      BY <2>2, <2>3, <2>4
  <1>4. QED
    BY <1>2, <1>3

LEMMA AnnounceBeside ==
  ASSUME IInv, Beside, NEW f \in Flows, NEW a \in Agents, NEW told \in SUBSET Hosts,
         Announce(f, a, told)
  PROVE  AllBeside
  <1> DEFINE n == name[a]
             R(h) == [NoFlow EXCEPT !.kind = "zeroconf", !.host = h, !.name = n,
                                    !.uid = ByName(n), !.count = Cardinality(Drives[a])]
  <1>1. n \in Names
    BY DEF IInv, TypeOK
  <1>2. PICK h \in Hosts :
        \E m \in Migrations(n, h) :
          /\ entries' = m
          /\ \/ UNCHANGED <<flow, earlier, steady>>
             \/ /\ Begins(f, [R(h) EXCEPT !.phase = "elsewhere"])
                /\ ~EntryAt(h, {})
             \/ \E e \in Live :
                   Begins(f, [R(h) EXCEPT !.phase = "own", !.slot = e, !.was = m[e]])
    <2>1. Best(told) \subseteq Hosts
      BY DEF Best
    <2>2. QED
      BY <2>1 DEF Announce
  <1>3. PICK m \in Migrations(n, h) :
          /\ entries' = m
          /\ \/ UNCHANGED <<flow, earlier, steady>>
             \/ /\ Begins(f, [R(h) EXCEPT !.phase = "elsewhere"])
                /\ ~EntryAt(h, {})
             \/ \E e \in Live :
                   Begins(f, [R(h) EXCEPT !.phase = "own", !.slot = e, !.was = m[e]])
    BY <1>2
  <1>4. DOMAIN entries' = Live /\ UNCHANGED <<at, name, id>>
    BY <1>1, <1>3, MigrationFacts DEF Announce, unseen, network
  <1>5. \A d \in Live : /\ entries'[d].host = entries[d].host /\ entries'[d].token = entries[d].token
                        /\ entries'[d].id = entries[d].id
                        /\ entries'[d].uid # entries[d].uid => entries[d].uid \notin NameUids
    <2>1. \A d \in Live : /\ m[d].host = entries[d].host /\ m[d].token = entries[d].token
                          /\ m[d].id = entries[d].id
                          /\ m[d].uid # entries[d].uid => entries[d].uid \notin NameUids
      BY <1>1, MigrationTouches
    <2>2. entries' = m
      BY <1>3
    <2>3. QED
      BY <2>1, <2>2
  <1>6. /\ flow \in [Flows -> Flow] /\ earlier \in [Flows -> SUBSET Slots]
        /\ steady \in [Flows -> BOOLEAN]
    BY DEF IInv, TypeOK
  <1>7. ASSUME NEW g \in Flows,
               flow'[g] = flow[g] /\ earlier'[g] = earlier[g] /\ steady'[g] = steady[g]
        PROVE  BesideOK(g)'
    BY <1>4, <1>5, <1>7, FlowType, BesideLeft
  <1>8. CASE UNCHANGED <<flow, earlier, steady>>
    BY <1>7, <1>8 DEF AllBeside
  <1>9. ASSUME NEW r, Begins(f, r), BesideOK(f)'
        PROVE  AllBeside
    <2>1. \A g \in Flows \ {f} :
             flow'[g] = flow[g] /\ earlier'[g] = earlier[g] /\ steady'[g] = steady[g]
      BY <1>6, <1>9 DEF Begins
    <2>2. QED
      BY <1>7, <1>9, <2>1 DEF AllBeside
  <1>10. ByName(n) \in NameUids
    BY <1>1 DEF NameUids
  <1>11. CASE /\ Begins(f, [R(h) EXCEPT !.phase = "elsewhere"])
              /\ ~EntryAt(h, {})
    <2> DEFINE r == [R(h) EXCEPT !.phase = "elsewhere"]
    <2>1. /\ r.kind = "zeroconf" /\ r.phase = "elsewhere" /\ r.uid = ByName(n) /\ r.host = h
          /\ ~r.confirmed
      BY DEF NoFlow
    <2> HIDE DEF r
    <2>2. flow'[f] = r /\ earlier'[f] = Live /\ steady'[f] = TRUE
      BY <1>6, <1>11 DEF Begins, r
    <2>3. \A d \in Live : AddressOf[entries'[d].host] # AddressOf[h]
      BY <1>5, <1>11 DEF EntryAt
    <2>4. BesideOK(f)'
      BY <1>4, <1>10, <2>1, <2>2, <2>3 DEF BesideOK, Live, NameUids
    <2>5. QED
      BY <1>9, <1>11, <2>4 DEF r
  <1>12. ASSUME NEW e \in Live,
                Begins(f, [R(h) EXCEPT !.phase = "own", !.slot = e, !.was = m[e]])
         PROVE  AllBeside
    <2> DEFINE r == [R(h) EXCEPT !.phase = "own", !.slot = e, !.was = m[e]]
    <2>1. r.kind = "zeroconf" /\ r.phase = "own" /\ r.uid = ByName(n)
      BY DEF NoFlow
    <2> HIDE DEF r
    <2>2. flow'[f] = r /\ earlier'[f] = Live
      BY <1>6, <1>12 DEF Begins, r
    <2>3. BesideOK(f)'
      BY <1>4, <1>10, <2>1, <2>2, BesideIdle
    <2>4. QED
      BY <1>9, <1>12, <2>3 DEF r
  <1>13. QED
    BY <1>3, <1>8, <1>11, <1>12

\* What a flow has ruled out is no twin.
LEMMA NoneIsTwin ==
  ASSUME IInv, Beside, NEW f \in Flows, flow[f].phase = "create",
         NEW d \in earlier[f], entries[d].uid # flow[f].uid
  PROVE  ~Twin(f, d)
  <1> DEFINE r == flow[f]
             a == Answers(r.host)
  <1>1. AddressOf[entries[d].host] # AddressOf[r.host]
    BY FlowType DEF BesideOK
  <1> SUFFICES ASSUME /\ steady[f] /\ a # None /\ Drives[a] # {}
                      /\ Answers(entries[d].host) = a /\ Accepts(a, entries[d].token)
                      /\ Accepts(a, r.token) \/ r.count = Cardinality(Drives[a])
                      /\ r.kind = "zeroconf" => r.name = name[a]
                      /\ r.kind = "hassio" => id[a] # None /\ entries[d].id = id[a]
               PROVE  FALSE
    BY <1>1 DEF Twin
  <1>2. RuledOut(r, d) /\ r.health = Health(r.host)
    BY FlowType DEF BesideOK
  <1>3. r.health = [name |-> name[a], id |-> id[a]]
    BY <1>2 DEF Health
  <1>4. r.kind # "hassio"
    BY <1>2, <1>3 DEF RuledOut
  <1>5. NameSaid(r) = name[a]
    BY <1>3 DEF NameSaid
  <1>6. ~ConfirmsSame(name[a], d, r.host, r.token, r.count)
    BY <1>2, <1>4, <1>5 DEF RuledOut
  <1>7. Health(entries[d].host) = [name |-> name[a], id |-> id[a]]
    BY DEF Health
  <1>8. Health(entries[d].host) # None /\ Health(entries[d].host).name = name[a]
    <2>1. [name |-> name[a], id |-> id[a]] = r.health
      BY <1>3
    <2>2. r.health # None
      BY FlowType, NoneAssumption DEF RecordOK
    <2>3. QED
      BY <1>7, <2>1, <2>2
  <1>9. DrivesAt(entries[d].host, entries[d].token) = Drives[a]
    BY DEF DrivesAt
  <1>10. Drives[a] \notin {None, {}}
    <2>1. r.host \in Hosts
      BY FlowType DEF RecordOK, Phases
    <2>2. a \in Agents
      BY <2>1, AnswerType DEF IInv
    <2>3. Drives[a] \in DriveSets
      BY <2>2 DEF DriveSets
    <2>4. QED
      BY <2>3
  <1>11. IF DrivesAt(r.host, r.token) # None THEN DrivesAt(r.host, r.token) = Drives[a]
         ELSE r.count = Cardinality(Drives[a])
    BY <1>10 DEF DrivesAt
  <1>12. QED
    BY <1>6, <1>8, <1>9, <1>10, <1>11 DEF ConfirmsSame

LEMMA CreateBeside ==
  ASSUME IInv, Beside, NEW f \in Flows, NEW e \in Slots, Create(f, e)
  PROVE  AllBeside /\ NoTwin'
  <1> DEFINE same == {d \in Live : entries[d].uid = flow[f].uid}
             next == (Live \ same) \cup {e}
  <1>1. /\ flow[f].phase = "create" /\ e \notin Live
        /\ entries' = [d \in next |-> IF d = e THEN Made(f) ELSE entries[d]]
        /\ doubled' = (doubled \/ \E d \in earlier[f] \ same : Twin(f, d))
        /\ flow' = [Without(same) EXCEPT ![f] = NoFlow]
        /\ earlier' = [[g \in Flows |-> earlier[g] \ same] EXCEPT ![f] = {}]
        /\ steady' = [steady EXCEPT ![f] = FALSE]
        /\ UNCHANGED network
    BY DEF Create
  <1>2. steady \in [Flows -> BOOLEAN]
    BY DEF IInv, TypeOK
  <1>3. \A g \in Flows : flow'[g] \in {NoFlow, flow[g], [flow[g] EXCEPT !.slot = None]}
    BY <1>1 DEF Without
  <1>4. \A g \in Flows : /\ earlier'[g] \subseteq earlier[g] \ same
                         /\ steady'[g] => steady[g]
    BY <1>1, <1>2
  <1>5. \A d \in Live \ same : d \in DOMAIN entries' /\ entries'[d] = entries[d]
    BY <1>1
  <1>6. \A d \in earlier[f] \ same : entries[d].uid # flow[f].uid
    BY FlowType
  <1>7. NoTwin'
    BY <1>1, <1>6, NoneIsTwin DEF NoTwin, Beside
  <1> HIDE DEF same
  <1>8. AllBeside
    BY <1>1, <1>3, <1>4, <1>5, FlowType, ForgottenBeside DEF network
  <1>9. QED
    BY <1>7, <1>8

LEMMA NextBeside ==
  ASSUME IInv, Beside, Next
  PROVE  Beside'
  <1>1. ASSUME NEW f \in Flows, NEW h \in Hosts, NEW t \in Tokens \cup {None},
               SubmitUser(f, h, t) \/ Hassio(f, h, t)
        PROVE  Beside'
    <2>1. CASE SubmitUser(f, h, t)
      BY <2>1, SubmitUserBeside DEF AllBeside, Beside, NoTwin, SubmitUser, unseen
    <2>2. CASE Hassio(f, h, t)
      BY <2>2, HassioBeside DEF AllBeside, Beside, NoTwin, Hassio, unseen
    <2>3. QED
      BY <1>1, <2>1, <2>2
  <1>2. ASSUME NEW f \in Flows, NEW told \in (SUBSET Hosts) \ {{}}, NEW a \in Agents,
               Announce(f, a, told)
        PROVE  Beside'
    <2>1. AllBeside
      BY <1>2, AnnounceBeside
    <2>2. doubled' = doubled
      BY <1>2 DEF Announce, unseen
    <2>3. QED
      BY <2>1, <2>2 DEF AllBeside, Beside, NoTwin
  <1>3. ASSUME NEW f \in Flows, NEW h \in Hosts, NEW discovered \in BOOLEAN,
               Import(f, h, discovered)
        PROVE  Beside'
    BY <1>3, ImportBeside DEF AllBeside, Beside, NoTwin, Import, unseen
  <1>4. ASSUME NEW f \in Flows, NEW t \in Tokens \cup {None},
               Confirm(f, t) \/ GivePassword(f, t)
        PROVE  Beside'
    <2>1. CASE Confirm(f, t)
      BY <2>1, ConfirmBeside DEF AllBeside, Beside, NoTwin, Confirm, others, unseen
    <2>2. CASE GivePassword(f, t)
      BY <2>2, GivePasswordBeside DEF AllBeside, Beside, NoTwin, GivePassword, others, unseen
    <2>3. QED
      BY <1>4, <2>1, <2>2
  <1>5. ASSUME NEW f \in Flows, Dismiss(f) \/ Connect(f) \/ Claim(f) \/ CheckElsewhere(f)
        PROVE  Beside'
    <2>1. CASE Dismiss(f)
      BY <2>1, DismissBeside DEF AllBeside, Beside, NoTwin, Dismiss, others, unseen
    <2>2. CASE Connect(f)
      BY <2>2, ConnectBeside DEF AllBeside, Beside, NoTwin, Connect, others, unseen
    <2>3. CASE Claim(f)
      BY <2>3, ClaimBeside DEF AllBeside, Beside, NoTwin, Claim, others, unseen
    <2>4. CASE CheckElsewhere(f)
      BY <2>4, CheckElsewhereBeside DEF AllBeside, Beside, NoTwin, CheckElsewhere, others, unseen
    <2>5. QED
      BY <1>5, <2>1, <2>2, <2>3, <2>4
  <1>6. ASSUME NEW f \in Flows, ProbeOwn(f) \/ ProbeThere(f)
        PROVE  Beside'
    <2>1. CASE ProbeOwn(f)
      BY <2>1, ProbeOwnBeside DEF AllBeside, Beside, NoTwin, ProbeOwn, Stays, others, unseen
    <2>2. CASE ProbeThere(f)
      BY <2>2, ProbeThereBeside DEF AllBeside, Beside, NoTwin, ProbeThere, Stays, others, unseen
    <2>3. QED
      BY <1>6, <2>1, <2>2
  <1>7. ASSUME NEW f \in Flows, Move(f)
        PROVE  Beside'
    BY <1>7, MoveBeside DEF AllBeside, Beside, NoTwin, Move, Stays, MoveTo, others, unseen
  <1>8. ASSUME NEW f \in Flows, Greet(f) \/ Reauth(f)
        PROVE  Beside'
    <2>1. CASE Greet(f)
      BY <2>1, GreetBeside DEF AllBeside, Beside, NoTwin, Greet, others, unseen
    <2>2. CASE Reauth(f)
      BY <2>2, ReauthBeside DEF AllBeside, Beside, NoTwin, Reauth, others, unseen
    <2>3. QED
      BY <1>8, <2>1, <2>2
  <1>9. ASSUME NEW f \in Flows, NEW e \in Slots, Create(f, e)
        PROVE  Beside'
    BY <1>9, CreateBeside DEF AllBeside, Beside, NoTwin
  <1>10. ASSUME NEW f \in Flows, NEW e \in Live, PollRefused(e, f)
         PROVE  Beside'
    BY <1>10, PollRefusedBeside DEF AllBeside, Beside, NoTwin, PollRefused, unseen
  <1>11. ASSUME NEW e \in Live, PollDrives(e)
         PROVE  Beside'
    <2>1. UNCHANGED <<at, name, id, entries, flow, earlier, steady, doubled>>
      BY <1>11 DEF PollDrives, network, history
    <2>2. AllBeside
      BY <2>1, FlowType, ForgottenBeside DEF Live
    <2>3. QED
      BY <2>1, <2>2 DEF AllBeside, Beside, NoTwin
  <1>12. ASSUME NEW e \in Live, PollHealth(e) \/ Delete(e)
         PROVE  Beside'
    BY <1>12, PollHealthBeside, DeleteBeside DEF AllBeside, Beside, NoTwin, PollHealth, Delete
  <1>13. ASSUME NEW e \in Live, NEW t \in Tokens \cup {None}, Settings(e, t)
         PROVE  Beside'
    BY <1>13, SettingsBeside DEF AllBeside, Beside, NoTwin, Settings, others, unseen
  <1>14. ASSUME Change
         PROVE  Beside'
    BY <1>14, ChangeBeside DEF AllBeside, Beside, NoTwin, Change
  <1>15. QED
    BY <1>1, <1>2, <1>3, <1>4, <1>5, <1>6, <1>7, <1>8, <1>9, <1>10, <1>11, <1>12, <1>13, <1>14
       DEF Next

\* No flow makes an entry beside one that was there before its last button and
\* has its agent, however flows, polls and the user's changes interleave
\* (config_flow.py, what it asks between the button and _create_entry).
THEOREM NoneIsDoubled == Spec => []NoTwin
  <1>1. Init => Beside
    <2>1. ASSUME Init, NEW f \in Flows
          PROVE  BesideOK(f)
      <3>1. flow[f] = NoFlow /\ earlier[f] = {} /\ ~steady[f]
        BY <2>1 DEF Init
      <3>2. NoFlow.phase = None /\ NoFlow.kind = None
        BY DEF NoFlow
      <3>3. None \notin {"claim", "elsewhere", "create", "zeroconf", "hassio"}
        BY DEF Kinds, Phases
      <3>4. QED
        BY <3>1, <3>2, <3>3 DEF BesideOK
    <2>2. QED
      BY <2>1 DEF Init, Beside, NoTwin
  <1>2. IInv /\ Beside /\ [Next]_vars => Beside'
    <2> SUFFICES ASSUME IInv, Beside, [Next]_vars PROVE Beside'
      OBVIOUS
    <2>1. CASE Next
      BY <2>1, NextBeside
    <2>2. CASE UNCHANGED vars
      <3>1. UNCHANGED <<at, name, id, entries, flow, earlier, steady, doubled>>
        BY <2>2 DEF vars, network, history
      <3>2. AllBeside
        BY <3>1, FlowType, ForgottenBeside DEF Live
      <3>3. QED
        BY <3>1, <3>2 DEF AllBeside, Beside, NoTwin
    <2>3. QED
      BY <2>1, <2>2
  <1>3. Beside => NoTwin
    BY DEF Beside
  <1>4. QED
    BY <1>1, <1>2, <1>3, Inductive, PTL DEF Spec

-------------------------------------------------------------------------------
(* A moved entry. What a flow that may move its entry has read, and the entry *)
(* that it is about, stay as they are until the move: no two such flows are   *)
(* of one unique id, so no other one moves that entry.                        *)

MovePhases == {"own", "there", "theirs"}

MovingOK(f) ==
    LET r == flow[f]
    IN  r.phase \in MovePhases =>
          /\ r.uid \in NameUids /\ r.was.drives # None
          /\ r.slot # None => /\ r.slot \in Live
                              /\ entries[r.slot].uid = r.uid
                              /\ entries[r.slot].host = r.was.host
          /\ steady[f] /\ r.phase # "own" => Answers(r.was.host) = None
          /\ steady[f] /\ r.phase = "theirs" =>
                Answers(r.host) # None /\ name[Answers(r.host)] = r.was.name

MoversDiffer ==
    \A f, g \in Flows :
        f # g /\ flow[f].phase \in MovePhases /\ flow[g].phase \in MovePhases
            => flow[f].uid # flow[g].uid

Moving == (\A f \in Flows : MovingOK(f)) /\ MoversDiffer

HostsKept == \A d \in Live \cap DOMAIN entries' : entries'[d].host = entries[d].host

\* A flow goes on as it was, and so does its entry unless it is gone.
LeftAlone(g) ==
    /\ flow'[g] \in {flow[g], [flow[g] EXCEPT !.slot = None]}
    /\ steady'[g] => steady[g] /\ UNCHANGED <<at, name>>
    /\ flow[g].phase \in MovePhases /\ flow'[g].slot # None =>
          LET e == flow'[g].slot
          IN  /\ e \in DOMAIN entries'
              /\ entries'[e].uid = entries[e].uid /\ entries'[e].host = entries[e].host

LEMMA LeftFacts ==
  ASSUME IInv, NEW g \in Flows, LeftAlone(g)
  PROVE  /\ flow'[g].phase = flow[g].phase /\ flow'[g].uid = flow[g].uid
         /\ flow'[g].host = flow[g].host /\ flow'[g].was = flow[g].was
         /\ flow'[g].slot \in {flow[g].slot, None}
  BY RecordFacts DEF LeftAlone, Flow

LEMMA MovingLeft ==
  ASSUME IInv, NEW g \in Flows, MovingOK(g), LeftAlone(g)
  PROVE  MovingOK(g)'
  <1> SUFFICES ASSUME flow'[g].phase \in MovePhases PROVE MovingOK(g)'
    BY DEF MovingOK
  <1>1. /\ flow[g].phase \in MovePhases
        /\ flow[g].uid \in NameUids /\ flow[g].was.drives # None
        /\ flow[g].slot # None => /\ entries[flow[g].slot].uid = flow[g].uid
                                  /\ entries[flow[g].slot].host = flow[g].was.host
        /\ steady[g] /\ flow[g].phase # "own" => Answers(flow[g].was.host) = None
        /\ steady[g] /\ flow[g].phase = "theirs" =>
              Answers(flow[g].host) # None /\ name[Answers(flow[g].host)] = flow[g].was.name
    BY LeftFacts DEF MovingOK
  <1>2. flow'[g].slot # None =>
          /\ flow'[g].slot \in Live' /\ entries'[flow'[g].slot].uid = flow'[g].uid
          /\ entries'[flow'[g].slot].host = flow'[g].was.host
    BY <1>1, LeftFacts DEF LeftAlone, Live
  <1>3. ASSUME steady'[g], flow'[g].phase # "own"
        PROVE  Answers(flow[g].was.host)' = None
    <2>1. steady[g] /\ UNCHANGED <<at, name>>
      BY <1>3 DEF LeftAlone
    <2>2. Answers(flow[g].was.host) = None
      BY <1>1, <1>3, <2>1, LeftFacts
    <2>3. QED
      BY <2>1, <2>2, LeftFacts DEF Answers
  <1>4. ASSUME steady'[g], flow'[g].phase = "theirs"
        PROVE  /\ Answers(flow[g].host)' # None
               /\ name'[Answers(flow[g].host)'] = flow'[g].was.name
    <2>1. steady[g] /\ UNCHANGED <<at, name>>
      BY <1>4 DEF LeftAlone
    <2>2. Answers(flow[g].host)' = Answers(flow[g].host)
      BY <2>1, LeftFacts DEF Answers
    <2>3. QED
      BY <1>1, <1>4, <2>1, <2>2, LeftFacts
  <1>5. flow'[g].uid \in NameUids /\ flow'[g].was.drives # None
    BY <1>1, LeftFacts
  <1>6. QED
    BY <1>2, <1>3, <1>4, <1>5 DEF MovingOK, NameUids

LEMMA MovingKept ==
  ASSUME IInv, Moving, \A g \in Flows : flow'[g].phase \notin MovePhases \/ LeftAlone(g)
  PROVE  Moving'
  <1>1. ASSUME NEW g \in Flows PROVE MovingOK(g)'
    <2>1. CASE flow'[g].phase \notin MovePhases
      BY <2>1 DEF MovingOK
    <2>2. CASE LeftAlone(g)
      BY <2>2, MovingLeft DEF Moving
    <2>3. QED
      BY <2>1, <2>2
  <1>2. \A g \in Flows : flow'[g].phase \in MovePhases =>
            flow[g].phase \in MovePhases /\ flow'[g].uid = flow[g].uid
    BY LeftFacts
  <1>3. MoversDiffer'
    BY <1>2 DEF Moving, MoversDiffer
  <1>4. QED
    BY <1>1, <1>3 DEF Moving

\* A step that leaves the entries alone.
LEMMA OthersLeft ==
  ASSUME IInv, Moving, NEW g \in Flows, flow'[g] = flow[g], steady'[g] = steady[g],
         UNCHANGED <<entries, network>>
  PROVE  LeftAlone(g)
  BY DEF LeftAlone, Moving, MovingOK, network, Live

LEMMA QuietMoves ==
  ASSUME IInv, Moving, NEW f \in Flows, NEW r, r.phase \notin MovePhases,
         Goes(f, r) \/ Begins(f, r) \/ End(f), UNCHANGED <<entries, network>>
  PROVE  Moving' /\ HostsKept
  <1>1. flow \in [Flows -> Flow] /\ steady \in [Flows -> BOOLEAN]
    BY DEF IInv, TypeOK
  <1>2. \A g \in Flows \ {f} : flow'[g] = flow[g] /\ steady'[g] = steady[g]
    BY <1>1 DEF Goes, Begins, End
  <1>3. flow'[f] \in {r, NoFlow}
    BY <1>1 DEF Goes, Begins, End
  <1>4. NoFlow.phase \notin MovePhases
    BY NoFlowOK DEF NoFlow, MovePhases, Phases
  <1>5. QED
    BY <1>2, <1>3, <1>4, OthersLeft, MovingKept DEF HostsKept

LEMMA ToMoves ==
  ASSUME IInv, Moving, NEW f \in Flows, NEW p, p \notin MovePhases, To(f, p),
         UNCHANGED <<entries, network>>
  PROVE  Moving' /\ HostsKept
  <1> DEFINE r == [flow[f] EXCEPT !.phase = p]
  <1>1. Goes(f, r) /\ r.phase = p
    BY RecordFacts DEF To, Flow
  <1> HIDE DEF r
  <1>2. QED
    BY <1>1, QuietMoves

LEMMA EndMoves ==
  ASSUME IInv, Moving, NEW f \in Flows, End(f), UNCHANGED <<entries, network>>
  PROVE  Moving' /\ HostsKept
  <1>1. NoFlow.phase \notin MovePhases
    BY NoFlowOK DEF NoFlow, MovePhases, Phases
  <1>2. QED
    BY <1>1, QuietMoves

\* A step that changes neither where an entry is nor its unique id.
LEMMA EntryMoves ==
  ASSUME IInv, Moving,
         \A d \in Live : /\ d \in DOMAIN entries'
                         /\ entries'[d].uid = entries[d].uid
                         /\ entries'[d].host = entries[d].host,
         \A g \in Flows : /\ flow'[g] \in {NoFlow, flow[g]}
                          /\ steady'[g] => steady[g] /\ UNCHANGED <<at, name>>
  PROVE  Moving' /\ HostsKept
  <1>1. NoFlow.phase \notin MovePhases
    BY NoFlowOK DEF NoFlow, MovePhases, Phases
  <1>2. ASSUME NEW g \in Flows, flow'[g] = flow[g]
        PROVE  LeftAlone(g)
    BY <1>2 DEF LeftAlone, Moving, MovingOK
  <1>3. QED
    BY <1>1, <1>2, MovingKept DEF HostsKept

\* The steps of a flow that is not about a move.
LEMMA AskedMoves ==
  ASSUME IInv, Moving, NEW f \in Flows,
         \/ \E h \in Hosts, t \in Tokens \cup {None} : SubmitUser(f, h, t) \/ Hassio(f, h, t)
         \/ \E h \in Hosts, discovered \in BOOLEAN : Import(f, h, discovered)
         \/ \E t \in Tokens \cup {None} : Confirm(f, t) \/ GivePassword(f, t)
         \/ Dismiss(f) \/ Connect(f) \/ Claim(f) \/ CheckElsewhere(f)
         \/ \E e \in Live : PollRefused(e, f)
  PROVE  Moving' /\ HostsKept
  <1>1. ASSUME NEW h \in Hosts, NEW t \in Tokens \cup {None}, SubmitUser(f, h, t)
        PROVE  Moving' /\ HostsKept
    <2> DEFINE r == [NoFlow EXCEPT !.kind = "user", !.phase = "health", !.host = h, !.token = t]
    <2>1. Begins(f, r) /\ UNCHANGED <<entries, network>> /\ r.phase = "health"
      BY <1>1 DEF SubmitUser, unseen, NoFlow
    <2> HIDE DEF r
    <2>2. QED
      BY <2>1, QuietMoves DEF MovePhases
  <1>2. ASSUME NEW h \in Hosts, NEW t \in Tokens \cup {None}, Hassio(f, h, t)
        PROVE  Moving' /\ HostsKept
    <2> DEFINE r == [NoFlow EXCEPT !.kind = "hassio", !.phase = "greet", !.host = h, !.told = t]
    <2>1. Goes(f, r) /\ UNCHANGED <<entries, network>> /\ r.phase = "greet"
      BY <1>2 DEF Hassio, unseen, NoFlow
    <2> HIDE DEF r
    <2>2. QED
      BY <2>1, QuietMoves DEF MovePhases
  <1>3. ASSUME NEW h \in Hosts, NEW discovered \in BOOLEAN, Import(f, h, discovered)
        PROVE  Moving' /\ HostsKept
    <2> DEFINE r == [NoFlow EXCEPT !.kind = "import", !.phase = "health", !.host = h,
                                   !.name = IF discovered THEN name[Answers(h)] ELSE None,
                                   !.count = Cardinality(Drives[Answers(h)])]
    <2>1. Begins(f, r) /\ UNCHANGED <<entries, network>> /\ r.phase = "health"
      BY <1>3 DEF Import, unseen, NoFlow
    <2> HIDE DEF r
    <2>2. QED
      BY <2>1, QuietMoves DEF MovePhases
  <1>4. ASSUME NEW t \in Tokens \cup {None}, Confirm(f, t)
        PROVE  Moving' /\ HostsKept
    <2> DEFINE r == [flow[f] EXCEPT !.phase = "health", !.confirmed = TRUE,
                                    !.token = IF t = None THEN flow[f].told ELSE t]
    <2>1. Begins(f, r) /\ UNCHANGED <<entries, network>> /\ r.phase = "health"
      BY <1>4, RecordFacts DEF Confirm, others, unseen, Flow
    <2> HIDE DEF r
    <2>2. QED
      BY <2>1, QuietMoves DEF MovePhases
  <1>5. ASSUME NEW t \in Tokens \cup {None}, GivePassword(f, t)
        PROVE  Moving' /\ HostsKept
    <2> DEFINE r == [flow[f] EXCEPT !.phase = "try", !.token = t,
                                    !.host = entries[flow[f].slot].host]
    <2>1. Goes(f, r) /\ UNCHANGED <<entries, network>> /\ r.phase = "try"
      BY <1>5, RecordFacts DEF GivePassword, others, unseen, Flow
    <2> HIDE DEF r
    <2>2. QED
      BY <2>1, QuietMoves DEF MovePhases
  <1>6. ASSUME Dismiss(f) PROVE Moving' /\ HostsKept
    BY <1>6, EndMoves DEF Dismiss, others, unseen
  <1>7. ASSUME Connect(f) PROVE Moving' /\ HostsKept
    <2> DEFINE r == [flow[f] EXCEPT !.health = Health(flow[f].host), !.phase = "claim"]
    <2>1. UNCHANGED <<entries, network>> /\ (End(f) \/ To(f, "card") \/ Goes(f, r))
      BY <1>7 DEF Connect, others, unseen
    <2>2. r.phase = "claim"
      BY RecordFacts DEF Flow
    <2> HIDE DEF r
    <2>3. QED
      BY <2>1, <2>2, EndMoves, ToMoves, QuietMoves DEF MovePhases
  <1>8. ASSUME Claim(f) PROVE Moving' /\ HostsKept
    <2> DEFINE r == [flow[f] EXCEPT !.uid = UidOf(f),
                       !.phase = IF flow[f].kind = "hassio" THEN "create" ELSE "elsewhere"]
    <2>1. UNCHANGED <<entries, network>> /\ (End(f) \/ Goes(f, r))
      BY <1>8 DEF Claim, others, unseen
    <2>2. r.phase \in {"create", "elsewhere"}
      BY RecordFacts DEF Flow
    <2> HIDE DEF r
    <2>3. QED
      BY <2>1, <2>2, EndMoves, QuietMoves DEF MovePhases
  <1>9. ASSUME CheckElsewhere(f) PROVE Moving' /\ HostsKept
    <2>1. UNCHANGED <<entries, network>> /\ (End(f) \/ To(f, "card") \/ To(f, "create"))
      BY <1>9 DEF CheckElsewhere, others, unseen
    <2>2. QED
      BY <2>1, EndMoves, ToMoves DEF MovePhases
  <1>10. ASSUME NEW e \in Live, PollRefused(e, f)
         PROVE  Moving' /\ HostsKept
    <2> DEFINE r == [NoFlow EXCEPT !.kind = "reauth", !.phase = "ask", !.slot = e,
                                   !.uid = entries[e].uid]
    <2>1. Goes(f, r) /\ UNCHANGED <<entries, network>> /\ r.phase = "ask"
      BY <1>10 DEF PollRefused, unseen, NoFlow
    <2> HIDE DEF r
    <2>2. QED
      BY <2>1, QuietMoves DEF MovePhases
  <1>11. QED
    BY <1>1, <1>2, <1>3, <1>4, <1>5, <1>6, <1>7, <1>8, <1>9, <1>10

LEMMA StaysMoves ==
  ASSUME IInv, Moving, NEW f \in Flows, Stays(f)
  PROVE  Moving' /\ HostsKept
  <1> DEFINE r == [flow[f] EXCEPT !.phase = "elsewhere", !.slot = None, !.was = None]
  <1>1. UNCHANGED <<entries, network>> /\ (End(f) \/ Goes(f, r))
    BY DEF Stays, others, unseen
  <1>2. r.phase = "elsewhere"
    BY RecordFacts DEF Flow
  <1> HIDE DEF r
  <1>3. QED
    BY <1>1, <1>2, EndMoves, QuietMoves DEF MovePhases

\* What has just been read is so.
LEMMA ReadMoves ==
  ASSUME IInv, Moving, NEW f \in Flows, NEW p \in {"there", "theirs"},
         flow[f].phase \in MovePhases, To(f, p), UNCHANGED <<entries, network>>,
         steady[f] => Answers(flow[f].was.host) = None,
         p = "theirs" => /\ Answers(flow[f].host) # None
                         /\ name[Answers(flow[f].host)] = flow[f].was.name
  PROVE  Moving' /\ HostsKept
  <1> DEFINE r == [flow[f] EXCEPT !.phase = p]
  <1>1. flow \in [Flows -> Flow] /\ steady \in [Flows -> BOOLEAN]
    BY DEF IInv, TypeOK
  <1>2. /\ flow'[f] = r /\ UNCHANGED <<at, name, steady>>
        /\ \A g \in Flows \ {f} : flow'[g] = flow[g]
    BY <1>1 DEF To, Goes, network
  <1>3. /\ r.phase = p /\ r.uid = flow[f].uid /\ r.slot = flow[f].slot
        /\ r.host = flow[f].host /\ r.was = flow[f].was
    BY <1>1 DEF Flow
  <1> HIDE DEF r
  <1>4. MovingOK(f)'
    <2>1. Answers(flow[f].was.host)' = Answers(flow[f].was.host)
      BY <1>2, <1>3 DEF Answers
    <2>2. Answers(flow[f].host)' = Answers(flow[f].host)
      BY <1>2, <1>3 DEF Answers
    <2>3. MovingOK(f)
      BY DEF Moving
    <2>4. QED
      BY <1>2, <1>3, <2>1, <2>2, <2>3 DEF MovingOK, NameUids, Live
  <1>5. \A g \in Flows \ {f} : MovingOK(g)'
    BY <1>2, OthersLeft, MovingLeft DEF Moving
  <1>6. MoversDiffer'
    BY <1>2, <1>3 DEF Moving, MoversDiffer
  <1>7. QED
    BY <1>4, <1>5, <1>6 DEF Moving, HostsKept

LEMMA ProbeOwnMoves ==
  ASSUME IInv, Moving, NEW f \in Flows, ProbeOwn(f)
  PROVE  Moving' /\ HostsKept
  <1>1. flow[f].phase \in MovePhases
    BY DEF ProbeOwn, MovePhases
  <1>2. QED
    BY <1>1, StaysMoves, ReadMoves DEF ProbeOwn, others, unseen

LEMMA ProbeThereMoves ==
  ASSUME IInv, Moving, NEW f \in Flows, ProbeThere(f)
  PROVE  Moving' /\ HostsKept
  <1> DEFINE h == flow[f].host
  <1>1. flow[f].phase = "there"
    BY DEF ProbeThere
  <1>2. CASE Stays(f)
    BY <1>2, StaysMoves
  <1>3. CASE ~Stays(f)
    <2>1. /\ Health(h) # None /\ Health(h).name = flow[f].was.name
          /\ To(f, "theirs") /\ UNCHANGED <<entries, network>>
      BY <1>3 DEF ProbeThere, others, unseen
    <2>2. Answers(h) # None /\ name[Answers(h)] = flow[f].was.name
      BY <2>1 DEF Health
    <2>3. steady[f] => Answers(flow[f].was.host) = None
      BY <1>1 DEF Moving, MovingOK, MovePhases
    <2>4. QED
      BY <1>1, <2>1, <2>2, <2>3, ReadMoves DEF MovePhases
  <1>4. QED
    BY <1>2, <1>3

LEMMA KeepsTokenMoves ==
  ASSUME IInv, Moving, NEW f \in Flows, NEW known \in SUBSET Live, KeepsToken(f, known),
         UNCHANGED network
  PROVE  Moving' /\ HostsKept
  <1>1. PICK e \in Live :
          /\ entries' = IF flow[f].told = None THEN entries
                        ELSE [entries EXCEPT ![e].token = flow[f].told]
          /\ flow' = [flow EXCEPT ![f] = NoFlow]
          /\ steady' = [steady EXCEPT ![f] = FALSE]
    BY DEF KeepsToken
  <1>2. /\ flow \in [Flows -> Flow] /\ steady \in [Flows -> BOOLEAN]
        /\ entries \in [Live -> Entry]
    BY DEF IInv, TypeOK
  <1>3. \A d \in Live : /\ d \in DOMAIN entries' /\ entries'[d].uid = entries[d].uid
                        /\ entries'[d].host = entries[d].host
    BY <1>1, <1>2 DEF Entry, Live
  <1>4. \A g \in Flows : /\ flow'[g] \in {NoFlow, flow[g]}
                         /\ steady'[g] => steady[g] /\ UNCHANGED <<at, name>>
    BY <1>1, <1>2 DEF network
  <1>5. QED
    BY <1>3, <1>4, EntryMoves

LEMMA GreetMoves ==
  ASSUME IInv, Moving, NEW f \in Flows, Greet(f)
  PROVE  Moving' /\ HostsKept
  <1> DEFINE h == flow[f].host
             r == [flow[f] EXCEPT !.phase = "card", !.uid = ByHost(h)]
             known == HassioKnown(Health(h).id, Health(h).name, h)
             same  == {e \in Live : entries[e].uid = ByHost(h)}
             there == {e \in Live : AddressOf[entries[e].host] = AddressOf[h]}
  <1>1. /\ UNCHANGED others
        /\ \/ End(f) /\ UNCHANGED entries
           \/ KeepsToken(f, known) \/ KeepsToken(f, same) \/ KeepsToken(f, there)
           \/ Goes(f, r) /\ UNCHANGED entries
    BY Zenon DEF Greet
  <1>2. known \subseteq Live /\ same \subseteq Live /\ there \subseteq Live
    BY DEF HassioKnown
  <1>3. r.phase = "card"
    BY RecordFacts DEF Flow
  <1> HIDE DEF known, same, there, r
  <1>4. QED
    BY <1>1, <1>2, <1>3, EndMoves, KeepsTokenMoves, QuietMoves DEF others, unseen, MovePhases

LEMMA ReauthMoves ==
  ASSUME IInv, Moving, NEW f \in Flows, Reauth(f)
  PROVE  Moving' /\ HostsKept
  <1>1. CASE To(f, "ask") /\ UNCHANGED entries
    BY <1>1, ToMoves DEF Reauth, others, unseen, MovePhases
  <1>2. CASE ~(To(f, "ask") /\ UNCHANGED entries)
    <2> DEFINE e == flow[f].slot
    <2>1. /\ entries' = [entries EXCEPT ![e].token = flow[f].token]
          /\ flow' = [flow EXCEPT ![f] = NoFlow] /\ UNCHANGED <<steady, network>>
      BY <1>2 DEF Reauth, others, unseen
    <2> HIDE DEF e
    <2>2. flow \in [Flows -> Flow] /\ entries \in [Live -> Entry]
      BY DEF IInv, TypeOK
    <2>3. \A d \in Live : /\ d \in DOMAIN entries' /\ entries'[d].uid = entries[d].uid
                          /\ entries'[d].host = entries[d].host
      BY <2>1, <2>2 DEF Entry, Live
    <2>4. \A g \in Flows : flow'[g] \in {NoFlow, flow[g]}
      BY <2>1, <2>2
    <2>5. QED
      BY <2>1, <2>3, <2>4, EntryMoves DEF network
  <1>3. QED
    BY <1>1, <1>2

LEMMA PollMoves ==
  ASSUME IInv, Moving, NEW e \in Live, PollDrives(e) \/ PollHealth(e)
  PROVE  Moving' /\ HostsKept
  <1>1. entries \in [Live -> Entry] /\ Live = DOMAIN entries
    BY DEF IInv, TypeOK, Live
  <1>2. CASE PollDrives(e)
    BY <1>1, <1>2, EntryMoves DEF PollDrives, network, history
  <1>3. CASE PollHealth(e)
    <2> DEFINE r == Learned(entries[e], Health(entries[e].host), polled[e])
    <2>1. entries' = [entries EXCEPT ![e] = r] /\ UNCHANGED <<network, flow, steady>>
      BY <1>3 DEF PollHealth
    <2>2. entries[e] \in Entry /\ entries[e].host \in Hosts
      BY FieldFacts DEF Entry
    <2>3. Health(entries[e].host) \in HealthRead \cup {None}
      BY <2>2, AnswerType DEF IInv
    <2>4. polled[e] \in DriveSets \cup {None}
      BY DEF IInv, TypeOK
    <2>5. r.uid = entries[e].uid /\ r.host = entries[e].host
      BY <2>2, <2>3, <2>4, FieldFacts, LearnedFacts
    <2> HIDE DEF r
    <2>6. \A d \in Live : /\ d \in DOMAIN entries' /\ entries'[d].uid = entries[d].uid
                          /\ entries'[d].host = entries[d].host
      BY <1>1, <2>1, <2>5
    <2>7. QED
      BY <2>1, <2>6, EntryMoves DEF network
  <1>4. QED
    BY <1>2, <1>3

LEMMA SettingsMoves ==
  ASSUME IInv, Moving, NEW e \in Live, NEW t \in Tokens \cup {None}, Settings(e, t)
  PROVE  Moving' /\ HostsKept
  <1>1. entries' = [entries EXCEPT ![e].token = t] /\ UNCHANGED <<network, flow, steady>>
    BY DEF Settings, others, unseen
  <1>2. entries \in [Live -> Entry]
    BY DEF IInv, TypeOK
  <1>3. \A d \in Live : /\ d \in DOMAIN entries' /\ entries'[d].uid = entries[d].uid
                        /\ entries'[d].host = entries[d].host
    BY <1>1, <1>2 DEF Entry, Live
  <1>4. QED
    BY <1>1, <1>3, EntryMoves DEF network

LEMMA ChangeMoves ==
  ASSUME IInv, Moving, Change
  PROVE  Moving' /\ HostsKept
  <1>1. UNCHANGED <<entries, flow>> /\ \A g \in Flows : ~steady'[g]
    BY DEF Change
  <1>2. QED
    BY <1>1, EntryMoves DEF Live

\* Entries that go take their flows' slots with them.
LEMMA GoneMoves ==
  ASSUME IInv, Moving, NEW gone \in SUBSET Live,
         \A g \in Flows : /\ flow'[g] \in {NoFlow, Without(gone)[g]}
                          /\ steady'[g] => steady[g],
         \A d \in Live \ gone : d \in DOMAIN entries' /\ entries'[d] = entries[d],
         UNCHANGED <<at, name>>
  PROVE  Moving'
  <1>1. NoFlow.phase \notin MovePhases
    BY NoFlowOK DEF NoFlow, MovePhases, Phases
  <1>2. ASSUME NEW g \in Flows, flow'[g] # NoFlow
        PROVE  LeftAlone(g)
    <2>1. /\ flow'[g] \in {flow[g], [flow[g] EXCEPT !.slot = None]}
          /\ flow[g].slot \in gone => flow'[g] = [flow[g] EXCEPT !.slot = None]
      BY <1>2 DEF Without
    <2>2. flow'[g].slot # None => flow'[g].slot = flow[g].slot /\ flow[g].slot \notin gone
      BY <2>1, RecordFacts DEF Flow
    <2>3. flow[g].phase \in MovePhases /\ flow[g].slot # None => flow[g].slot \in Live
      BY DEF Moving, MovingOK
    <2>4. QED
      BY <2>1, <2>2, <2>3 DEF LeftAlone
  <1>3. QED
    BY <1>1, <1>2, MovingKept

LEMMA DeleteMoves ==
  ASSUME IInv, Moving, NEW e \in Live, Delete(e)
  PROVE  Moving' /\ HostsKept
  <1>1. /\ entries' = Restrict(entries, Live \ {e})
        /\ flow' = Without({e}) /\ UNCHANGED <<network, steady>>
    BY DEF Delete
  <1>2. \A d \in Live \ {e} : d \in DOMAIN entries' /\ entries'[d] = entries[d]
    BY <1>1 DEF Restrict
  <1>3. DOMAIN entries' = Live \ {e}
    BY <1>1 DEF Restrict
  <1>4. QED
    BY <1>1, <1>2, <1>3, GoneMoves DEF network, HostsKept

LEMMA CreateMoves ==
  ASSUME IInv, Moving, NEW f \in Flows, NEW e \in Slots, Create(f, e)
  PROVE  Moving' /\ HostsKept
  <1> DEFINE same == {d \in Live : entries[d].uid = flow[f].uid}
             next == (Live \ same) \cup {e}
  <1>1. /\ e \notin Live
        /\ entries' = [d \in next |-> IF d = e THEN Made(f) ELSE entries[d]]
        /\ flow' = [Without(same) EXCEPT ![f] = NoFlow]
        /\ steady' = [steady EXCEPT ![f] = FALSE]
        /\ UNCHANGED network
    BY DEF Create
  <1>2. steady \in [Flows -> BOOLEAN]
    BY DEF IInv, TypeOK
  <1>3. \A g \in Flows : flow'[g] \in {NoFlow, Without(same)[g]}
    BY <1>1 DEF Without
  <1>4. \A d \in Live \ same : d \in DOMAIN entries' /\ entries'[d] = entries[d]
    BY <1>1
  <1>5. HostsKept
    BY <1>1 DEF HostsKept
  <1>6. same \subseteq Live
    OBVIOUS
  <1> HIDE DEF same
  <1>7. Moving'
    BY <1>1, <1>2, <1>3, <1>4, <1>6, GoneMoves DEF network
  <1>8. QED
    BY <1>5, <1>7

LEMMA AnnounceMoves ==
  ASSUME IInv, Moving, NEW f \in Flows, NEW a \in Agents, NEW told \in SUBSET Hosts,
         Announce(f, a, told)
  PROVE  Moving' /\ HostsKept
  <1> DEFINE n == name[a]
             R(h) == [NoFlow EXCEPT !.kind = "zeroconf", !.host = h, !.name = n,
                                    !.uid = ByName(n), !.count = Cardinality(Drives[a])]
  <1>1. n \in Names
    BY DEF IInv, TypeOK
  <1> DEFINE Told(h, m) ==
                /\ entries' = m
                /\ \/ UNCHANGED <<flow, earlier, steady>>
                   \/ Begins(f, [R(h) EXCEPT !.phase = "elsewhere"])
                   \/ /\ ~InProgress(f, ByName(n))
                      /\ \E e \in Live :
                            /\ m[e].uid = ByName(n) /\ m[e].drives # None
                            /\ Begins(f, [R(h) EXCEPT !.phase = "own", !.slot = e, !.was = m[e]])
  <1>2. PICK h \in Hosts : \E m \in Migrations(n, h) : Told(h, m)
    <2>1. Best(told) \subseteq Hosts
      BY DEF Best
    <2>2. QED
      BY <2>1 DEF Announce, MayMove
  <1>3. PICK m \in Migrations(n, h) : Told(h, m)
    BY <1>2
  <1>4. DOMAIN entries' = Live /\ UNCHANGED <<at, name>>
    BY <1>1, <1>3, MigrationFacts DEF Announce, unseen, network
  <1>5. \A d \in Live : /\ entries'[d].host = entries[d].host
                        /\ entries[d].uid \in NameUids => entries'[d].uid = entries[d].uid
    <2>1. \A d \in Live : /\ m[d].host = entries[d].host
                          /\ m[d].uid # entries[d].uid => entries[d].uid \notin NameUids
      BY <1>1, MigrationTouches
    <2>2. entries' = m
      BY <1>3
    <2>3. QED
      BY <2>1, <2>2
  <1>6. flow \in [Flows -> Flow] /\ steady \in [Flows -> BOOLEAN]
    BY DEF IInv, TypeOK
  <1>7. ASSUME NEW g \in Flows, flow'[g] = flow[g], steady'[g] = steady[g]
        PROVE  LeftAlone(g)
    BY <1>4, <1>5, <1>7 DEF LeftAlone, Moving, MovingOK
  <1>8. HostsKept
    BY <1>4, <1>5 DEF HostsKept
  <1>9. CASE UNCHANGED <<flow, earlier, steady>>
    BY <1>7, <1>8, <1>9, MovingKept
  <1>10. CASE Begins(f, [R(h) EXCEPT !.phase = "elsewhere"])
    <2> DEFINE r == [R(h) EXCEPT !.phase = "elsewhere"]
    <2>1. r.phase = "elsewhere"
      BY DEF NoFlow
    <2> HIDE DEF r
    <2>2. flow'[f] = r /\ \A g \in Flows \ {f} : flow'[g] = flow[g] /\ steady'[g] = steady[g]
      BY <1>6, <1>10 DEF Begins, r
    <2>3. QED
      BY <1>7, <1>8, <2>1, <2>2, MovingKept DEF MovePhases
  <1>11. ASSUME ~InProgress(f, ByName(n)), NEW e \in Live,
                m[e].uid = ByName(n), m[e].drives # None,
                Begins(f, [R(h) EXCEPT !.phase = "own", !.slot = e, !.was = m[e]])
         PROVE  Moving'
    <2> DEFINE r == [R(h) EXCEPT !.phase = "own", !.slot = e, !.was = m[e]]
    <2>1. r.phase = "own" /\ r.uid = ByName(n) /\ r.slot = e /\ r.was = m[e]
      BY DEF NoFlow
    <2> HIDE DEF r
    <2>2. flow'[f] = r /\ \A g \in Flows \ {f} : flow'[g] = flow[g] /\ steady'[g] = steady[g]
      BY <1>6, <1>11 DEF Begins, r
    <2>3. ByName(n) \in NameUids
      BY <1>1 DEF NameUids
    <2>4. MovingOK(f)'
      BY <1>3, <1>4, <1>11, <2>1, <2>2, <2>3 DEF MovingOK, NameUids, Live
    <2>5. \A g \in Flows \ {f} : MovingOK(g)'
      BY <1>7, <2>2, MovingLeft DEF Moving
    <2>6. \A g \in Flows \ {f} : flow[g].uid # ByName(n)
      BY <1>11 DEF InProgress
    <2>7. MoversDiffer'
      BY <2>1, <2>2, <2>6 DEF Moving, MoversDiffer
    <2>8. QED
      BY <2>4, <2>5, <2>7 DEF Moving
  <1>12. QED
    BY <1>3, <1>8, <1>9, <1>10, <1>11

\* Flow f has moved entry e.
Moved(f, e) ==
    /\ flow[f].phase = "theirs" /\ entries'[e].host = flow[f].host
    /\ DrivesAt(flow[f].host, None) = flow[f].was.drives
    /\ \A g \in Flows \ {f} : flow'[g] = flow[g]
    /\ \A d \in Live \ {e} : entries'[d] = entries[d]

LEMMA MoveMoves ==
  ASSUME IInv, Moving, NEW f \in Flows, Move(f)
  PROVE  Moving' /\ (HostsKept \/ \E e \in Live : Moved(f, e))
  <1>1. CASE Stays(f)
    BY <1>1, StaysMoves
  <1>2. CASE ~Stays(f)
    <2>1. PICK e \in Live : /\ entries[e].uid = flow[f].uid /\ MoveTo(f, e)
                            /\ flow[f].phase = "theirs"
                            /\ DrivesAt(flow[f].host, None) = flow[f].was.drives
      BY <1>2 DEF Move
    <2>2. /\ flow \in [Flows -> Flow] /\ steady \in [Flows -> BOOLEAN]
          /\ entries \in [Live -> Entry]
      BY DEF IInv, TypeOK
    <2>3. /\ DOMAIN entries' = Live /\ entries'[e].host = flow[f].host
          /\ \A d \in Live \ {e} : entries'[d] = entries[d]
          /\ flow'[f] = NoFlow /\ UNCHANGED <<at, name>>
          /\ \A g \in Flows \ {f} : flow'[g] = flow[g] /\ steady'[g] = steady[g]
      BY <2>1, <2>2 DEF MoveTo, network, Live, Entry
    <2>4. ASSUME NEW g \in Flows \ {f}, flow[g].phase \in MovePhases, flow[g].slot # None
          PROVE  flow[g].slot \in Live \ {e}
      <3>1. flow[g].uid # flow[f].uid
        BY <2>1, <2>4 DEF Moving, MoversDiffer, MovePhases
      <3>2. flow[g].slot \in Live /\ entries[flow[g].slot].uid = flow[g].uid
        BY <2>4 DEF Moving, MovingOK
      <3>3. QED
        BY <2>1, <3>1, <3>2
    <2>5. \A g \in Flows \ {f} : LeftAlone(g)
      BY <2>3, <2>4 DEF LeftAlone
    <2>6. NoFlow.phase \notin MovePhases
      BY NoFlowOK DEF NoFlow, MovePhases, Phases
    <2>7. Moving'
      BY <2>3, <2>5, <2>6, MovingKept
    <2>8. Moved(f, e)
      BY <2>1, <2>3 DEF Moved
    <2>9. QED
      BY <2>7, <2>8
  <1>3. QED
    BY <1>1, <1>2

LEMMA NextMoves ==
  ASSUME IInv, Moving, [Next]_vars
  PROVE  Moving' /\ (HostsKept \/ \E f \in Flows, e \in Live : Moved(f, e))
  <1>1. ASSUME NEW f \in Flows,
               \/ \E h \in Hosts, t \in Tokens \cup {None} : SubmitUser(f, h, t) \/ Hassio(f, h, t)
               \/ \E told \in (SUBSET Hosts) \ {{}}, a \in Agents : Announce(f, a, told)
               \/ \E h \in Hosts, discovered \in BOOLEAN : Import(f, h, discovered)
               \/ \E t \in Tokens \cup {None} : Confirm(f, t) \/ GivePassword(f, t)
               \/ Dismiss(f) \/ Connect(f) \/ Claim(f)
               \/ CheckElsewhere(f) \/ ProbeOwn(f) \/ ProbeThere(f) \/ Move(f)
               \/ Greet(f) \/ Reauth(f)
               \/ \E e \in Slots : Create(f, e)
               \/ \E e \in Live : PollRefused(e, f)
        PROVE  Moving' /\ (HostsKept \/ \E e \in Live : Moved(f, e))
    <2>1. CASE \E told \in (SUBSET Hosts) \ {{}}, a \in Agents : Announce(f, a, told)
      BY <2>1, AnnounceMoves
    <2>2. CASE ProbeOwn(f) \/ ProbeThere(f) \/ Move(f)
      BY <2>2, ProbeOwnMoves, ProbeThereMoves, MoveMoves
    <2>3. CASE Greet(f) \/ Reauth(f)
      BY <2>3, GreetMoves, ReauthMoves
    <2>4. CASE \E e \in Slots : Create(f, e)
      BY <2>4, CreateMoves
    <2>5. QED
      BY <1>1, <2>1, <2>2, <2>3, <2>4, AskedMoves
  <1>2. ASSUME NEW e \in Live,
               \/ PollDrives(e) \/ PollHealth(e) \/ Delete(e)
               \/ \E t \in Tokens \cup {None} : Settings(e, t)
        PROVE  Moving' /\ HostsKept
    BY <1>2, PollMoves, DeleteMoves, SettingsMoves
  <1>3. CASE UNCHANGED vars
    BY <1>3, EntryMoves DEF vars, network, history, Live
  <1>4. QED
    BY <1>1, <1>2, <1>3, ChangeMoves DEF Next

\* An entry is moved only to an agent with the name and the drives that it knew,
\* from where nobody answers, whatever other flows, polls and settings did
\* between the reads (config_flow.py, _may_move).
THEOREM MovedAsFound == Spec => MovedToItsAgent
  <1> DEFINE MovesWell ==
        \A f \in Flows, e \in Live \cap Live' :
           LET was == flow[f].was
               a   == Answers(entries'[e].host)
           IN  /\ entries'[e].host # entries[e].host
               /\ was # None /\ flow'[f] = NoFlow /\ steady[f]
               => /\ a # None /\ name[a] = was.name /\ Drives[a] = was.drives
                  /\ flow[f].slot = e => /\ entries[e].host = was.host
                                        /\ Answers(was.host) = None
  <1>1. Init => Moving
    <2>1. NoFlow.phase \notin MovePhases
      BY NoFlowOK DEF NoFlow, MovePhases, Phases
    <2>2. QED
      BY <2>1 DEF Init, Moving, MovingOK, MoversDiffer
  <1>2. IInv /\ Moving /\ [Next]_vars => MovesWell
    <2> SUFFICES ASSUME IInv, Moving, [Next]_vars,
                        NEW f \in Flows, NEW e \in Live \cap Live',
                        entries'[e].host # entries[e].host,
                        flow[f].was # None, flow'[f] = NoFlow, steady[f]
                 PROVE  LET was == flow[f].was
                            a   == Answers(entries'[e].host)
                        IN  /\ a # None /\ name[a] = was.name /\ Drives[a] = was.drives
                            /\ flow[f].slot = e => /\ entries[e].host = was.host
                                                  /\ Answers(was.host) = None
      OBVIOUS
    <2>1. PICK g \in Flows, d \in Live : Moved(g, d)
      BY NextMoves DEF HostsKept, Live
    <2>2. d = e
      BY <2>1 DEF Moved
    <2>3. g = f
      BY <2>1 DEF Moved, NoFlow
    <2>4. /\ flow[f].phase = "theirs" /\ entries'[e].host = flow[f].host
          /\ DrivesAt(flow[f].host, None) = flow[f].was.drives
      BY <2>1, <2>2, <2>3 DEF Moved
    <2>5. /\ flow[f].was.drives # None
          /\ Answers(flow[f].was.host) = None
          /\ Answers(flow[f].host) # None /\ name[Answers(flow[f].host)] = flow[f].was.name
          /\ flow[f].slot # None => entries[flow[f].slot].host = flow[f].was.host
      BY <2>4 DEF Moving, MovingOK, MovePhases
    <2>6. Drives[Answers(flow[f].host)] = flow[f].was.drives
      BY <2>4, <2>5 DEF DrivesAt
    <2>7. e # None
      BY DEF IInv, TypeOK
    <2>8. QED
      BY <2>4, <2>5, <2>6, <2>7
  <1>3. IInv /\ Moving /\ [Next]_vars => [MovesWell]_vars
    BY <1>2
  <1>4. IInv /\ Moving /\ [Next]_vars => Moving'
    BY NextMoves
  <1> HIDE DEF MovesWell
  <1>5. Spec => [][MovesWell]_vars
    BY <1>1, <1>3, <1>4, Inductive, PTL DEF Spec
  <1>6. QED
    BY <1>5 DEF MovedToItsAgent, MovesWell
=============================================================================
