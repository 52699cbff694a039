--------------------------- MODULE DriveCacheProofs ---------------------------
(***************************************************************************)
(* DriveCache for every host, configuration and number of polls.           *)
(*                                                                         *)
(* What is published is what one poll put together, so each property of    *)
(* drives is first an invariant of newDrives while the poll runs (pc =     *)
(* "read"): IInv pairs the two.                                            *)
(***************************************************************************)
EXTENDS DriveCache, TLAPS, FiniteSetTheorems

AnswerKinds == {"exec", "open", "lowpower", "command", "clean"}
Answer == [kind : AnswerKinds, serial : SerialOrNone, smart : BOOLEAN,
           disk : Disks \cup {NoDisk}]
Fetched == [ans : Answer, calls : Seq(Protocols), sat : BOOLEAN, cached : Protocols]

-----------------------------------------------------------------------------
(* The operators of the model                                              *)

LEMMA RangeAppend ==
  ASSUME NEW S, NEW s \in Seq(S), NEW x \in S
  PROVE  Range(Append(s, x)) = Range(s) \cup {x}
  <1>1. DOMAIN Append(s, x) = 1..(Len(s) + 1)
    OBVIOUS
  <1>2. \A i \in 1..Len(s) : Append(s, x)[i] = s[i]
    OBVIOUS
  <1>3. Append(s, x)[Len(s) + 1] = x
    OBVIOUS
  <1>4. Len(s) \in Nat /\ DOMAIN s = 1..Len(s)
    OBVIOUS
  <1>5. QED
    BY <1>1, <1>2, <1>3, <1>4 DEF Range

LEMMA PutIsMap ==
  ASSUME NEW D, NEW R, NEW f, IsMap(f, D, R), NEW k \in D, NEW v \in R
  PROVE  IsMap(Put(f, k, v), D, R) /\ DOMAIN Put(f, k, v) = DOMAIN f \cup {k}
  BY DEF IsMap, Put

LEMMA SeqElement ==
  ASSUME NEW S, NEW s \in Seq(S), NEW i \in DOMAIN s
  PROVE  s[i] \in S
  OBVIOUS

LEMMA OverrideElements ==
  \A i \in DOMAIN DeviceOverrides : DeviceOverrides[i] \in Override
  BY OverrideAssumption, SeqElement

LEMMA OverrideType ==
  ASSUME NEW p \in Paths, IsOverride(p)
  PROVE  OverrideOf(p) \in Protocols \ {"none"}
  BY OverrideElements DEF IsOverride, OverrideOf, Override

LEMMA AnswerType ==
  ASSUME TypeOK, NEW p \in Paths, NEW a \in Answers(p)
  PROVE  /\ a \in Answer
         /\ Readable(a) => a.disk \in Disks
  <1>1. disk[p] \in Disks \cup {NoDisk}
    BY DEF TypeOK
  <1>2. CASE a \in {Silent(k, p) : k \in {"exec", "open", "lowpower"}}
    <2>1. PICK k \in {"exec", "open", "lowpower"} : a = Silent(k, p)
      BY <1>2
    <2>2. NoSerial \in SerialOrNone
      BY DEF SerialOrNone
    <2>3. QED
      BY <1>1, <2>1, <2>2 DEF Answer, AnswerKinds, Silent, Readable
  <1>3. CASE disk[p] # NoDisk /\ a.kind = "clean"
             /\ a \in [kind : {"clean"}, serial : {SerialOf[disk[p]]},
                      smart : BOOLEAN, disk : {disk[p]}]
    <2>1. disk[p] \in Disks /\ SerialOf[disk[p]] \in SerialOrNone
      BY <1>1, <1>3, SerialAssumption
    <2>2. QED
      BY <1>3, <2>1 DEF Answer, AnswerKinds
  <1>4. CASE disk[p] # NoDisk /\ a.kind = "command"
             /\ a \in [kind : {"command"}, serial : {SerialOf[disk[p]], NoSerial},
                      smart : BOOLEAN, disk : {disk[p]}]
    <2>1. disk[p] \in Disks /\ SerialOf[disk[p]] \in SerialOrNone
      BY <1>1, <1>4, SerialAssumption
    <2>2. NoSerial \in SerialOrNone
      BY DEF SerialOrNone
    <2>3. QED
      BY <1>4, <2>1, <2>2 DEF Answer, AnswerKinds
  <1>5. QED
    BY <1>2, <1>3, <1>4 DEF Answers

LEMMA FetchedRecord ==
  ASSUME NEW a \in Answer, NEW c \in Seq(Protocols), NEW b \in BOOLEAN, NEW k \in Protocols
  PROVE  [ans |-> a, calls |-> c, sat |-> b, cached |-> k] \in Fetched
  BY DEF Fetched

LEMMA FetchType ==
  ASSUME TypeOK, NEW dev \in Device, NEW f \in Fetches(dev)
  PROVE  /\ f \in Fetched
         /\ f.ans \in Answers(dev.name)
  <1> DEFINE p == dev.name
             proto == IF p \in DOMAIN protocolCache THEN protocolCache[p] ELSE dev.protocol
  <1>1. p \in Paths /\ dev.protocol \in Protocols /\ proto \in Protocols
    BY DEF Device, TypeOK, IsMap
  <1>2. \A q \in Protocols : DashD(p, q) \in Protocols
    BY DEF DashD, Protocols, ScanProtocols
  <1>3. \A a \in Answers(p) : a \in Answer
    BY <1>1, AnswerType
  <1>4. "sat" \in Protocols
    BY DEF Protocols
  <1>5. CASE f \in LearnedFetch(p, dev.protocol)
    <2>1. PICK a \in Answers(p) :
            \/ f = [ans |-> a, calls |-> <<"sat">>, sat |-> TRUE, cached |-> "sat"]
            \/ f = [ans |-> a, calls |-> <<"sat", DashD(p, dev.protocol)>>,
                    sat |-> FALSE, cached |-> dev.protocol]
      BY <1>5 DEF LearnedFetch
    <2>2. /\ <<"sat">> \in Seq(Protocols)
          /\ <<"sat", DashD(p, dev.protocol)>> \in Seq(Protocols)
      BY <1>1, <1>2, <1>4
    <2>3. a \in Answer
      BY <1>3
    <2>4. [ans |-> a, calls |-> <<"sat">>, sat |-> TRUE, cached |-> "sat"] \in Fetched
      BY <1>4, <2>2, <2>3 DEF Fetched
    <2>5. [ans |-> a, calls |-> <<"sat", DashD(p, dev.protocol)>>, sat |-> FALSE,
           cached |-> dev.protocol] \in Fetched
      BY <1>1, <2>2, <2>3 DEF Fetched
    <2>6. f \in Fetched
      BY <2>1, <2>4, <2>5
    <2>7. f.ans = a
      BY <2>1
    <2>8. QED
      BY <2>6, <2>7
  <1>6. CASE f \in PlainFetch(p, proto)
    <2>1. PICK a \in Answers(p) :
            \/ f = [ans |-> a, calls |-> <<DashD(p, proto)>>, sat |-> FALSE, cached |-> proto]
            \/ f = [ans |-> a, calls |-> <<DashD(p, proto), "sat">>, sat |-> ~IsOverride(p),
                    cached |-> "sat"]
            \/ f = [ans |-> a, calls |-> <<DashD(p, proto), "sat">>, sat |-> FALSE,
                    cached |-> proto]
      BY <1>6 DEF PlainFetch
    <2>2. /\ <<DashD(p, proto)>> \in Seq(Protocols)
          /\ <<DashD(p, proto), "sat">> \in Seq(Protocols)
      BY <1>1, <1>2, <1>4
    <2>3. IsOverride(p) \in BOOLEAN
      BY DEF IsOverride
    <2>4. a \in Answer
      BY <1>3
    <2>5. [ans |-> a, calls |-> <<DashD(p, proto)>>, sat |-> FALSE, cached |-> proto] \in Fetched
      BY <1>1, <2>2, <2>4 DEF Fetched
    <2>6. [ans |-> a, calls |-> <<DashD(p, proto), "sat">>, sat |-> ~IsOverride(p),
           cached |-> "sat"] \in Fetched
      BY <1>4, <2>2, <2>3, <2>4, FetchedRecord
    <2>7. [ans |-> a, calls |-> <<DashD(p, proto), "sat">>, sat |-> FALSE,
           cached |-> proto] \in Fetched
      BY <1>1, <2>2, <2>4 DEF Fetched
    <2>8. f \in Fetched
      BY <2>1, <2>5, <2>6, <2>7
    <2>9. f.ans = a
      BY <2>1
    <2>10. QED
      BY <2>8, <2>9
  <1>7. QED
    BY <1>5, <1>6 DEF Fetches

LEMMA RememberType ==
  ASSUME NEW m \in DevstatMem, m.strikes < MaxStrikes, NEW s
  PROVE  Remember(m, s) \in DevstatMem
  <1>1. MaxStrikes \in Nat
    BY ConfigAssumption
  <1>2. [m EXCEPT !.absent = TRUE] \in DevstatMem
    BY DEF DevstatMem
  <1>3. \A n \in 0..MaxStrikes : [m EXCEPT !.strikes = n] \in DevstatMem
    BY DEF DevstatMem
  <1>4. m.strikes + 1 \in 0..MaxStrikes
    BY <1>1 DEF DevstatMem
  <1>5. QED
    BY <1>1, <1>2, <1>3, <1>4 DEF Remember

LEMMA DevstatType ==
  ASSUME NEW m \in DevstatMem, NEW d \in DevstatReads(m)
  PROVE  d.status \in DevstatStatuses /\ d.mem \in DevstatMem /\ d.asks \in BOOLEAN
  <1>1. m.absent \in BOOLEAN /\ m.strikes \in 0..MaxStrikes /\ MaxStrikes \in Nat
    BY ConfigAssumption DEF DevstatMem
  <1>2. CASE \E s \in Skipped(m) : d = [status |-> s, mem |-> m, asks |-> FALSE]
    BY <1>2 DEF Skipped, DevstatStatuses
  <1>3. CASE \E s \in DevstatResults :
               m.strikes < MaxStrikes /\ d = [status |-> s, mem |-> Remember(m, s), asks |-> TRUE]
    <2>1. PICK s \in DevstatResults :
             m.strikes < MaxStrikes /\ d = [status |-> s, mem |-> Remember(m, s), asks |-> TRUE]
      BY <1>3
    <2>2. Remember(m, s) \in DevstatMem
      BY <2>1, RememberType
    <2>3. QED
      BY <2>1, <2>2 DEF DevstatResults, DevstatStatuses
  <1>4. QED
    BY <1>2, <1>3 DEF DevstatReads

LEMMA SlugType ==
  ASSUME NEW p \in Paths, NEW s \in SerialOrNone
  PROVE  SlugOf(p, s) \in Ids
  BY SlugAssumption DEF SlugOf, SerialOrNone

LEMMA DeviceListType ==
  ASSUME NEW found, DOMAIN found \subseteq Paths,
         \A p \in DOMAIN found : found[p] \in ScanProtocols,
         NEW t \in DeviceLists(found)
  PROVE  t \in Seq(Device) /\ \A m, n \in DOMAIN t : t[m].name = t[n].name => m = n
  <1> DEFINE listed == {[name |-> p, protocol |-> found[p]] : p \in DOMAIN found \ Excluded}
             added == {i \in DOMAIN DeviceOverrides :
                         DeviceOverrides[i].name \notin DOMAIN found \cup Excluded}
             all == listed \cup {DeviceOverrides[i] : i \in added}
  <1>1. all \subseteq Device
    <2>1. listed \subseteq Device
      BY DEF Device, Protocols
    <2>2. \A i \in DOMAIN DeviceOverrides : DeviceOverrides[i] \in Device
      BY OverrideElements DEF Device, Override
    <2>3. QED
      BY <2>1, <2>2
  <1>2. t \in UNION {[1..n -> all] : n \in 0..Cardinality(Paths)}
    BY DEF DeviceLists
  <1>3. PICK n \in 0..Cardinality(Paths) : t \in [1..n -> all]
    BY <1>2
  <1>4. n \in Nat
    OBVIOUS
  <1>5. t \in [1..n -> Device]
    BY <1>1, <1>3
  <1>6. t \in Seq(Device)
    BY <1>4, <1>5
  <1>7. QED
    BY <1>6 DEF DeviceLists
-----------------------------------------------------------------------------
(* Steps that touch few variables                                          *)

LEMMA CachedAfterType ==
  ASSUME TypeOK, NEW found \in Scans
  PROVE  IsMap(CachedAfter(found), Paths, Protocols \ {"none"})
  <1>1. DOMAIN found \subseteq Paths /\ \A p \in DOMAIN found : found[p] \in ScanProtocols
    BY DEF Scans, Present
  <1>2. \A p \in Paths : IsOverride(p) => OverrideOf(p) \in Protocols \ {"none"}
    BY OverrideType
  <1>3. QED
    BY <1>1, <1>2 DEF CachedAfter, IsMap, TypeOK, Protocols

LEMMA LearnType ==
  ASSUME TypeOK, NEW p \in Paths, NEW f \in Fetched, Learn(p, f)
  PROVE  /\ IsMap(protocolCache', Paths, Protocols \ {"none"})
         /\ satLearned' \subseteq Paths
  <1>1. f.cached \in Protocols
    BY DEF Fetched
  <1>2. IsMap(protocolCache, Paths, Protocols \ {"none"}) /\ satLearned \subseteq Paths
    BY DEF TypeOK
  <1>3. satLearned' \subseteq Paths
    BY <1>2 DEF Learn
  <1>4. CASE f.cached = "none"
    BY <1>2, <1>4 DEF Learn, IsMap, Restrict
  <1>5. CASE f.cached # "none"
    BY <1>1, <1>2, <1>5, PutIsMap DEF Learn
  <1>6. QED
    BY <1>3, <1>4, <1>5

(* What ReadDevice does, taken apart once for all the invariants.          *)
LEMMA ReadDeviceFacts ==
  ASSUME TypeOK, ReadDevice
  PROVE  /\ next \in DOMAIN devices /\ devices[next] \in Device
         /\ \E f \in Fetches(devices[next]) :
              /\ f \in Fetched
              /\ f.ans \in Answers(devices[next].name)
              /\ Readable(f.ans) => f.ans.disk \in Disks
              /\ Learn(devices[next].name, f)
              /\ calls' = f.calls
              /\ answered' = IF Readable(f.ans)
                             THEN answered \cup {<<devices[next].name, f.ans.serial>>}
                             ELSE answered
              /\ \/ Readable(f.ans) /\ Accept(devices[next].name, f.ans)
                 \/ ~Readable(f.ans) /\ \E asleep \in BOOLEAN : Recover(devices[next].name, asleep)
  <1>1. next \in DOMAIN devices /\ devices[next] \in Device
    BY SeqElement DEF ReadDevice, TypeOK
  <1>2. PICK f \in Fetches(devices[next]) :
           /\ Learn(devices[next].name, f)
           /\ calls' = f.calls
           /\ answered' = IF Readable(f.ans)
                          THEN answered \cup {<<devices[next].name, f.ans.serial>>}
                          ELSE answered
           /\ IF Outcome(f.ans) = "ok" THEN Accept(devices[next].name, f.ans)
              ELSE Recover(devices[next].name, Outcome(f.ans) = "standby")
    BY DEF ReadDevice
  <1>3. f \in Fetched /\ f.ans \in Answers(devices[next].name)
    BY <1>1, FetchType
  <1>4. Readable(f.ans) => f.ans.disk \in Disks
    BY <1>1, <1>3, AnswerType DEF Device
  <1>5. Readable(f.ans) <=> Outcome(f.ans) = "ok"
    BY DEF Readable, Outcome
  <1>6. \/ Readable(f.ans) /\ Accept(devices[next].name, f.ans)
        \/ ~Readable(f.ans) /\ \E asleep \in BOOLEAN : Recover(devices[next].name, asleep)
    BY <1>2, <1>5
  <1>7. QED
    BY <1>1, <1>2, <1>3, <1>4, <1>6

(* A device that was read adds one fresh entry and its id.                 *)
LEMMA AcceptFacts ==
  ASSUME TypeOK, NEW p \in Paths, NEW a \in Answer, a.disk \in Disks, Accept(p, a)
  PROVE  LET id == SlugOf(p, a.serial) IN
         /\ id \in Ids
         /\ \E e \in Drive :
              /\ newDrives' = Put(newDrives, id, e)
              /\ e.path = p /\ e.serial = a.serial /\ e.updated = poll
              /\ e.readable /\ ~e.standby
         /\ order' = Append(order, id)
         /\ readNow' = readNow \cup {<<p, id>>}
         /\ smartSeen' \subseteq Ids /\ gaveSmart' \subseteq Disks
         /\ devstatMemory' \in [Keys -> DevstatMem]
         /\ asked' \in [Keys -> Seq(DevstatStatuses)]
  <1> DEFINE id == SlugOf(p, a.serial)
             k == <<p, a.serial>>
  <1>1. a.serial \in SerialOrNone
    BY DEF Answer
  <1>2. id \in Ids /\ k \in Keys
    BY <1>1, SlugType DEF Keys
  <1>3. PICK d \in DevstatReads(devstatMemory[k]) :
          /\ smartSeen' = SeenAfter(id, a)
          /\ gaveSmart' = IF a.smart THEN gaveSmart \cup {a.disk} ELSE gaveSmart
          /\ devstatMemory' = [devstatMemory EXCEPT ![k] = d.mem]
          /\ asked' = IF d.asks THEN [asked EXCEPT ![k] = Append(@, d.status)] ELSE asked
          /\ newDrives' = Put(newDrives, id,
               [path |-> p, serial |-> a.serial, disk |-> a.disk, standby |-> FALSE,
                readable |-> TRUE, lost |-> ~a.smart /\ id \in smartSeen,
                devstat |-> d.status, updated |-> poll])
          /\ order' = Append(order, id)
          /\ readNow' = readNow \cup {<<p, id>>}
    BY DEF Accept, Add
  <1>4. devstatMemory[k] \in DevstatMem
    BY <1>2 DEF TypeOK
  <1>5. d.status \in DevstatStatuses /\ d.mem \in DevstatMem
    BY <1>4, DevstatType
  <1> DEFINE lost == ~a.smart /\ id \in smartSeen
             e == [path |-> p, serial |-> a.serial, disk |-> a.disk, standby |-> FALSE,
                   readable |-> TRUE, lost |-> lost, devstat |-> d.status, updated |-> poll]
  <1>6. e \in Drive
    <2>1. lost \in BOOLEAN
      OBVIOUS
    <2>2. poll \in Nat
      BY DEF TypeOK
    <2> HIDE DEF lost
    <2>3. QED
      BY <1>1, <1>5, <2>1, <2>2 DEF Drive
  <1>7. newDrives' = Put(newDrives, id, e)
    BY <1>3
  <1>8. e.path = p /\ e.serial = a.serial /\ e.updated = poll /\ e.readable /\ ~e.standby
    OBVIOUS
  <1>9. smartSeen' \subseteq Ids /\ gaveSmart' \subseteq Disks
    BY <1>2, <1>3 DEF TypeOK, SeenAfter
  <1>10. devstatMemory' \in [Keys -> DevstatMem]
    BY <1>3, <1>5 DEF TypeOK
  <1>11. asked' \in [Keys -> Seq(DevstatStatuses)]
    <2>1. asked \in [Keys -> Seq(DevstatStatuses)]
      BY DEF TypeOK
    <2>2. Append(asked[k], d.status) \in Seq(DevstatStatuses)
      BY <1>2, <1>5, <2>1
    <2>3. QED
      BY <1>3, <2>1, <2>2
  <1> HIDE DEF e
  <1>12. QED
    BY <1>2, <1>3, <1>6, <1>7, <1>8, <1>9, <1>10, <1>11

(* A device that was not read adds the cached entry of its path, marked,   *)
(* or nothing when there is none.                                          *)
LEMMA RecoverFacts ==
  ASSUME TypeOK, NEW p \in Paths, NEW asleep \in BOOLEAN, Recover(p, asleep)
  PROVE  /\ \/ CachedIds(p) = {} /\ UNCHANGED <<newDrives, order>>
            \/ \E id \in CachedIds(p) :
                 /\ id \in DOMAIN drives /\ id \in Ids
                 /\ \E e \in Drive :
                      /\ newDrives' = Put(newDrives, id, e)
                      /\ e.path = drives[id].path /\ e.serial = drives[id].serial
                      /\ e.readable = e.standby
                 /\ order' = Append(order, id)
         /\ UNCHANGED <<memory, readNow, gaveSmart, asked>>
  <1>1. CASE CachedIds(p) = {}
    BY <1>1 DEF Recover
  <1>2. CASE CachedIds(p) # {}
    <2>1. PICK id \in CachedIds(p) :
            /\ newDrives' = Put(newDrives, id, Marked(drives[id], asleep))
            /\ order' = Append(order, id)
      BY <1>2 DEF Recover, Add
    <2>2. id \in DOMAIN drives /\ id \in Ids /\ drives[id] \in Drive
      BY DEF CachedIds, TypeOK, IsMap
    <2> DEFINE e == Marked(drives[id], asleep)
    <2>3. e \in Drive /\ e.path = drives[id].path /\ e.serial = drives[id].serial
          /\ e.readable = e.standby
      BY <2>2 DEF Drive, Marked
    <2>4. newDrives' = Put(newDrives, id, e)
      BY <2>1
    <2> HIDE DEF e
    <2>5. QED
      BY <2>1, <2>2, <2>3, <2>4 DEF Recover
  <1>3. QED
    BY <1>1, <1>2
-----------------------------------------------------------------------------
(* The type invariant                                                      *)

USE DEF cache, learned, memory, local, hist

LEMMA InitType == Init => TypeOK
  <1> SUFFICES ASSUME Init PROVE TypeOK
    OBVIOUS
  <1> USE DEF Init
  <1>1. IsMap(<< >>, Ids, Drive) /\ IsMap(<< >>, Paths, Protocols \ {"none"})
    BY DEF IsMap
  <1>2. devstatMemory \in [Keys -> DevstatMem]
    BY ConfigAssumption DEF DevstatMem
  <1>3. asked \in [Keys -> Seq(DevstatStatuses)]
    OBVIOUS
  <1>4. /\ driveOrder \in Seq(Ids) /\ order \in Seq(Ids)
        /\ devices \in Seq(Device) /\ calls \in Seq(Protocols)
    OBVIOUS
  <1>5. firstPoll \in BOOLEAN /\ isFirst \in BOOLEAN
    OBVIOUS
  <1>6. /\ satLearned \subseteq Paths /\ smartSeen \subseteq Ids /\ readNow \subseteq Paths \X Ids
        /\ readLast \subseteq Paths \X Ids /\ answered \subseteq Keys /\ gaveSmart \subseteq Disks
    OBVIOUS
  <1>7. poll \in Nat /\ published \in Nat /\ next \in Nat \ {0}
    OBVIOUS
  <1>8. IsMap(drives, Ids, Drive) /\ IsMap(newDrives, Ids, Drive)
        /\ IsMap(protocolCache, Paths, Protocols \ {"none"})
    BY <1>1
  <1>9. pc \in {"idle", "scan", "read"} /\ disk \in [Paths -> Disks \cup {NoDisk}]
    OBVIOUS
  <1> HIDE DEF Init
  <1>10. QED
    BY <1>2, <1>3, <1>4, <1>5, <1>6, <1>7, <1>8, <1>9 DEF TypeOK

LEMMA ReadDeviceType == TypeOK /\ ReadDevice => TypeOK'
  <1> SUFFICES ASSUME TypeOK, ReadDevice PROVE TypeOK'
    OBVIOUS
  <1> DEFINE p == devices[next].name
  <1>1. PICK f \in Fetches(devices[next]) :
              /\ f \in Fetched
              /\ f.ans \in Answers(p)
              /\ Readable(f.ans) => f.ans.disk \in Disks
              /\ Learn(p, f)
              /\ calls' = f.calls
              /\ answered' = IF Readable(f.ans)
                             THEN answered \cup {<<p, f.ans.serial>>} ELSE answered
              /\ \/ Readable(f.ans) /\ Accept(p, f.ans)
                 \/ ~Readable(f.ans) /\ \E asleep \in BOOLEAN : Recover(p, asleep)
    BY ReadDeviceFacts
  <1>2. p \in Paths
    BY ReadDeviceFacts DEF Device
  <1>3. f.ans \in Answer /\ f.calls \in Seq(Protocols)
    BY <1>1 DEF Fetched
  <1>4. IsMap(protocolCache, Paths, Protocols \ {"none"})' /\ (satLearned \subseteq Paths)'
    BY <1>1, <1>2, LearnType
  <1>5. answered' \subseteq Keys /\ calls' \in Seq(Protocols)
    BY <1>1, <1>2, <1>3 DEF TypeOK, Keys, Answer
  <1> DEFINE PollTypes ==
               /\ IsMap(newDrives', Ids, Drive) /\ order' \in Seq(Ids)
               /\ readNow' \subseteq Paths \X Ids
               /\ smartSeen' \subseteq Ids /\ gaveSmart' \subseteq Disks
               /\ devstatMemory' \in [Keys -> DevstatMem]
               /\ asked' \in [Keys -> Seq(DevstatStatuses)]
  <1>6. IsMap(newDrives, Ids, Drive)
    BY DEF TypeOK
  <1>7. PollTypes
    <2>1. CASE Readable(f.ans) /\ Accept(p, f.ans)
      <3> DEFINE id == SlugOf(p, f.ans.serial)
      <3>1. /\ id \in Ids
            /\ \E e \in Drive : newDrives' = Put(newDrives, id, e)
            /\ order' = Append(order, id)
            /\ readNow' = readNow \cup {<<p, id>>}
            /\ smartSeen' \subseteq Ids /\ gaveSmart' \subseteq Disks
            /\ devstatMemory' \in [Keys -> DevstatMem]
            /\ asked' \in [Keys -> Seq(DevstatStatuses)]
        BY <1>1, <1>2, <1>3, <2>1, AcceptFacts
      <3> HIDE DEF id
      <3>2. IsMap(newDrives', Ids, Drive)
        <4>1. PICK e \in Drive : newDrives' = Put(newDrives, id, e)
          BY <3>1
        <4>2. IsMap(Put(newDrives, id, e), Ids, Drive)
          BY <1>6, <3>1, PutIsMap
        <4>3. QED
          BY <4>1, <4>2
      <3>3. order' \in Seq(Ids) /\ readNow' \subseteq Paths \X Ids
        BY <1>2, <3>1 DEF TypeOK
      <3>4. QED
        BY <3>1, <3>2, <3>3
    <2>2. ASSUME NEW asleep \in BOOLEAN, Recover(p, asleep) PROVE PollTypes
      <3>1. UNCHANGED <<memory, readNow, gaveSmart, asked>>
        BY <1>2, <2>2, RecoverFacts
      <3>2. \/ UNCHANGED <<newDrives, order>>
            \/ \E id \in Ids, e \in Drive :
                 newDrives' = Put(newDrives, id, e) /\ order' = Append(order, id)
        BY <1>2, <2>2, RecoverFacts
      <3>3. order \in Seq(Ids)
        BY DEF TypeOK
      <3>4. ASSUME NEW id \in Ids, NEW e \in Drive,
                   newDrives' = Put(newDrives, id, e), order' = Append(order, id)
            PROVE  IsMap(newDrives', Ids, Drive) /\ order' \in Seq(Ids)
        <4>1. IsMap(Put(newDrives, id, e), Ids, Drive)
          BY <1>6, PutIsMap
        <4>2. QED
          BY <3>3, <3>4, <4>1
      <3>5. IsMap(newDrives', Ids, Drive) /\ order' \in Seq(Ids)
        BY <1>6, <3>2, <3>3, <3>4
      <3>6. QED
        BY <3>1, <3>5 DEF TypeOK
    <2>3. QED
      BY <1>1, <2>1, <2>2
  <1> HIDE DEF PollTypes
  <1>8. next' \in Nat \ {0}
    BY DEF ReadDevice, TypeOK
  <1>9. QED
    BY <1>4, <1>5, <1>7, <1>8 DEF ReadDevice, TypeOK, PollTypes

LEMMA TypeStep == TypeOK /\ [Next]_vars => TypeOK'
  <1> SUFFICES ASSUME TypeOK, [Next]_vars PROVE TypeOK'
    OBVIOUS
  <1>1. CASE StartPoll
    <2>1. firstPoll \in BOOLEAN /\ poll \in Nat
      BY DEF TypeOK
    <2>2. isFirst' = firstPoll /\ firstPoll' = FALSE /\ poll' = poll + 1
      BY <1>1 DEF StartPoll
    <2>3. isFirst' \in BOOLEAN /\ firstPoll' \in BOOLEAN
      BY <2>1, <2>2
    <2>4. poll' \in Nat
      BY <2>1, <2>2
    <2>5. QED
      BY <1>1, <2>3, <2>4 DEF StartPoll, TypeOK
  <1>2. CASE ScanFails
    BY <1>2 DEF ScanFails, TypeOK
  <1>3. CASE ScanOK
    <2>1. PICK found \in Scans :
            protocolCache' = CachedAfter(found) /\ devices' \in DeviceLists(found)
      BY <1>3 DEF ScanOK
    <2>2. DOMAIN found \subseteq Paths /\ \A p \in DOMAIN found : found[p] \in ScanProtocols
      BY DEF Scans, Present
    <2>3. IsMap(protocolCache', Paths, Protocols \ {"none"}) /\ devices' \in Seq(Device)
      BY <2>1, <2>2, CachedAfterType, DeviceListType
    <2>4. IsMap(<< >>, Ids, Drive)
      BY DEF IsMap
    <2>5. QED
      BY <1>3, <2>3, <2>4 DEF ScanOK, TypeOK
  <1>4. CASE ReadDevice
    BY <1>4, ReadDeviceType
  <1>5. CASE Publish
    BY <1>5 DEF Publish, TypeOK
  <1>6. ASSUME NEW d \in Disks, NEW p \in Paths, Attach(d, p) PROVE TypeOK'
    BY <1>6 DEF Attach, TypeOK
  <1>7. ASSUME NEW p \in Paths, Detach(p) PROVE TypeOK'
    BY <1>7 DEF Detach, TypeOK
  <1>8. CASE UNCHANGED vars
    BY <1>8 DEF vars, TypeOK
  <1>9. QED
    BY <1>1, <1>2, <1>3, <1>4, <1>5, <1>6, <1>7, <1>8 DEF Next

(* Every variable keeps its type, for every host and configuration.        *)
THEOREM TypeCorrect == Spec => []TypeOK
  BY InitType, TypeStep, PTL DEF Spec

-----------------------------------------------------------------------------
(* What is published                                                       *)

(* The parts of the inductive invariant: f is a list of drives, s its      *)
(* order and n the poll that reads it.                                     *)
Ordered(f, s) == Range(s) = DOMAIN f
Fresh(f, n)   == \A id \in DOMAIN f : f[id].readable /\ ~f[id].standby => f[id].updated = n
Answered(f)   == \A id \in DOMAIN f : <<f[id].path, f[id].serial>> \in answered

Building  == pc = "read" => Ordered(newDrives, order) /\ Fresh(newDrives, poll)
                            /\ Answered(newDrives)
Published == OrderListsDrives /\ StaleIsMarked /\ NeverFabricated
IInv      == TypeOK /\ Building /\ Published

LEMMA PutValue ==
  ASSUME NEW f, NEW k, NEW v, NEW x \in DOMAIN Put(f, k, v)
  PROVE  /\ x = k => Put(f, k, v)[x] = v
         /\ x # k => x \in DOMAIN f /\ Put(f, k, v)[x] = f[x]
  BY DEF Put

LEMMA PutDomain ==
  ASSUME NEW f, NEW k, NEW v
  PROVE  DOMAIN Put(f, k, v) = DOMAIN f \cup {k}
  BY DEF Put

(* One more entry in the list under construction: e is fresh or marked,    *)
(* and its identity was answered.                                          *)
LEMMA BuildingStep ==
  ASSUME TypeOK, Building, pc = "read", pc' = "read", poll' = poll,
         NEW id \in Ids, NEW e,
         newDrives' = Put(newDrives, id, e), order' = Append(order, id),
         e.readable /\ ~e.standby => e.updated = poll,
         <<e.path, e.serial>> \in answered', answered \subseteq answered'
  PROVE  Building'
  <1>1. order \in Seq(Ids) /\ Ordered(newDrives, order)
    BY DEF TypeOK, Building
  <1>2. Range(Append(order, id)) = Range(order) \cup {id}
    BY <1>1, RangeAppend
  <1>3. Ordered(newDrives', order')
    <2>1. Range(order) = DOMAIN newDrives
      BY <1>1 DEF Ordered
    <2>2. Range(order') = DOMAIN newDrives \cup {id}
      BY <1>2, <2>1
    <2>3. DOMAIN newDrives' = DOMAIN newDrives \cup {id}
      BY PutDomain
    <2>4. QED
      BY <2>2, <2>3 DEF Ordered
  <1>4. Fresh(newDrives', poll)
    <2> SUFFICES ASSUME NEW x \in DOMAIN newDrives',
                        newDrives'[x].readable, ~newDrives'[x].standby
                 PROVE  newDrives'[x].updated = poll
      BY DEF Fresh
    <2>1. CASE x = id
      BY <2>1, PutValue
    <2>2. CASE x # id
      BY <2>2, PutValue DEF Building, Fresh
    <2>3. QED
      BY <2>1, <2>2
  <1>5. \A x \in DOMAIN newDrives' : <<newDrives'[x].path, newDrives'[x].serial>> \in answered'
    <2> TAKE x \in DOMAIN newDrives'
    <2>1. CASE x = id
      BY <2>1, PutValue
    <2>2. CASE x # id
      BY <2>2, PutValue DEF Building, Answered
    <2>3. QED
      BY <2>1, <2>2
  <1>6. QED
    BY <1>3, <1>4, <1>5 DEF Building, Ordered, Fresh, Answered

LEMMA ReadDeviceBuilds == IInv /\ ReadDevice => Building'
  <1> SUFFICES ASSUME IInv, ReadDevice PROVE Building'
    OBVIOUS
  <1> USE DEF IInv
  <1> DEFINE p == devices[next].name
  <1>1. PICK f \in Fetches(devices[next]) :
              /\ f \in Fetched
              /\ Readable(f.ans) => f.ans.disk \in Disks
              /\ answered' = IF Readable(f.ans)
                             THEN answered \cup {<<p, f.ans.serial>>} ELSE answered
              /\ \/ Readable(f.ans) /\ Accept(p, f.ans)
                 \/ ~Readable(f.ans) /\ \E asleep \in BOOLEAN : Recover(p, asleep)
    BY ReadDeviceFacts
  <1>2. p \in Paths
    BY ReadDeviceFacts DEF Device
  <1>3. f.ans \in Answer
    BY <1>1 DEF Fetched
  <1>4. pc = "read" /\ pc' = "read" /\ poll' = poll
    BY DEF ReadDevice
  <1>5. answered \subseteq answered'
    BY <1>1
  <1>6. CASE Readable(f.ans) /\ Accept(p, f.ans)
    <2> DEFINE id == SlugOf(p, f.ans.serial)
    <2>1. id \in Ids /\ order' = Append(order, id)
      BY <1>1, <1>2, <1>3, <1>6, AcceptFacts
    <2>2. PICK e \in Drive :
            /\ newDrives' = Put(newDrives, id, e)
            /\ e.path = p /\ e.serial = f.ans.serial /\ e.updated = poll
      BY <1>1, <1>2, <1>3, <1>6, AcceptFacts
    <2> HIDE DEF id
    <2>3. <<e.path, e.serial>> \in answered'
      BY <1>1, <1>6, <2>2
    <2>4. QED
      BY <1>4, <1>5, <2>1, <2>2, <2>3, BuildingStep
  <1>7. ASSUME NEW asleep \in BOOLEAN, Recover(p, asleep) PROVE Building'
    <2>1. CASE UNCHANGED <<newDrives, order>>
      BY <1>4, <1>5, <2>1 DEF Building, Ordered, Fresh, Answered
    <2>2. CASE \E id \in CachedIds(p) :
                 /\ id \in DOMAIN drives /\ id \in Ids
                 /\ \E e \in Drive :
                      /\ newDrives' = Put(newDrives, id, e)
                      /\ e.path = drives[id].path /\ e.serial = drives[id].serial
                      /\ e.readable = e.standby
                 /\ order' = Append(order, id)
      <3>1. PICK id \in CachedIds(p), e \in Drive :
              /\ id \in DOMAIN drives /\ id \in Ids
              /\ newDrives' = Put(newDrives, id, e)
              /\ e.path = drives[id].path /\ e.serial = drives[id].serial
              /\ e.readable = e.standby
              /\ order' = Append(order, id)
        BY <2>2
      <3>2. <<e.path, e.serial>> \in answered'
        BY <1>5, <3>1 DEF Published, NeverFabricated
      <3>3. e.readable /\ ~e.standby => e.updated = poll
        BY <3>1
      <3>4. QED
        BY <1>4, <1>5, <3>1, <3>2, <3>3, BuildingStep
    <2>3. QED
      BY <1>2, <1>7, <2>1, <2>2, RecoverFacts
  <1>8. QED
    BY <1>1, <1>6, <1>7

LEMMA InitIInv == Init => IInv
  <1> SUFFICES ASSUME Init PROVE IInv
    OBVIOUS
  <1>1. TypeOK
    BY InitType
  <1>2. drives = << >> /\ driveOrder = << >> /\ pc = "idle"
    BY DEF Init
  <1>3. QED
    BY <1>1, <1>2 DEF IInv, Building, Published, OrderListsDrives, StaleIsMarked,
       NeverFabricated, Range

LEMMA IInvStep == IInv /\ [Next]_vars => IInv'
  <1> SUFFICES ASSUME IInv, [Next]_vars PROVE IInv'
    OBVIOUS
  <1> USE DEF IInv
  <1>1. TypeOK'
    BY TypeStep
  <1> DEFINE Lists == Building' /\ Published'
  <1> USE DEF Building, Ordered, Fresh, Answered, Published, OrderListsDrives,
              StaleIsMarked, NeverFabricated
  <1>2. ASSUME StartPoll PROVE Lists
    BY <1>2 DEF StartPoll
  <1>3. ASSUME ScanFails PROVE Lists
    BY <1>3 DEF ScanFails
  <1>4. ASSUME ScanOK PROVE Lists
    <2>1. Range(<< >>) = DOMAIN << >>
      BY DEF Range
    <2>2. QED
      BY <1>4, <2>1 DEF ScanOK
  <1>5. ASSUME ReadDevice PROVE Lists
    <2>1. Building'
      BY <1>5, ReadDeviceBuilds
    <2>2. answered \subseteq answered'
      BY <1>5, ReadDeviceFacts
    <2>3. Published'
      BY <1>5, <2>2 DEF ReadDevice
    <2>4. QED
      BY <2>1, <2>3
  <1>6. ASSUME Publish PROVE Lists
    BY <1>6 DEF Publish
  <1>7. ASSUME NEW d \in Disks, NEW p \in Paths, Attach(d, p) PROVE Lists
    BY <1>7 DEF Attach
  <1>8. ASSUME NEW p \in Paths, Detach(p) PROVE Lists
    BY <1>8 DEF Detach
  <1>9. ASSUME UNCHANGED vars PROVE Lists
    BY <1>9 DEF vars
  <1>10. Lists
    BY <1>2, <1>3, <1>4, <1>5, <1>6, <1>7, <1>8, <1>9 DEF Next
  <1>11. QED
    BY <1>1, <1>10

LEMMA SpecIInv == Spec => []IInv
  BY InitIInv, IInvStep, PTL DEF Spec

(* Every id the handlers read from driveOrder is in drives, and every      *)
(* drive is in driveOrder, whatever sleeps, fails or moves.                *)
THEOREM OrderAgrees == Spec => []OrderListsDrives
  BY SpecIInv, PTL DEF IInv, Published

(* Old data is never served as a fresh reading.                            *)
THEOREM StaleDataMarked == Spec => []StaleIsMarked
  BY SpecIInv, PTL DEF IInv, Published

(* No identity is served that smartctl never gave for that path.           *)
THEOREM NothingFabricated == Spec => []NeverFabricated
  BY SpecIInv, PTL DEF IInv, Published

-----------------------------------------------------------------------------
(* One drive per path, and no scanned drive lost                           *)

(* makeDriveSlug gives different ids to different serials and paths.       *)
SlugKeepsApart ==
  /\ Serials \cap Paths = {}
  /\ \A x, y \in Serials \cup Paths : Slug[x] = Slug[y] => x = y

Slugged(f) == \A id \in DOMAIN f : id = SlugOf(f[id].path, f[id].serial)
OnePath(f) == \A i, j \in DOMAIN f : f[i].path = f[j].path => i = j
Done(m)    == m \in DOMAIN devices /\ m < next

(* The poll so far has an entry per path at most, only for the devices it  *)
(* has been through, and has dropped no drive of theirs.                   *)
ReadSoFar ==
  pc = "read" =>
    /\ \A m, n \in DOMAIN devices : devices[m].name = devices[n].name => m = n
    /\ Slugged(newDrives) /\ OnePath(newDrives)
    /\ \A id \in DOMAIN newDrives : \E m \in Nat : Done(m) /\ newDrives[id].path = devices[m].name
    /\ \A m \in Nat : Done(m) =>
         \A id \in DOMAIN drives : drives[id].path = devices[m].name =>
           id \in DOMAIN newDrives \/ \E j \in Ids : <<devices[m].name, j>> \in readNow

PathInv == TypeOK /\ Slugged(drives) /\ OneDrivePerPath /\ ReadSoFar

(* Recovery finds an entry of that very path, and finds it if there is one.*)
LEMMA CachedIdsPath ==
  ASSUME SlugKeepsApart, TypeOK, Slugged(drives), NEW p \in Paths
  PROVE  /\ \A id \in CachedIds(p) : id \in DOMAIN drives /\ drives[id].path = p
         /\ \A id \in DOMAIN drives : drives[id].path = p => CachedIds(p) # {}
  <1>1. CASE Slug[p] \in DOMAIN drives
    <2>1. drives[Slug[p]] \in Drive
      BY <1>1 DEF TypeOK, IsMap
    <2>2. drives[Slug[p]].path \in Paths /\ drives[Slug[p]].serial \in Serials \cup {NoSerial}
      BY <2>1 DEF Drive, SerialOrNone
    <2>3. Slug[p] = SlugOf(drives[Slug[p]].path, drives[Slug[p]].serial)
      BY <1>1 DEF Slugged
    <2>4. drives[Slug[p]].path = p
      BY <2>2, <2>3 DEF SlugOf, SlugKeepsApart
    <2>5. CachedIds(p) = {Slug[p]}
      BY <1>1 DEF CachedIds
    <2>6. QED
      BY <1>1, <2>4, <2>5
  <1>2. CASE Slug[p] \notin DOMAIN drives
    BY <1>2 DEF CachedIds
  <1>3. QED
    BY <1>1, <1>2

(* One more entry, for the device being read.                              *)
LEMMA OnePathStep ==
  ASSUME TypeOK, ReadSoFar, pc = "read", next \in DOMAIN devices,
         NEW id \in Ids, NEW e, e.path = devices[next].name, id = SlugOf(e.path, e.serial),
         newDrives' = Put(newDrives, id, e), UNCHANGED devices, next' = next + 1
  PROVE  /\ Slugged(newDrives') /\ OnePath(newDrives')
         /\ \A x \in DOMAIN newDrives' :
              \E m \in Nat : Done(m)' /\ newDrives'[x].path = devices[m].name
  <1>1. next \in Nat
    BY DEF TypeOK
  <1>2. \A m \in Nat : Done(m)' <=> Done(m) \/ m = next
    <2> TAKE m \in Nat
    <2>1. m < next + 1 <=> m < next \/ m = next
      BY <1>1
    <2>2. QED
      BY <2>1 DEF Done
  <1>3. ASSUME NEW x \in DOMAIN newDrives', x # id
        PROVE  /\ x \in DOMAIN newDrives /\ newDrives'[x] = newDrives[x]
               /\ \E m \in Nat : Done(m) /\ newDrives[x].path = devices[m].name
               /\ newDrives[x].path # devices[next].name
    <2>1. x \in DOMAIN newDrives /\ newDrives'[x] = newDrives[x]
      BY <1>3, PutValue
    <2>2. PICK m \in Nat : Done(m) /\ newDrives[x].path = devices[m].name
      BY <2>1 DEF ReadSoFar
    <2>3. m # next
      BY <1>1, <2>2 DEF Done
    <2>4. devices[m].name # devices[next].name
      BY <2>2, <2>3 DEF ReadSoFar, Done
    <2>5. QED
      BY <2>1, <2>2, <2>4
  <1>4. id \in DOMAIN newDrives' => newDrives'[id] = e
    BY PutValue
  <1>5. Slugged(newDrives')
    <2> SUFFICES ASSUME NEW x \in DOMAIN newDrives'
                 PROVE  x = SlugOf(newDrives'[x].path, newDrives'[x].serial)
      BY DEF Slugged
    <2>1. CASE x = id
      BY <1>4, <2>1
    <2>2. CASE x # id
      BY <1>3, <2>2 DEF ReadSoFar, Slugged
    <2>3. QED
      BY <2>1, <2>2
  <1>6. OnePath(newDrives')
    <2> SUFFICES ASSUME NEW x \in DOMAIN newDrives', NEW y \in DOMAIN newDrives',
                        newDrives'[x].path = newDrives'[y].path
                 PROVE  x = y
      BY DEF OnePath
    <2>1. CASE x # id /\ y # id
      BY <1>3, <2>1 DEF ReadSoFar, OnePath
    <2>2. CASE x = id /\ y # id
      BY <1>3, <1>4, <2>2
    <2>3. CASE x # id /\ y = id
      BY <1>3, <1>4, <2>3
    <2>4. QED
      BY <2>1, <2>2, <2>3
  <1>7. \A x \in DOMAIN newDrives' :
           \E m \in Nat : Done(m)' /\ newDrives'[x].path = devices[m].name
    <2> TAKE x \in DOMAIN newDrives'
    <2>1. CASE x = id
      BY <1>1, <1>2, <1>4, <2>1
    <2>2. CASE x # id
      BY <1>2, <1>3, <2>2
    <2>3. QED
      BY <2>1, <2>2
  <1>8. QED
    BY <1>5, <1>6, <1>7

LEMMA ReadDevicePaths ==
  ASSUME SlugKeepsApart, PathInv, ReadDevice
  PROVE  ReadSoFar'
  <1> USE DEF PathInv
  <1> DEFINE p == devices[next].name
  <1>1. PICK f \in Fetches(devices[next]) :
              /\ f \in Fetched
              /\ Readable(f.ans) => f.ans.disk \in Disks
              /\ \/ Readable(f.ans) /\ Accept(p, f.ans)
                 \/ ~Readable(f.ans) /\ \E asleep \in BOOLEAN : Recover(p, asleep)
    BY ReadDeviceFacts
  <1>2. p \in Paths /\ next \in DOMAIN devices
    BY ReadDeviceFacts DEF Device
  <1>3. f.ans \in Answer
    BY <1>1 DEF Fetched
  <1>4. /\ pc = "read" /\ pc' = "read" /\ next \in Nat /\ next' = next + 1
        /\ UNCHANGED <<devices, drives>>
    BY DEF ReadDevice, TypeOK
  <1>5. \A m \in Nat : Done(m)' <=> Done(m) \/ m = next
    <2> TAKE m \in Nat
    <2>1. m < next + 1 <=> m < next \/ m = next
      BY <1>4
    <2>2. QED
      BY <1>2, <1>4, <2>1 DEF Done
  <1> DEFINE Kept(m) ==
               \A id \in DOMAIN drives : drives[id].path = devices[m].name =>
                 id \in DOMAIN newDrives' \/ \E j \in Ids : <<devices[m].name, j>> \in readNow'
             OnePaths ==
               /\ Slugged(newDrives') /\ OnePath(newDrives')
               /\ \A x \in DOMAIN newDrives' :
                    \E m \in Nat : Done(m)' /\ newDrives'[x].path = devices[m].name
  <1>6. ASSUME DOMAIN newDrives \subseteq DOMAIN newDrives', readNow \subseteq readNow'
        PROVE  \A m \in Nat : Done(m) => Kept(m)
    BY <1>4, <1>6 DEF ReadSoFar
  <1>7. OnePaths /\ Kept(next)
        /\ DOMAIN newDrives \subseteq DOMAIN newDrives' /\ readNow \subseteq readNow'
    <2>1. CASE Readable(f.ans) /\ Accept(p, f.ans)
      <3> DEFINE id == SlugOf(p, f.ans.serial)
      <3>1. id \in Ids /\ readNow' = readNow \cup {<<p, id>>}
        BY <1>1, <1>2, <1>3, <2>1, AcceptFacts
      <3>2. PICK e \in Drive :
              newDrives' = Put(newDrives, id, e) /\ e.path = p /\ e.serial = f.ans.serial
        BY <1>1, <1>2, <1>3, <2>1, AcceptFacts
      <3>3. id = SlugOf(e.path, e.serial)
        BY <3>2
      <3> HIDE DEF id
      <3>4. OnePaths
        BY <1>2, <1>4, <3>1, <3>2, <3>3, OnePathStep
      <3>5. DOMAIN newDrives' = DOMAIN newDrives \cup {id}
        BY <3>2, PutDomain
      <3>6. Kept(next)
        BY <3>1
      <3>7. QED
        BY <3>1, <3>4, <3>5, <3>6
    <2>2. ASSUME NEW asleep \in BOOLEAN, Recover(p, asleep)
          PROVE  OnePaths /\ Kept(next)
                 /\ DOMAIN newDrives \subseteq DOMAIN newDrives' /\ readNow \subseteq readNow'
      <3>1. readNow' = readNow
        BY <1>2, <2>2, RecoverFacts
      <3>2. CASE CachedIds(p) = {} /\ UNCHANGED <<newDrives, order>>
        <4>1. \A id \in DOMAIN drives : drives[id].path # p
          BY <1>2, <3>2, CachedIdsPath
        <4>2. OnePaths
          BY <1>4, <1>5, <3>2 DEF ReadSoFar
        <4>3. QED
          BY <3>1, <3>2, <4>1, <4>2
      <3>3. CASE \E id \in CachedIds(p) :
                   /\ id \in DOMAIN drives /\ id \in Ids
                   /\ \E e \in Drive :
                        /\ newDrives' = Put(newDrives, id, e)
                        /\ e.path = drives[id].path /\ e.serial = drives[id].serial
                        /\ e.readable = e.standby
                   /\ order' = Append(order, id)
        <4>1. PICK id \in CachedIds(p), e \in Drive :
                /\ id \in DOMAIN drives /\ id \in Ids
                /\ newDrives' = Put(newDrives, id, e)
                /\ e.path = drives[id].path /\ e.serial = drives[id].serial
          BY <3>3
        <4>2. drives[id].path = p
          BY <1>2, <4>1, CachedIdsPath
        <4>3. id = SlugOf(e.path, e.serial) /\ e.path = p
          BY <4>1, <4>2 DEF Slugged
        <4>4. OnePaths
          BY <1>2, <1>4, <4>1, <4>3, OnePathStep
        <4>5. DOMAIN newDrives' = DOMAIN newDrives \cup {id}
          BY <4>1, PutDomain
        <4>6. Kept(next)
          BY <4>1, <4>2, <4>5 DEF OneDrivePerPath
        <4>7. QED
          BY <3>1, <4>4, <4>5, <4>6
      <3>4. QED
        BY <1>2, <2>2, <3>2, <3>3, RecoverFacts
    <2>3. QED
      BY <1>1, <2>1, <2>2
  <1>8. \A m \in Nat : Done(m)' => Kept(m)
    BY <1>5, <1>6, <1>7
  <1>9. QED
    BY <1>4, <1>7, <1>8 DEF ReadSoFar

LEMMA PathInvStep ==
  ASSUME SlugKeepsApart, PathInv, [Next]_vars
  PROVE  PathInv'
  <1> USE DEF PathInv
  <1>1. TypeOK'
    BY TypeStep
  <1> DEFINE Paths1 == Slugged(drives)' /\ OneDrivePerPath' /\ ReadSoFar'
  <1> USE DEF Slugged, OnePath, OneDrivePerPath
  <1>2. ASSUME StartPoll PROVE Paths1
    BY <1>2 DEF StartPoll, ReadSoFar
  <1>3. ASSUME ScanFails PROVE Paths1
    BY <1>3 DEF ScanFails, ReadSoFar
  <1>4. ASSUME ScanOK PROVE Paths1
    <2>1. PICK found \in Scans : devices' \in DeviceLists(found)
      BY <1>4 DEF ScanOK
    <2>2. \A m, n \in DOMAIN devices' : devices'[m].name = devices'[n].name => m = n
      BY <2>1, DeviceListType DEF Scans, Present
    <2>3. devices' \in Seq(Device)
      BY <1>1 DEF TypeOK
    <2>4. \A m \in Nat : ~Done(m)'
      BY <1>4, <2>3 DEF ScanOK, Done
    <2>5. DOMAIN newDrives' = {}
      BY <1>4 DEF ScanOK
    <2>6. QED
      BY <1>4, <2>2, <2>4, <2>5 DEF ScanOK, ReadSoFar
  <1>5. ASSUME ReadDevice PROVE Paths1
    <2>1. ReadSoFar'
      BY <1>5, ReadDevicePaths
    <2>2. QED
      BY <1>5, <2>1 DEF ReadDevice
  <1>6. ASSUME Publish PROVE Paths1
    BY <1>6 DEF Publish, ReadSoFar
  <1>7. ASSUME NEW d \in Disks, NEW p \in Paths, Attach(d, p) PROVE Paths1
    BY <1>7 DEF Attach, ReadSoFar, Done
  <1>8. ASSUME NEW p \in Paths, Detach(p) PROVE Paths1
    BY <1>8 DEF Detach, ReadSoFar, Done
  <1>9. ASSUME UNCHANGED vars PROVE Paths1
    BY <1>9 DEF vars, ReadSoFar, Done
  <1>10. Paths1
    BY <1>2, <1>3, <1>4, <1>5, <1>6, <1>7, <1>8, <1>9 DEF Next
  <1>11. QED
    BY <1>1, <1>10

LEMMA PathInvHolds == ASSUME SlugKeepsApart PROVE Spec => []PathInv
  <1>1. Init => PathInv
    <2> SUFFICES ASSUME Init PROVE PathInv
      OBVIOUS
    <2>1. TypeOK
      BY InitType
    <2>2. drives = << >> /\ pc = "idle"
      BY DEF Init
    <2>3. QED
      BY <2>1, <2>2 DEF PathInv, Slugged, OneDrivePerPath, ReadSoFar
  <1>2. PathInv /\ [Next]_vars => PathInv'
    BY PathInvStep
  <1>3. QED
    BY <1>1, <1>2, PTL DEF Spec

(* No two served drives claim one device path.                             *)
THEOREM OnePerPath == ASSUME SlugKeepsApart PROVE Spec => []OneDrivePerPath
  BY PathInvHolds, PTL DEF PathInv

(* A drive whose path was scanned stays in the list unless that path was   *)
(* read in the same poll under another identity.                           *)
THEOREM ScannedDrivesStay == ASSUME SlugKeepsApart PROVE Spec => KeepsScannedDrive
  <1> DEFINE Stays ==
        published' # published =>
          \A id \in DOMAIN drives :
            (\E i \in DOMAIN devices : devices[i].name = drives[id].path) =>
              \/ id \in DOMAIN drives'
              \/ \E j \in Ids : <<drives[id].path, j>> \in readLast'
  <1>1. ASSUME PathInv, [Next]_vars PROVE [Stays]_vars
    <2>1. CASE Publish
      <3>1. devices \in Seq(Device) /\ next \in Nat
        BY <1>1 DEF PathInv, TypeOK
      <3>2. \A i \in DOMAIN devices : i \in Nat /\ Done(i)
        BY <2>1, <3>1 DEF Publish, Done
      <3>3. pc = "read" /\ drives' = newDrives /\ readLast' = readNow
        BY <2>1 DEF Publish
      <3>4. QED
        BY <1>1, <3>2, <3>3 DEF PathInv, ReadSoFar
    <2>2. CASE ~Publish
      <3>1. published' = published
        BY <1>1, <2>2 DEF Next, StartPoll, ScanFails, ScanOK, ReadDevice, Attach, Detach, vars
      <3>2. QED
        BY <3>1
    <2>3. QED
      BY <2>1, <2>2
  <1>2. Spec => []PathInv
    BY PathInvHolds
  <1>3. QED
    BY <1>1, <1>2, PTL DEF Spec, KeepsScannedDrive

(* How far "unreadable" may be wrong.  The poll so far has read only the   *)
(* devices it has been through, and what it carried over it did not read   *)
(* at that entry's path.                                                   *)
CarriedOver(e) == ~e.readable \/ e.standby

CarriedSoFar ==
  pc = "read" =>
    /\ \A r \in readNow : \E m \in Nat : Done(m) /\ r[1] = devices[m].name
    /\ \A id \in DOMAIN newDrives :
         CarriedOver(newDrives[id]) => <<newDrives[id].path, id>> \notin readNow

UnreadAtItsPath ==
  \A id \in DOMAIN drives :
    CarriedOver(drives[id]) => <<drives[id].path, id>> \notin readLast

CarriedInv == PathInv /\ CarriedSoFar /\ UnreadAtItsPath

LEMMA ReadDeviceCarries ==
  ASSUME SlugKeepsApart, CarriedInv, ReadDevice
  PROVE  CarriedSoFar'
  <1> USE DEF CarriedInv, PathInv
  <1> DEFINE p == devices[next].name
             Told(id, e) == CarriedOver(e) => <<e.path, id>> \notin readNow'
  <1>1. PICK f \in Fetches(devices[next]) :
              /\ f \in Fetched
              /\ Readable(f.ans) => f.ans.disk \in Disks
              /\ \/ Readable(f.ans) /\ Accept(p, f.ans)
                 \/ ~Readable(f.ans) /\ \E asleep \in BOOLEAN : Recover(p, asleep)
    BY ReadDeviceFacts
  <1>2. p \in Paths /\ next \in DOMAIN devices
    BY ReadDeviceFacts DEF Device
  <1>3. /\ pc = "read" /\ next \in Nat /\ next' = next + 1
        /\ UNCHANGED <<devices, drives>>
    BY DEF ReadDevice, TypeOK
  <1>4. \A m \in Nat : Done(m) \/ m = next => Done(m)'
    <2> TAKE m \in Nat
    <2>1. m < next \/ m = next => m < next + 1
      BY <1>3
    <2>2. QED
      BY <1>2, <1>3, <2>1 DEF Done
  <1>5. ASSUME NEW j PROVE <<p, j>> \notin readNow
    <2> SUFFICES ASSUME <<p, j>> \in readNow PROVE FALSE
      OBVIOUS
    <2>1. PICK m \in Nat : Done(m) /\ p = devices[m].name
      BY <1>3 DEF CarriedSoFar
    <2>2. m = next
      BY <1>2, <1>3, <2>1 DEF ReadSoFar, Done
    <2>3. QED
      BY <1>3, <2>1, <2>2 DEF Done
  <1>6. ASSUME NEW id, NEW e, newDrives' = Put(newDrives, id, e), Told(id, e),
               readNow' = readNow \/ (readNow' = readNow \cup {<<p, id>>} /\ e.path = p)
        PROVE  CarriedSoFar'
    <2>1. ASSUME NEW r \in readNow'
          PROVE  \E m \in Nat : Done(m)' /\ r[1] = devices'[m].name
      <3>1. r \in readNow \/ r[1] = p
        BY <1>6, <2>1
      <3>2. QED
        BY <1>3, <1>4, <3>1 DEF CarriedSoFar
    <2>2. ASSUME NEW x \in DOMAIN newDrives' PROVE Told(x, newDrives'[x])
      <3>1. CASE x = id
        BY <1>6, <3>1, PutValue
      <3>2. CASE x # id
        <4>1. x \in DOMAIN newDrives /\ newDrives'[x] = newDrives[x]
          BY <1>6, <3>2, PutValue
        <4>2. CarriedOver(newDrives[x]) => <<newDrives[x].path, x>> \notin readNow
          BY <1>3, <4>1 DEF CarriedSoFar
        <4>3. <<newDrives[x].path, x>> # <<p, id>>
          BY <3>2
        <4>4. QED
          BY <1>6, <4>1, <4>2, <4>3
      <3>3. QED
        BY <3>1, <3>2
    <2>3. QED
      BY <2>1, <2>2 DEF CarriedSoFar
  <1>7. CASE Readable(f.ans) /\ Accept(p, f.ans)
    <2> DEFINE id == SlugOf(p, f.ans.serial)
    <2>1. f.ans \in Answer
      BY <1>1 DEF Fetched
    <2>2. PICK e \in Drive : /\ newDrives' = Put(newDrives, id, e)
                             /\ e.path = p /\ e.readable /\ ~e.standby
      BY <1>1, <1>2, <1>7, <2>1, AcceptFacts
    <2>3. readNow' = readNow \cup {<<p, id>>}
      BY <1>1, <1>2, <1>7, <2>1, AcceptFacts
    <2>4. Told(id, e)
      BY <2>2 DEF CarriedOver
    <2> HIDE DEF id
    <2>5. QED
      BY <1>6, <2>2, <2>3, <2>4
  <1>8. ASSUME NEW asleep \in BOOLEAN, Recover(p, asleep)
        PROVE  CarriedSoFar'
    <2>1. readNow' = readNow
      BY <1>2, <1>8, RecoverFacts
    <2>2. CASE UNCHANGED newDrives
      BY <1>3, <1>4, <2>1, <2>2 DEF CarriedSoFar
    <2>3. ASSUME NEW id \in CachedIds(p), NEW e \in Drive,
                 newDrives' = Put(newDrives, id, e), e.path = drives[id].path
          PROVE  CarriedSoFar'
      <3>1. e.path = p
        BY <1>2, <2>3, CachedIdsPath
      <3>2. Told(id, e)
        BY <1>5, <2>1, <3>1
      <3>3. QED
        BY <1>6, <2>1, <2>3, <3>2
    <2>4. QED
      BY <1>2, <1>8, <2>2, <2>3, RecoverFacts
  <1>9. QED
    BY <1>1, <1>7, <1>8

LEMMA CarriedStep ==
  ASSUME SlugKeepsApart, CarriedInv, [Next]_vars
  PROVE  CarriedInv'
  <1>1. PathInv'
    BY PathInvStep DEF CarriedInv
  <1> DEFINE Carried == CarriedSoFar' /\ UnreadAtItsPath'
  <1> USE DEF CarriedInv, UnreadAtItsPath
  <1>2. ASSUME StartPoll PROVE Carried
    BY <1>2 DEF StartPoll, CarriedSoFar
  <1>3. ASSUME ScanFails PROVE Carried
    BY <1>3 DEF ScanFails, CarriedSoFar
  <1>4. ASSUME ScanOK PROVE Carried
    BY <1>4 DEF ScanOK, CarriedSoFar
  <1>5. ASSUME ReadDevice PROVE Carried
    <2>1. CarriedSoFar'
      BY <1>5, ReadDeviceCarries
    <2>2. QED
      BY <1>5, <2>1 DEF ReadDevice
  <1>6. ASSUME Publish PROVE Carried
    BY <1>6 DEF Publish, CarriedSoFar
  <1>7. ASSUME NEW d \in Disks, NEW p \in Paths, Attach(d, p) PROVE Carried
    BY <1>7 DEF Attach, CarriedSoFar, Done
  <1>8. ASSUME NEW p \in Paths, Detach(p) PROVE Carried
    BY <1>8 DEF Detach, CarriedSoFar, Done
  <1>9. ASSUME UNCHANGED vars PROVE Carried
    BY <1>9 DEF vars, CarriedSoFar, Done
  <1>10. Carried
    BY <1>2, <1>3, <1>4, <1>5, <1>6, <1>7, <1>8, <1>9 DEF Next
  <1>11. QED
    BY <1>1, <1>10

(* What UnreadableWasNotRead misses by: a drive that is published as       *)
(* asleep or unreadable was not read under its id at the path it is listed *)
(* at (Refresh), so a poll that read it read it at another path.           *)
THEOREM UnreadableAtItsPath == ASSUME SlugKeepsApart PROVE Spec => []UnreadAtItsPath
  <1>1. Init => CarriedInv
    <2> SUFFICES ASSUME Init PROVE CarriedInv
      OBVIOUS
    <2>1. TypeOK
      BY InitType
    <2>2. drives = << >> /\ pc = "idle"
      BY DEF Init
    <2>3. QED
      BY <2>1, <2>2 DEF CarriedInv, PathInv, Slugged, OneDrivePerPath, ReadSoFar,
                        CarriedSoFar, UnreadAtItsPath
  <1>2. CarriedInv /\ [Next]_vars => CarriedInv'
    BY CarriedStep
  <1>3. CarriedInv => UnreadAtItsPath
    BY DEF CarriedInv
  <1>4. QED
    BY <1>1, <1>2, <1>3, PTL DEF Spec


-----------------------------------------------------------------------------
(* The learned protocol                                                    *)

(* Only a path without an override learns, and it learns SAT.              *)
LEMMA FetchLearns ==
  ASSUME NEW dev, NEW f \in Fetches(dev), f.sat
  PROVE  ~IsOverride(dev.name) /\ f.cached = "sat"
  <1> DEFINE p == dev.name
             proto == IF p \in DOMAIN protocolCache THEN protocolCache[p] ELSE dev.protocol
  <1>1. CASE f \in LearnedFetch(p, dev.protocol) /\ ~IsOverride(p)
    BY <1>1 DEF LearnedFetch
  <1>2. CASE f \in PlainFetch(p, proto)
    <2>1. PICK a \in Answers(p) :
            \/ f = [ans |-> a, calls |-> <<DashD(p, proto)>>, sat |-> FALSE, cached |-> proto]
            \/ f = [ans |-> a, calls |-> <<DashD(p, proto), "sat">>, sat |-> ~IsOverride(p),
                    cached |-> "sat"]
            \/ f = [ans |-> a, calls |-> <<DashD(p, proto), "sat">>, sat |-> FALSE,
                    cached |-> proto]
      BY <1>2 DEF PlainFetch
    <2>2. f = [ans |-> a, calls |-> <<DashD(p, proto), "sat">>, sat |-> ~IsOverride(p),
               cached |-> "sat"]
      BY <2>1
    <2>3. QED
      BY <2>2
  <1>3. QED
    BY <1>1, <1>2 DEF Fetches

LEMMA LearnedStep == TypeOK /\ LearnedMeansSAT /\ [Next]_vars => LearnedMeansSAT'
  <1> SUFFICES ASSUME TypeOK, LearnedMeansSAT, [Next]_vars PROVE LearnedMeansSAT'
    OBVIOUS
  <1>1. CASE ScanOK
    <2>1. PICK found \in Scans : protocolCache' = CachedAfter(found)
      BY <1>1 DEF ScanOK
    <2>2. satLearned' = satLearned
      BY <1>1 DEF ScanOK
    <2> SUFFICES ASSUME NEW p \in satLearned
                 PROVE  ~IsOverride(p) /\ p \in DOMAIN protocolCache' /\ protocolCache'[p] = "sat"
      BY <2>2 DEF LearnedMeansSAT
    <2>3. QED
      BY <2>1 DEF LearnedMeansSAT, CachedAfter
  <1>2. CASE ReadDevice
    <2> DEFINE p == devices[next].name
    <2>1. PICK f \in Fetches(devices[next]) : Learn(p, f)
      BY <1>2, ReadDeviceFacts
    <2>2. f.sat => ~IsOverride(p) /\ f.cached = "sat"
      BY <2>1, FetchLearns
    <2> SUFFICES ASSUME NEW x \in satLearned'
                 PROVE  ~IsOverride(x) /\ x \in DOMAIN protocolCache' /\ protocolCache'[x] = "sat"
      BY DEF LearnedMeansSAT
    <2>3. CASE x = p
      <3>1. f.sat
        BY <2>1, <2>3 DEF Learn
      <3>2. protocolCache' = Put(protocolCache, p, "sat")
        BY <2>1, <2>2, <3>1 DEF Learn
      <3>3. QED
        BY <2>2, <2>3, <3>1, <3>2 DEF Put
    <2>4. CASE x # p
      <3>1. x \in satLearned
        BY <2>1, <2>4 DEF Learn
      <3>2. x \in DOMAIN protocolCache /\ protocolCache[x] = "sat" /\ ~IsOverride(x)
        BY <3>1 DEF LearnedMeansSAT
      <3>3. x \in DOMAIN protocolCache' /\ protocolCache'[x] = protocolCache[x]
        BY <2>1, <2>4, <3>2 DEF Learn, Put, Restrict
      <3>4. QED
        BY <3>2, <3>3
    <2>5. QED
      BY <2>3, <2>4
  <1>3. CASE UNCHANGED learned
    BY <1>3 DEF LearnedMeansSAT
  <1>4. QED
    BY <1>1, <1>2, <1>3 DEF Next, StartPoll, ScanFails, Publish, Attach, Detach, vars

(* A learned path is read with SAT until its SAT read fails, and a path    *)
(* the user configured never learns.                                       *)
THEOREM LearnedStaysSAT == Spec => []LearnedMeansSAT
  <1>1. Init => LearnedMeansSAT
    BY DEF Init, LearnedMeansSAT
  <1>2. QED
    BY <1>1, LearnedStep, TypeCorrect, PTL DEF Spec

-----------------------------------------------------------------------------
(* How often a device is called                                            *)

(* Only an override names SAT: a scan does not.                            *)
DevicesScanned ==
  \A i \in DOMAIN devices : devices[i].protocol = "sat" => IsOverride(devices[i].name)

LEMMA ScanNamesNoSAT ==
  ASSUME NEW found, \A p \in DOMAIN found : found[p] \in ScanProtocols,
         NEW t \in DeviceLists(found), NEW i \in DOMAIN t, t[i].protocol = "sat"
  PROVE  IsOverride(t[i].name)
  <1> DEFINE listed == {[name |-> p, protocol |-> found[p]] : p \in DOMAIN found \ Excluded}
             added == {j \in DOMAIN DeviceOverrides :
                         DeviceOverrides[j].name \notin DOMAIN found \cup Excluded}
  <1>1. t[i] \in listed \cup {DeviceOverrides[j] : j \in added}
    BY DEF DeviceLists, Range
  <1>2. CASE t[i] \in listed
    BY <1>2 DEF ScanProtocols
  <1>3. CASE \E j \in added : t[i] = DeviceOverrides[j]
    BY <1>3 DEF IsOverride
  <1>4. QED
    BY <1>1, <1>2, <1>3

LEMMA FetchCalls ==
  ASSUME NEW dev, dev.protocol = "sat" => IsOverride(dev.name), NEW f \in Fetches(dev)
  PROVE  \E x, y : f.calls = <<x>> \/ (f.calls = <<x, y>> /\ ~(x = "sat" /\ y = "sat"))
  <1> DEFINE p == dev.name
             proto == IF p \in DOMAIN protocolCache THEN protocolCache[p] ELSE dev.protocol
  <1>1. CASE f \in LearnedFetch(p, dev.protocol) /\ ~IsOverride(p)
    <2>1. \/ f.calls = <<"sat">>
          \/ f.calls = <<"sat", DashD(p, dev.protocol)>>
      BY <1>1 DEF LearnedFetch
    <2>2. DashD(p, dev.protocol) # "sat"
      BY <1>1 DEF DashD
    <2>3. QED
      BY <2>1, <2>2
  <1>2. CASE f \in PlainFetch(p, proto)
    <2>1. \/ f.calls = <<DashD(p, proto)>>
          \/ f.calls = <<DashD(p, proto), "sat">> /\ proto = "scsi"
      BY <1>2 DEF PlainFetch
    <2>2. proto = "scsi" => DashD(p, proto) # "sat"
      BY DEF DashD
    <2>3. QED
      BY <2>1, <2>2
  <1>3. QED
    BY <1>1, <1>2 DEF Fetches

LEMMA FewCalls ==
  ASSUME NEW c, NEW x, NEW y, c = <<x>> \/ (c = <<x, y>> /\ ~(x = "sat" /\ y = "sat"))
  PROVE  Len(c) <= 2 /\ Cardinality({i \in DOMAIN c : c[i] = "sat"}) <= 1
  <1> DEFINE S == {i \in DOMAIN c : c[i] = "sat"}
  <1>1. Len(c) <= 2 /\ (S = {} \/ S = {1} \/ S = {2})
    <2>1. CASE c = <<x>>
      BY <2>1
    <2>2. CASE c = <<x, y>> /\ ~(x = "sat" /\ y = "sat")
      <3>1. DOMAIN c = {1, 2} /\ c[1] = x /\ c[2] = y /\ Len(c) = 2
        BY <2>2
      <3>2. QED
        BY <2>2, <3>1
    <2>3. QED
      BY <2>1, <2>2
  <1> HIDE DEF S
  <1>2. Cardinality({}) = 0 /\ Cardinality({1}) = 1 /\ Cardinality({2}) = 1
    BY FS_EmptySet, FS_Singleton
  <1>3. Cardinality(S) <= 1
    <2>1. Cardinality(S) = 0 \/ Cardinality(S) = 1
      BY <1>1, <1>2, Zenon
    <2>2. QED
      BY <2>1
  <1>4. QED
    BY <1>1, <1>3 DEF S

(* A drive that hangs costs two calls a poll at most, and one of them SAT. *)
THEOREM OneSATCallAPoll == Spec => []OneSATCall
  <1> DEFINE Inv == TypeOK /\ DevicesScanned /\ OneSATCall
  <1>1. Init => DevicesScanned /\ OneSATCall
    <2> SUFFICES ASSUME Init PROVE DevicesScanned /\ OneSATCall
      OBVIOUS
    <2>1. devices = << >> /\ calls = << >>
      BY DEF Init
    <2>2. {i \in DOMAIN calls : calls[i] = "sat"} = {}
      BY <2>1
    <2>3. QED
      BY <2>1, <2>2, FS_EmptySet DEF DevicesScanned, OneSATCall
  <1>2. Inv /\ [Next]_vars => (DevicesScanned /\ OneSATCall)'
    <2> SUFFICES ASSUME Inv, [Next]_vars PROVE (DevicesScanned /\ OneSATCall)'
      OBVIOUS
    <2>1. CASE ScanOK
      <3>1. PICK found \in Scans : devices' \in DeviceLists(found)
        BY <2>1 DEF ScanOK
      <3>2. \A p \in DOMAIN found : found[p] \in ScanProtocols
        BY DEF Scans
      <3>3. DevicesScanned'
        BY <3>1, <3>2, ScanNamesNoSAT DEF DevicesScanned
      <3>4. QED
        BY <2>1, <3>3 DEF ScanOK, OneSATCall
    <2>2. CASE ReadDevice
      <3>1. devices' = devices
        BY <2>2 DEF ReadDevice
      <3>2. PICK f \in Fetches(devices[next]) : calls' = f.calls
        BY <2>2, ReadDeviceFacts
      <3>3. devices[next].protocol = "sat" => IsOverride(devices[next].name)
        BY <2>2, ReadDeviceFacts DEF DevicesScanned
      <3>4. PICK x, y : calls' = <<x>> \/ (calls' = <<x, y>> /\ ~(x = "sat" /\ y = "sat"))
        BY <3>2, <3>3, FetchCalls
      <3>5. OneSATCall'
        BY <3>4, FewCalls DEF OneSATCall
      <3>6. QED
        BY <3>1, <3>5 DEF DevicesScanned
    <2>3. CASE UNCHANGED <<devices, calls>>
      BY <2>3 DEF DevicesScanned, OneSATCall
    <2>4. QED
      BY <2>1, <2>2, <2>3 DEF Next, StartPoll, ScanFails, Publish, Attach, Detach, vars
  <1>3. QED
    BY <1>1, <1>2, TypeCorrect, PTL DEF Spec

-----------------------------------------------------------------------------
(* Who lost SMART data                                                     *)

SerialsApart ==
  \A d, e \in Disks : SerialOf[d] = SerialOf[e] /\ SerialOf[d] # NoSerial => d = e

SeenGave ==
  \A d \in Disks :
    SerialOf[d] # NoSerial /\ Slug[SerialOf[d]] \in smartSeen => d \in gaveSmart

LostGave(f) == \A id \in DOMAIN f : f[id].lost /\ f[id].serial # NoSerial => f[id].disk \in gaveSmart

SmartInv == SeenGave /\ LostGave(drives) /\ LostGave(newDrives)

LEMMA AnswerSerial ==
  ASSUME NEW p \in Paths, NEW a \in Answers(p), Readable(a)
  PROVE  a.serial \in {SerialOf[a.disk], NoSerial}
  <1>1. a.kind # "exec" /\ a.kind # "open" /\ a.kind # "lowpower"
    BY DEF Readable
  <1>2. \A k : Silent(k, p).kind = k
    BY DEF Silent
  <1>3. \/ a \in [kind : {"clean"}, serial : {SerialOf[disk[p]]}, smart : BOOLEAN, disk : {disk[p]}]
        \/ a \in [kind : {"command"}, serial : {SerialOf[disk[p]], NoSerial}, smart : BOOLEAN,
                  disk : {disk[p]}]
    BY <1>1, <1>2 DEF Answers
  <1>4. QED
    BY <1>3

LEMMA LostStep ==
  ASSUME LostGave(newDrives), gaveSmart \subseteq gaveSmart', NEW id, NEW e,
         newDrives' = Put(newDrives, id, e),
         e.lost /\ e.serial # NoSerial => e.disk \in gaveSmart'
  PROVE  LostGave(newDrives)'
  <1> SUFFICES ASSUME NEW x \in DOMAIN newDrives', newDrives'[x].lost,
                      newDrives'[x].serial # NoSerial
               PROVE  newDrives'[x].disk \in gaveSmart'
    BY DEF LostGave
  <1>1. CASE x = id
    BY <1>1, PutValue
  <1>2. CASE x # id
    BY <1>2, PutValue DEF LostGave
  <1>3. QED
    BY <1>1, <1>2

LEMMA AcceptSmart ==
  ASSUME SlugKeepsApart, SerialsApart, TypeOK, SmartInv,
         NEW p \in Paths, NEW a \in Answers(p), a \in Answer, a.disk \in Disks, Readable(a),
         Accept(p, a)
  PROVE  gaveSmart \subseteq gaveSmart' /\ SeenGave' /\ LostGave(newDrives)'
  <1> DEFINE id == SlugOf(p, a.serial)
             e(d) == [path |-> p, serial |-> a.serial, disk |-> a.disk, standby |-> FALSE,
                      readable |-> TRUE, lost |-> ~a.smart /\ id \in smartSeen,
                      devstat |-> d.status, updated |-> poll]
  <1>1. PICK d : /\ smartSeen' = SeenAfter(id, a)
                 /\ gaveSmart' = IF a.smart THEN gaveSmart \cup {a.disk} ELSE gaveSmart
                 /\ newDrives' = Put(newDrives, id, e(d))
    BY DEF Accept, Add
  <1>2. a.serial \in {SerialOf[a.disk], NoSerial}
    BY AnswerSerial
  <1>3. \A x \in Disks : SerialOf[x] \in Serials \cup {NoSerial}
    BY SerialAssumption DEF SerialOrNone
  <1>4. ASSUME NEW x \in Disks, SerialOf[x] # NoSerial, id = Slug[SerialOf[x]]
        PROVE  x = a.disk /\ a.serial # NoSerial
    <2>1. a.serial # NoSerial
      BY <1>3, <1>4 DEF SlugOf, SlugKeepsApart
    <2>2. id = Slug[SerialOf[a.disk]] /\ a.serial = SerialOf[a.disk]
      BY <1>2, <2>1 DEF SlugOf
    <2>3. SerialOf[a.disk] = SerialOf[x]
      BY <1>3, <1>4, <2>1, <2>2 DEF SlugKeepsApart
    <2>4. QED
      BY <1>4, <2>1, <2>3 DEF SerialsApart
  <1>5. gaveSmart \subseteq gaveSmart'
    BY <1>1
  <1>6. SeenGave'
    <2> SUFFICES ASSUME NEW x \in Disks, SerialOf[x] # NoSerial, Slug[SerialOf[x]] \in smartSeen'
                 PROVE  x \in gaveSmart'
      BY DEF SeenGave
    <2>1. CASE Slug[SerialOf[x]] \in smartSeen
      BY <1>5, <2>1 DEF SmartInv, SeenGave
    <2>2. CASE Slug[SerialOf[x]] \notin smartSeen
      <3>1. a.smart /\ id = Slug[SerialOf[x]]
        BY <1>1, <2>2 DEF SeenAfter
      <3>2. QED
        BY <1>1, <1>4, <3>1
    <2>3. QED
      BY <2>1, <2>2
  <1>7. e(d).lost /\ e(d).serial # NoSerial => e(d).disk \in gaveSmart'
    <2> SUFFICES ASSUME id \in smartSeen, a.serial # NoSerial PROVE a.disk \in gaveSmart'
      BY Zenon
    <2>1. id = Slug[SerialOf[a.disk]] /\ SerialOf[a.disk] # NoSerial
      BY <1>2 DEF SlugOf
    <2>2. QED
      BY <1>5, <2>1 DEF SmartInv, SeenGave
  <1> HIDE DEF e, id
  <1>8. LostGave(newDrives)'
    BY <1>1, <1>5, <1>7, LostStep DEF SmartInv
  <1>9. QED
    BY <1>5, <1>6, <1>8

LEMMA RecoverSmart ==
  ASSUME TypeOK, SmartInv, NEW p \in Paths, NEW asleep \in BOOLEAN, Recover(p, asleep)
  PROVE  gaveSmart' = gaveSmart /\ SeenGave' /\ LostGave(newDrives)'
  <1>1. gaveSmart' = gaveSmart /\ smartSeen' = smartSeen
    BY DEF Recover
  <1>2. SeenGave'
    BY <1>1 DEF SmartInv, SeenGave
  <1>3. LostGave(newDrives)'
    <2>1. CASE CachedIds(p) = {}
      BY <1>1, <2>1 DEF Recover, SmartInv, LostGave
    <2>2. CASE CachedIds(p) # {}
      <3>1. PICK id \in CachedIds(p) : newDrives' = Put(newDrives, id, Marked(drives[id], asleep))
        BY <2>2 DEF Recover, Add
      <3>2. id \in DOMAIN drives /\ drives[id] \in Drive
        BY DEF CachedIds, TypeOK, IsMap
      <3> DEFINE e == Marked(drives[id], asleep)
      <3>3. e.lost = drives[id].lost /\ e.serial = drives[id].serial /\ e.disk = drives[id].disk
        BY <3>2 DEF Marked, Drive
      <3>4. e.lost /\ e.serial # NoSerial => e.disk \in gaveSmart'
        BY <1>1, <3>2, <3>3 DEF SmartInv, LostGave
      <3>5. newDrives' = Put(newDrives, id, e)
        BY <3>1
      <3> HIDE DEF e
      <3>6. QED
        BY <1>1, <3>4, <3>5, LostStep DEF SmartInv
    <2>3. QED
      BY <2>1, <2>2
  <1>4. QED
    BY <1>1, <1>2, <1>3

(* A drive with a serial is said to have lost SMART data only if that very *)
(* drive gave some: where slugs and serials keep drives apart.             *)
THEOREM LostMeansGave ==
  ASSUME SlugKeepsApart, SerialsApart
  PROVE  Spec => []LostSerialGaveSmart
  <1>1. Init => SmartInv
    BY DEF Init, SmartInv, SeenGave, LostGave
  <1>2. TypeOK /\ SmartInv /\ [Next]_vars => SmartInv'
    <2> SUFFICES ASSUME TypeOK, SmartInv, [Next]_vars PROVE SmartInv'
      OBVIOUS
    <2>1. CASE ReadDevice
      <3> DEFINE p == devices[next].name
      <3>1. p \in Paths
        BY <2>1, ReadDeviceFacts DEF Device
      <3>2. PICK f \in Fetches(devices[next]) :
              /\ f \in Fetched /\ f.ans \in Answers(p)
              /\ Readable(f.ans) => f.ans.disk \in Disks
              /\ \/ Readable(f.ans) /\ Accept(p, f.ans)
                 \/ ~Readable(f.ans) /\ \E asleep \in BOOLEAN : Recover(p, asleep)
        BY <2>1, ReadDeviceFacts
      <3>3. f.ans \in Answer
        BY <3>2 DEF Fetched
      <3> HIDE DEF p
      <3>4. gaveSmart \subseteq gaveSmart' /\ SeenGave' /\ LostGave(newDrives)'
        BY <3>1, <3>2, <3>3, AcceptSmart, RecoverSmart
      <3>5. drives' = drives
        BY <2>1 DEF ReadDevice
      <3>6. LostGave(drives)'
        BY <3>4, <3>5 DEF SmartInv, LostGave
      <3>7. QED
        BY <3>4, <3>6 DEF SmartInv
    <2>2. CASE ScanOK
      BY <2>2 DEF ScanOK, SmartInv, SeenGave, LostGave
    <2>3. CASE Publish
      BY <2>3 DEF Publish, SmartInv, SeenGave, LostGave
    <2>4. CASE UNCHANGED <<drives, newDrives, smartSeen, gaveSmart>>
      BY <2>4 DEF SmartInv, SeenGave, LostGave
    <2>5. QED
      BY <2>1, <2>2, <2>3, <2>4 DEF Next, StartPoll, ScanFails, Attach, Detach, vars
  <1>3. SmartInv => LostSerialGaveSmart
    BY DEF SmartInv, LostGave, LostSerialGaveSmart
  <1>4. QED
    BY <1>1, <1>2, <1>3, TypeCorrect, PTL DEF Spec

-----------------------------------------------------------------------------
(* When Device Statistics are given up                                     *)

(* What is remembered of path and serial k covers what it was asked.       *)
Covers(m, l) ==
  /\ Len(l) > 0 /\ l[Len(l)] = "absent" => m.absent
  /\ Len(l) > 0 /\ l[Len(l)] = "timeout" => m.strikes >= MaxStrikes
  /\ Cardinality(Failures(l, Len(l))) <= m.strikes

GaveUp(l) ==
  \A i \in DOMAIN l : i < Len(l) =>
    /\ l[i] \notin {"absent", "timeout"}
    /\ Cardinality(Failures(l, i)) < MaxStrikes

DevstatInv == \A k \in Keys : Covers(devstatMemory[k], asked[k]) /\ GaveUp(asked[k])

LEMMA FailuresFinite ==
  ASSUME NEW l, NEW i \in Nat
  PROVE  IsFiniteSet(Failures(l, i)) /\ Cardinality(Failures(l, i)) \in Nat
  <1>1. IsFiniteSet(1..i)
    BY FS_Interval
  <1>2. Failures(l, i) \subseteq 1..i
    BY DEF Failures
  <1>3. QED
    BY <1>1, <1>2, FS_Subset, FS_CardinalityType

(* One more answer: earlier failures are the same, and the last count      *)
(* starts again at a reading, grows by a failure, or stays.                *)
LEMMA FailuresAppend ==
  ASSUME NEW S, NEW l \in Seq(S), NEW s \in S
  PROVE  LET n == Append(l, s) IN
         /\ \A i \in 0..Len(l) : Failures(n, i) = Failures(l, i)
         /\ s = "present" => Failures(n, Len(n)) = {}
         /\ s = "failed"  => Failures(n, Len(n)) = Failures(l, Len(l)) \cup {Len(n)}
         /\ s \notin {"present", "failed"} => Failures(n, Len(n)) = Failures(l, Len(l))
  <1> DEFINE n == Append(l, s)
  <1>1. /\ Len(n) = Len(l) + 1 /\ Len(l) \in Nat /\ n[Len(l) + 1] = s
        /\ \A j \in 1..Len(l) : n[j] = l[j]
    OBVIOUS
  <1> HIDE DEF n
  <1>2. \A i \in 0..Len(l) : Failures(n, i) = Failures(l, i)
    <2> TAKE i \in 0..Len(l)
    <2>1. \A j \in 1..i : n[j] = l[j]
      BY <1>1
    <2>2. QED
      BY <1>1, <2>1 DEF Failures
  <1>3. s = "present" => Failures(n, Len(n)) = {}
    BY <1>1 DEF Failures
  <1>4. s # "present" =>
          \A j \in 1..Len(l) : j \in Failures(n, Len(n)) <=> j \in Failures(l, Len(l))
    BY <1>1 DEF Failures
  <1>5. s # "present" => (Len(n) \in Failures(n, Len(n)) <=> s = "failed")
    BY <1>1 DEF Failures
  <1>6. Failures(n, Len(n)) \subseteq 1..Len(n) /\ Failures(l, Len(l)) \subseteq 1..Len(l)
    BY DEF Failures
  <1>7. 1..Len(n) = 1..Len(l) \cup {Len(n)} /\ Len(n) \notin 1..Len(l)
    BY <1>1
  <1>8. s = "failed" => Failures(n, Len(n)) = Failures(l, Len(l)) \cup {Len(n)}
    <2> HAVE s = "failed"
    <2> DEFINE F == Failures(n, Len(n))
               G == Failures(l, Len(l))
    <2>1. /\ F \subseteq 1..Len(l) \cup {Len(n)} /\ G \subseteq 1..Len(l) /\ Len(n) \in F
          /\ \A j \in 1..Len(l) : j \in F <=> j \in G
      BY <1>4, <1>5, <1>6, <1>7
    <2> HIDE DEF F, G
    <2>2. F = G \cup {Len(n)}
      BY <2>1
    <2>3. QED
      BY <2>2 DEF F, G
  <1>9. s \notin {"present", "failed"} => Failures(n, Len(n)) = Failures(l, Len(l))
    <2> HAVE s \notin {"present", "failed"}
    <2> DEFINE F == Failures(n, Len(n))
               G == Failures(l, Len(l))
    <2>1. /\ F \subseteq 1..Len(l) \cup {Len(n)} /\ G \subseteq 1..Len(l) /\ Len(n) \notin F
          /\ \A j \in 1..Len(l) : j \in F <=> j \in G
      BY <1>4, <1>5, <1>6, <1>7
    <2> HIDE DEF F, G
    <2>2. F = G
      BY <2>1
    <2>3. QED
      BY <2>2 DEF F, G
  <1>10. QED
    BY <1>2, <1>3, <1>8, <1>9 DEF n

LEMMA DevstatStep ==
  ASSUME NEW l \in Seq(DevstatStatuses), NEW m \in DevstatMem, Covers(m, l), GaveUp(l),
         NEW s \in DevstatResults, ~m.absent, m.strikes < MaxStrikes
  PROVE  Covers(Remember(m, s), Append(l, s)) /\ GaveUp(Append(l, s))
  <1> DEFINE n == Append(l, s)
             c == Cardinality(Failures(l, Len(l)))
             r == Remember(m, s)
  <1>1. /\ Len(n) = Len(l) + 1 /\ Len(l) \in Nat /\ n[Len(n)] = s
        /\ \A j \in 1..Len(l) : n[j] = l[j]
    OBVIOUS
  <1>2. s \in DevstatStatuses
    BY DEF DevstatResults, DevstatStatuses
  <1>3. /\ \A i \in 0..Len(l) : Failures(n, i) = Failures(l, i)
        /\ s = "present" => Failures(n, Len(n)) = {}
        /\ s = "failed"  => Failures(n, Len(n)) = Failures(l, Len(l)) \cup {Len(n)}
        /\ s \notin {"present", "failed"} => Failures(n, Len(n)) = Failures(l, Len(l))
    BY <1>2, FailuresAppend
  <1>4. c \in Nat /\ c <= m.strikes /\ m.strikes \in Nat /\ MaxStrikes \in Nat
        /\ IsFiniteSet(Failures(l, Len(l)))
    BY <1>1, FailuresFinite, ConfigAssumption DEF Covers, DevstatMem
  <1>5. Len(n) \notin Failures(l, Len(l))
    BY <1>1 DEF Failures
  <1>6. /\ s = "present" => r.strikes = 0
        /\ s = "failed" => r.strikes = m.strikes + 1
        /\ s = "timeout" => r.strikes = MaxStrikes
        /\ s = "absent" => r.absent /\ r.strikes = m.strikes
        /\ s \in {"standby", "mismatch"} => r = m
    BY DEF Remember, DevstatMem
  <1> HIDE DEF n, r
  <1>7. Cardinality(Failures(n, Len(n))) <= r.strikes
    <2>1. CASE s = "present"
      <3>1. Cardinality(Failures(n, Len(n))) = 0
        BY <1>3, <2>1, FS_EmptySet
      <3>2. QED
        BY <1>6, <2>1, <3>1
    <2>2. CASE s = "failed"
      <3>1. Cardinality(Failures(n, Len(n))) = c + 1
        BY <1>3, <1>4, <1>5, <2>2, FS_AddElement
      <3>2. QED
        BY <1>4, <1>6, <2>2, <3>1
    <2>3. CASE s \notin {"present", "failed"}
      <3>1. Cardinality(Failures(n, Len(n))) = c
        BY <1>3, <2>3
      <3>2. s \in {"absent", "timeout", "standby", "mismatch"}
        BY <2>3 DEF DevstatResults
      <3>3. r.strikes >= m.strikes
        BY <1>4, <1>6, <3>2
      <3>4. r.strikes \in Nat
        BY <1>4, <1>6, <3>2
      <3>5. QED
        BY <1>4, <3>1, <3>3, <3>4
    <2>4. QED
      BY <2>1, <2>2, <2>3
  <1>8. Covers(r, n)
    BY <1>1, <1>4, <1>6, <1>7 DEF Covers
  <1>9. GaveUp(n)
    <2> SUFFICES ASSUME NEW i \in 1..Len(l)
                 PROVE  n[i] \notin {"absent", "timeout"} /\ Cardinality(Failures(n, i)) < MaxStrikes
      BY <1>1 DEF GaveUp, n
    <2>1. n[i] = l[i] /\ Failures(n, i) = Failures(l, i)
      BY <1>1, <1>3
    <2>2. CASE i < Len(l)
      BY <2>1, <2>2 DEF GaveUp
    <2>3. CASE i = Len(l)
      <3>1. l[i] # "absent" /\ l[i] # "timeout"
        BY <1>1, <1>4, <2>3 DEF Covers
      <3>2. QED
        BY <1>4, <2>1, <2>3, <3>1
    <2>4. QED
      BY <1>1, <2>2, <2>3
  <1>10. QED
    BY <1>8, <1>9 DEF n, r

(* Whatever a drive's devstat calls answer, it is left alone after         *)
(* "absent", after a timeout, and after MaxStrikes failures without a      *)
(* reading.                                                                *)
THEOREM DevstatEnds == Spec => []DevstatGivesUp
  <1>1. Init => DevstatInv
    <2> SUFFICES ASSUME Init, NEW k \in Keys
                 PROVE  Covers(devstatMemory[k], asked[k]) /\ GaveUp(asked[k])
      BY DEF DevstatInv
    <2>1. asked[k] = << >> /\ devstatMemory[k].strikes = 0
      BY DEF Init
    <2>2. Failures(<< >>, Len(<< >>)) = {} /\ Len(<< >>) = 0 /\ DOMAIN << >> = {}
      BY DEF Failures
    <2>3. Cardinality(Failures(<< >>, Len(<< >>))) = 0
      BY <2>2, FS_EmptySet
    <2>4. Covers(devstatMemory[k], << >>)
      BY <2>1, <2>2, <2>3 DEF Covers
    <2>5. GaveUp(<< >>)
      BY <2>2 DEF GaveUp
    <2>6. QED
      BY <2>1, <2>4, <2>5
  <1>2. TypeOK /\ DevstatInv /\ [Next]_vars => DevstatInv'
    <2> SUFFICES ASSUME TypeOK, DevstatInv, [Next]_vars PROVE DevstatInv'
      OBVIOUS
    <2>1. CASE ReadDevice
      <3> DEFINE p == devices[next].name
      <3>1. p \in Paths
        BY <2>1, ReadDeviceFacts DEF Device
      <3>2. PICK f \in Fetches(devices[next]) :
              /\ f \in Fetched
              /\ \/ Accept(p, f.ans)
                 \/ \E asleep \in BOOLEAN : Recover(p, asleep)
        BY <2>1, ReadDeviceFacts
      <3>3. f.ans.serial \in SerialOrNone
        BY <3>2 DEF Fetched, Answer
      <3> HIDE DEF p
      <3> DEFINE k == <<p, f.ans.serial>>
      <3>4. k \in Keys
        BY <3>1, <3>3 DEF Keys
      <3>5. CASE Accept(p, f.ans)
        <4>1. PICK d \in DevstatReads(devstatMemory[k]) :
                /\ devstatMemory' = [devstatMemory EXCEPT ![k] = d.mem]
                /\ asked' = IF d.asks THEN [asked EXCEPT ![k] = Append(@, d.status)] ELSE asked
          BY <3>5 DEF Accept
        <4>2. asked[k] \in Seq(DevstatStatuses) /\ devstatMemory[k] \in DevstatMem
              /\ asked \in [Keys -> Seq(DevstatStatuses)] /\ devstatMemory \in [Keys -> DevstatMem]
          BY <3>4 DEF TypeOK
        <4>3. \/ d.mem = devstatMemory[k] /\ d.asks = FALSE
              \/ \E s \in DevstatResults :
                   /\ d = [status |-> s, mem |-> Remember(devstatMemory[k], s), asks |-> TRUE]
                   /\ ~devstatMemory[k].absent /\ devstatMemory[k].strikes < MaxStrikes
          BY <4>1 DEF DevstatReads
        <4> HIDE DEF k
        <4>4. CASE d.mem = devstatMemory[k] /\ d.asks = FALSE
          <5>1. asked' = asked /\ devstatMemory' = devstatMemory
            BY <4>1, <4>2, <4>4
          <5>2. QED
            BY <5>1 DEF DevstatInv
        <4>5. CASE \E s \in DevstatResults :
                   /\ d = [status |-> s, mem |-> Remember(devstatMemory[k], s), asks |-> TRUE]
                   /\ ~devstatMemory[k].absent /\ devstatMemory[k].strikes < MaxStrikes
          <5>1. PICK s \in DevstatResults :
                   /\ d = [status |-> s, mem |-> Remember(devstatMemory[k], s), asks |-> TRUE]
                   /\ ~devstatMemory[k].absent /\ devstatMemory[k].strikes < MaxStrikes
            BY <4>5
          <5>2. /\ asked' = [asked EXCEPT ![k] = Append(asked[k], s)]
                /\ devstatMemory' = [devstatMemory EXCEPT ![k] = Remember(devstatMemory[k], s)]
            BY <4>1, <5>1
          <5>3. Covers(Remember(devstatMemory[k], s), Append(asked[k], s))
                /\ GaveUp(Append(asked[k], s))
            BY <3>4, <4>2, <5>1, DevstatStep DEF DevstatInv
          <5>4. QED
            BY <3>4, <4>2, <5>2, <5>3 DEF DevstatInv
        <4>6. QED
          BY <4>3, <4>4, <4>5
      <3>6. CASE \E asleep \in BOOLEAN : Recover(p, asleep)
        BY <3>6 DEF Recover, DevstatInv
      <3>7. QED
        BY <3>2, <3>5, <3>6
    <2>2. CASE UNCHANGED <<devstatMemory, asked>>
      BY <2>2 DEF DevstatInv
    <2>3. QED
      BY <2>1, <2>2 DEF Next, StartPoll, ScanFails, ScanOK, Publish, Attach, Detach, vars
  <1>3. DevstatInv => DevstatGivesUp
    BY DEF DevstatInv, GaveUp, DevstatGivesUp
  <1>4. QED
    BY <1>1, <1>2, <1>3, TypeCorrect, PTL DEF Spec
=============================================================================
