---------------------------- MODULE ReplicaProofs ----------------------------
(***************************************************************************)
(* The Replica for any files, batches, calls and caps.  Beyond the types,  *)
(* the invariant has these parts.  Locked: a call at a step of Holding has *)
(* the lock, so at most one call is between the look at the cards and      *)
(* their save.  AllApart: not only the cards held but those of every Store *)
(* and those a call is about to save keep apart, with ids below the next   *)
(* one: a save, a load after a restart and a Store found by another entry  *)
(* bring any of these back.  StoreInv: what is held is what is saved,      *)
(* except under a save.  FilesInv: the files of all of these are there,    *)
(* and none is about to be deleted.  OwedKept: what is answered as added,  *)
(* or will be, is in all of these.                                         *)
(***************************************************************************)
EXTENDS Replica, SequenceTheorems, FiniteSetTheorems, NaturalsInduction, WellFoundedInduction, TLAPS

\* What a call has to have its lock for.
Holding == {"found", "make", "made", "save", "unlink", "write"}

Locked == \A j \in Jobs : job[j].at \in Holding => lock = j

\* What a call has in hand.
JobOK(r) ==
    /\ r.op = "add" /\ r.at = "start" => r.arg \in Batches
    /\ r.at \in {"found", "make", "made"} => r.op = "add" /\ r.arg \in Seq(Files \X Doc)
    /\ r.op = "delete" => r.arg \in Files
    /\ r.op = "write" => r.arg \in Written
    /\ r.at = "write" => r.mine # <<>>

Present == phase # "none" => entry # 0

Shape == TypeOK /\ Locked /\ \A j \in Jobs : JobOK(job[j])

USE SeedsAreDocs, UserFilesAreDocs, BoundsAreNumbers, WrittenAreDocs, BatchesNameFiles,
    NoJobIsNone, NotHeldIsNone

-----------------------------------------------------------------------------
(* The operators of the model                                                *)

LEMMA HeldType == TypeOK => Held \in Seq(Pick)
  <1> SUFFICES ASSUME TypeOK PROVE Held \in Seq(Pick)
    OBVIOUS
  <1>1. NoPicks \in Seq(Pick)
    BY DEF NoPicks
  <1>2. entry # 0 => store[entry] \in Seq(Pick) \cup {NotHeld}
    BY DEF TypeOK, Entries
  <1>3. items # NotHeld => items \in Seq(Pick)
    BY DEF TypeOK
  <1>4. QED
    BY <1>1, <1>2, <1>3 DEF Held

LEMMA IdentityType == ASSUME NEW p \in Pick PROVE Identity(p) \in Identities
  BY DEF Identity, Identities, Pick

LEMMA RenderType ==
  ASSUME NEW ps \in Seq(Pick)
  PROVE  Render(ps) \subseteq Identities
  <1>1. ToSet(ps) \subseteq Pick
    BY DEF ToSet
  <1>2. QED
    BY <1>1, IdentityType DEF Render

LEMMA PublishType ==
  ASSUME TypeOK, NEW g, NEW ps \in Seq(Pick), Publish(g, ps)
  PROVE  shown' \subseteq Identities /\ created' \subseteq Identities /\ devices' \subseteq Identities
  <1>1. Render(ps) \subseteq Identities
    BY RenderType
  <1>2. QED
    BY <1>1 DEF TypeOK, Publish, cards

LEMMA WithoutType ==
  ASSUME NEW ps \in Seq(Pick), NEW n \in DOMAIN ps
  PROVE  /\ Without(ps, n) \in Seq(Pick)
         /\ Len(Without(ps, n)) = Len(ps) - 1
         /\ \A i \in 1 .. Len(ps) - 1 :
              Without(ps, n)[i] = ps[IF i < n THEN i ELSE i + 1]
  <1> DEFINE a == SubSeq(ps, 1, n - 1)
             b == SubSeq(ps, n + 1, Len(ps))
             c == a \o b
  <1>1. n \in 1 .. Len(ps) /\ Len(ps) \in Nat
    OBVIOUS
  <1>2. a \in Seq(Pick) /\ Len(a) = n - 1 /\ \A i \in 1 .. n - 1 : a[i] = ps[i]
    BY <1>1
  <1>3. b \in Seq(Pick) /\ Len(b) = Len(ps) - n /\ \A i \in 1 .. Len(ps) - n : b[i] = ps[n + i]
    BY <1>1
  <1>4. Without(ps, n) = c
    BY DEF Without, RemoveAt
  <1> HIDE DEF a, b
  <1>5. /\ c \in Seq(Pick) /\ Len(c) = Len(ps) - 1
        /\ \A i \in 1 .. Len(ps) - 1 : c[i] = IF i <= n - 1 THEN a[i] ELSE b[i - (n - 1)]
    <2>1. Len(a) + Len(b) = Len(ps) - 1 /\ Len(a) = n - 1
      BY <1>1, <1>2, <1>3
    <2>2. /\ a \o b \in Seq(Pick) /\ Len(a \o b) = Len(a) + Len(b)
          /\ \A i \in 1 .. Len(a) + Len(b) : (a \o b)[i] = IF i <= Len(a) THEN a[i] ELSE b[i - Len(a)]
      <3>1. a \in Seq(Pick) /\ b \in Seq(Pick)
        BY <1>2, <1>3
      <3>2. QED
        BY <3>1, ConcatProperties, Zenon
    <2> HIDE DEF c
    <2>3. QED
      BY <2>1, <2>2 DEF c
  <1> HIDE DEF c
  <1>6. \A i \in 1 .. Len(ps) - 1 : c[i] = ps[IF i < n THEN i ELSE i + 1]
    <2> TAKE i \in 1 .. Len(ps) - 1
    <2>1. CASE i < n
      BY <1>1, <1>2, <1>5, <2>1
    <2>2. CASE i >= n
      <3>1. i - (n - 1) \in 1 .. Len(ps) - n /\ n + (i - (n - 1)) = i + 1
        BY <1>1, <2>2
      <3>2. c[i] = b[i - (n - 1)]
        <4>1. ~(i <= n - 1)
          BY <1>1, <2>2
        <4>2. QED
          BY <1>5, <4>1
      <3>3. b[i - (n - 1)] = ps[n + (i - (n - 1))]
        BY <1>3, <3>1
      <3>4. QED
        BY <1>1, <2>2, <3>1, <3>2, <3>3
    <2>3. i < n \/ i >= n
      BY <1>1
    <2>4. QED
      BY <2>1, <2>2, <2>3
  <1>7. QED
    BY <1>4, <1>5, <1>6

LEMMA NewPicksType ==
  ASSUME NEW recs \in Seq(Files \X Doc), NEW names \in [DOMAIN recs -> Numbers], NEW id \in Nat
  PROVE  /\ NewPicks(recs, names, id) \in Seq(Pick)
         /\ Len(NewPicks(recs, names, id)) = Len(recs)
  <1> DEFINE ps == NewPicks(recs, names, id)
  <1>1. DOMAIN recs = 1 .. Len(recs) /\ Len(recs) \in Nat
    OBVIOUS
  <1>2. \A i \in DOMAIN recs : recs[i][1] \in Files /\ recs[i][2] \in Doc
    OBVIOUS
  <1>3. \A i \in DOMAIN recs : names[i] \in Nat /\ id + i - 1 \in Nat
    BY <1>1 DEF Numbers
  <1>4. ps \in [1 .. Len(recs) -> Pick]
    BY <1>1, <1>2, <1>3 DEF NewPicks, Pick, Doc
  <1> HIDE DEF ps
  <1>5. \A m \in Nat : ps \in [1 .. m -> Pick] => ps \in Seq(Pick) /\ Len(ps) = m
    OBVIOUS
  <1>6. QED
    BY <1>1, <1>4, <1>5 DEF ps

\* A step of one call leaves the others as they were.
LEMMA GoMoves ==
  ASSUME TypeOK, NEW j \in Jobs, NEW r, Go(j, r)
  PROVE  /\ DOMAIN job' = Jobs /\ job'[j] = r
         /\ \A k \in Jobs : k # j => job'[k] = job[k]
  BY DEF Go, TypeOK

\* And keeps the lock's discipline when it may hold what it goes on with.
LEMMA ShapeOfJobs ==
  ASSUME Shape, NEW j \in Jobs, NEW r, Go(j, r), IsJob(r), JobOK(r),
         r.at \in Holding => lock' = j,
         lock' = lock \/ lock \in {NoJob, j}
  PROVE  /\ DOMAIN job' = Jobs /\ \A k \in Jobs : IsJob(job'[k])
         /\ \A k \in Jobs : JobOK(job'[k])
         /\ Locked'
  <1>1. \A k \in Jobs : k # j => job'[k] = job[k]
    BY GoMoves DEF Shape
  <1>2. DOMAIN job' = Jobs /\ job'[j] = r
    BY GoMoves DEF Shape
  <1>3. \A k \in Jobs : IsJob(job'[k]) /\ JobOK(job'[k])
    BY <1>1, <1>2 DEF Shape, TypeOK
  <1>4. Locked'
    BY <1>1, <1>2 DEF Shape, Locked
  <1>5. QED
    BY <1>2, <1>3, <1>4

LEMMA IdleJob == IsJob(Idle) /\ JobOK(Idle) /\ Idle.at \notin Holding /\ Idle.at # "save"
  BY DEF IsJob, JobOK, Idle, Holding, NoPicks

LEMMA RefuseKeepsShape ==
  ASSUME Shape, NEW j \in Jobs, Refuse(j), lock \in {NoJob, j}
  PROVE  Shape'
  <1>1. Go(j, Idle) /\ lock' = NoJob
    BY DEF Refuse, Free
  <1>2. /\ DOMAIN job' = Jobs /\ \A k \in Jobs : IsJob(job'[k])
        /\ \A k \in Jobs : JobOK(job'[k])
        /\ Locked'
    BY <1>1, IdleJob, ShapeOfJobs
  <1>3. TypeOK'
    BY <1>1, <1>2 DEF Refuse, Shape, TypeOK, cards, count, past, IsJob
  <1>4. QED
    BY <1>2, <1>3 DEF Shape
LEMMA AddShape ==
  ASSUME Shape, NEW j \in Jobs,
         AddFind(j) \/ AddCheck(j) \/ AddMake(j) \/ AddMade(j) \/ AddDone(j)
  PROVE  Shape'
  <1> DEFINE r == job[j]
  <1>1. IsJob(r) /\ JobOK(r) /\ (r.at \in Holding => lock = j)
    BY DEF Shape, TypeOK, Locked
  <1>2. Held \in Seq(Pick)
    BY HeldType DEF Shape
  <1>3. ASSUME TakeBatch(j), r.op = "add", lock = j, r.arg \in Seq(Files \X Doc)
        PROVE  Shape'
    <2>1. CASE Refuse(j)
      BY <1>3, <2>1, RefuseKeepsShape
    <2>2. CASE ~Refuse(j)
      <3>1. PICK names \in [DOMAIN r.arg -> Numbers] :
              LET mine == NewPicks(r.arg, names, nextPick) IN
              /\ items' = Held \o mine
              /\ Go(j, [r EXCEPT !.at = "save", !.g = entry, !.out = Held \o mine, !.mine = mine])
        BY <1>3, <2>2 DEF TakeBatch
      <3> DEFINE mine == NewPicks(r.arg, names, nextPick)
                 q == [r EXCEPT !.at = "save", !.g = entry, !.out = Held \o mine, !.mine = mine]
      <3>2. nextPick \in Nat /\ entry \in 0 .. MaxOps + 1
        BY DEF Shape, TypeOK
      <3>3. mine \in Seq(Pick) /\ Len(r.arg) \in Nat
        <4>1. Len(r.arg) \in Nat
          BY <1>3
        <4>2. names \in [DOMAIN r.arg -> Numbers] /\ nextPick \in Nat /\ r.arg \in Seq(Files \X Doc)
          BY <1>3, <3>1, <3>2
        <4> HIDE DEF r
        <4>3. NewPicks(r.arg, names, nextPick) \in Seq(Pick)
          BY <4>2, NewPicksType
        <4>4. QED
          BY <4>1, <4>3
      <3> HIDE DEF mine
      <3>4. Held \o mine \in Seq(Pick)
        BY <1>2, <3>3
      <3>5. IsJob(q) /\ JobOK(q) /\ Go(j, q)
        BY <1>1, <1>3, <3>1, <3>2, <3>3, <3>4 DEF IsJob, JobOK, mine
      <3>6. UNCHANGED << files, entry, phase, newer, store, lock, poll, cards, past, ops >>
            /\ nextPick' = nextPick + Len(r.arg)
        BY <1>3, <2>2 DEF TakeBatch
      <3> HIDE DEF q
      <3>7. /\ DOMAIN job' = Jobs /\ \A k \in Jobs : IsJob(job'[k])
            /\ \A k \in Jobs : JobOK(job'[k])
            /\ Locked'
        BY <1>3, <3>5, <3>6, ShapeOfJobs
      <3>8. TypeOK'
        <4>1. items' \in Seq(Pick) /\ nextPick' \in Nat
          BY <3>1, <3>2, <3>3, <3>4, <3>6 DEF mine
        <4>2. QED
          BY <3>6, <3>7, <4>1 DEF Shape, TypeOK, cards, past
      <3>9. QED
        BY <3>7, <3>8 DEF Shape
    <2>3. QED
      BY <2>1, <2>2
  <1>4. ASSUME NEW a \in {"make", "made", "polling"}, r.at \in {"found", "make", "made"}
        PROVE  IsJob([r EXCEPT !.at = a]) /\ JobOK([r EXCEPT !.at = a])
    BY <1>1, <1>4 DEF IsJob, JobOK
  <1>5. CASE AddFind(j)
    <2>1. CASE Refuse(j)
      BY <1>5, <2>1, RefuseKeepsShape DEF AddFind, Takes
    <2>2. CASE ~Refuse(j)
      <3> DEFINE q == [r EXCEPT !.at = "found",
                          !.arg = [i \in DOMAIN r.arg |-> << r.arg[i], files[r.arg[i]] >>]]
      <3>1. /\ Go(j, q) /\ lock' = j
            /\ \A i \in DOMAIN r.arg : Readable(r.arg[i])
            /\ UNCHANGED << files, entry, phase, newer, items, store, poll, cards, count, past >>
        BY <1>5, <2>2 DEF AddFind
      <3>2. r.op = "add" /\ r.at = "start" /\ r.arg \in Seq(Files) /\ lock = NoJob
        BY <1>1, <1>5 DEF AddFind, Takes, At, JobOK
      <3>3. \A i \in DOMAIN r.arg : r.arg[i] \in Files /\ files[r.arg[i]] \in Doc
        <4> TAKE i \in DOMAIN r.arg
        <4>1. r.arg[i] \in Files
          BY <3>2
        <4>2. files[r.arg[i]] \in Doc \cup {Broken, Absent}
          BY <4>1 DEF Shape, TypeOK
        <4>3. files[r.arg[i]] # Broken /\ files[r.arg[i]] # Absent
          BY <3>1 DEF Readable, Listed
        <4>4. QED
          BY <4>1, <4>2, <4>3
      <3>4. q.arg \in Seq(Files \X Doc)
        <4>1. DOMAIN r.arg = 1 .. Len(r.arg) /\ Len(r.arg) \in Nat
          BY <3>2
        <4>2. q.arg = [i \in 1 .. Len(r.arg) |-> << r.arg[i], files[r.arg[i]] >>]
          BY <1>1, <4>1 DEF IsJob
        <4>3. q.arg \in [1 .. Len(r.arg) -> Files \X Doc]
          BY <3>3, <4>1, <4>2
        <4> HIDE DEF q
        <4>4. QED
          BY <4>1, <4>3
      <3>5. IsJob(q) /\ JobOK(q)
        BY <1>1, <3>2, <3>4 DEF IsJob, JobOK
      <3> HIDE DEF q
      <3>6. /\ DOMAIN job' = Jobs /\ \A k \in Jobs : IsJob(job'[k])
            /\ \A k \in Jobs : JobOK(job'[k])
            /\ Locked'
        BY <3>1, <3>2, <3>5, ShapeOfJobs DEF Shape, Locked
      <3>7. TypeOK'
        BY <3>1, <3>6 DEF Shape, TypeOK, cards, count, past, IsJob
      <3>8. QED
        BY <3>6, <3>7 DEF Shape
    <2>3. QED
      BY <2>1, <2>2
  <1>6. CASE AddCheck(j)
    <2>1. r.op = "add" /\ r.at = "found" /\ lock = j /\ r.arg \in Seq(Files \X Doc)
      BY <1>1, <1>6 DEF AddCheck, At, JobOK, Holding
    <2>2. CASE TakeBatch(j)
      BY <1>3, <2>1, <2>2
    <2>3. CASE Refuse(j)
      BY <2>1, <2>3, RefuseKeepsShape
    <2>4. CASE ~TakeBatch(j) /\ ~Refuse(j)
      <3>1. /\ Go(j, [r EXCEPT !.at = "make"])
            /\ UNCHANGED << files, entry, phase, newer, items, store, lock, poll,
                            cards, count, past >>
        BY <1>6, <2>4 DEF AddCheck
      <3>2. /\ DOMAIN job' = Jobs /\ \A k \in Jobs : IsJob(job'[k])
            /\ \A k \in Jobs : JobOK(job'[k])
            /\ Locked'
        BY <1>4, <2>1, <3>1, ShapeOfJobs
      <3>3. TypeOK'
        BY <3>1, <3>2 DEF Shape, TypeOK, cards, count, past, IsJob
      <3>4. QED
        BY <3>2, <3>3 DEF Shape
    <2>5. QED
      BY <2>2, <2>3, <2>4
  <1>7. CASE AddMake(j)
    <2>1. r.op = "add" /\ r.at = "make" /\ lock = j
      BY <1>1, <1>7 DEF AddMake, At, Holding
    <2>2. /\ Go(j, [r EXCEPT !.at = "made"]) /\ lock' = lock
      BY <1>7 DEF AddMake
    <2>3. /\ DOMAIN job' = Jobs /\ \A k \in Jobs : IsJob(job'[k])
          /\ \A k \in Jobs : JobOK(job'[k])
          /\ Locked'
      BY <1>4, <2>1, <2>2, ShapeOfJobs
    <2>4. entry + 1 \in 0 .. MaxOps + 1
      BY <1>7 DEF AddMake, Entries
    <2>5. TypeOK'
      <3>1. NoPicks \in Seq(Pick)
        BY DEF NoPicks
      <3>2. QED
        BY <1>7, <2>3, <2>4, <3>1 DEF AddMake, Shape, TypeOK, count, past
    <2>6. QED
      BY <2>3, <2>5 DEF Shape
  <1>8. CASE AddMade(j)
    <2>1. r.op = "add" /\ r.at = "made" /\ lock = j /\ r.arg \in Seq(Files \X Doc)
      BY <1>1, <1>8 DEF AddMade, At, JobOK, Holding
    <2>2. QED
      BY <1>3, <1>8, <2>1, RefuseKeepsShape DEF AddMade
  <1>9. CASE AddDone(j)
    <2>1. /\ Go(j, Idle) /\ lock' = lock /\ Publish(r.g, r.out)
          /\ acked' = acked \cup {<< r.g, p >> : p \in ToSet(r.mine)}
          /\ UNCHANGED << files, entry, phase, newer, items, store, lock, poll, count,
                    dropped, byHand >>
      BY <1>9 DEF AddDone
    <2>2. /\ DOMAIN job' = Jobs /\ \A k \in Jobs : IsJob(job'[k])
          /\ \A k \in Jobs : JobOK(job'[k])
          /\ Locked'
      BY <2>1, IdleJob, ShapeOfJobs
    <2>3. shown' \subseteq Identities /\ created' \subseteq Identities /\ devices' \subseteq Identities
      BY <1>1, <2>1, PublishType DEF Shape, IsJob
    <2>4. acked' \subseteq (0 .. MaxOps + 1) \X Pick
      <3>1. r.g \in 0 .. MaxOps + 1 /\ r.mine \in Seq(Pick)
        BY <1>1 DEF IsJob
      <3>2. ToSet(r.mine) \subseteq Pick
        BY <3>1 DEF ToSet
      <3>3. QED
        BY <2>1, <3>1, <3>2 DEF Shape, TypeOK
    <2>5. TypeOK'
      BY <2>1, <2>2, <2>3, <2>4 DEF Shape, TypeOK, count, IsJob
    <2>6. QED
      BY <2>2, <2>5 DEF Shape
  <1>10. QED
    BY <1>5, <1>6, <1>7, <1>8, <1>9
LEMMA RemoveShape ==
  ASSUME Shape, NEW j \in Jobs,
         RemoveLook(j) \/ RemovePolled(j) \/ ForgetPickDevice(j) \/ RemoveLast(j)
  PROVE  Shape'
  <1> DEFINE r == job[j]
  <1>1. IsJob(r) /\ JobOK(r) /\ (r.at \in Holding => lock = j)
    BY DEF Shape, TypeOK, Locked
  <1>2. Held \in Seq(Pick)
    BY HeldType DEF Shape
  <1>3. CASE RemoveLook(j)
    <2>1. r.op = "remove" /\ r.at = "start" /\ lock = NoJob
      BY <1>3 DEF RemoveLook, Takes, At
    <2>2. CASE Refuse(j)
      BY <2>1, <2>2, RefuseKeepsShape
    <2>3. CASE ~Refuse(j)
      <3>1. UNCHANGED << files, entry, phase, newer, store, poll, cards, count, acked, byHand >>
        BY <1>3, <2>3 DEF RemoveLook
      <3>2. PICK n \in Behind(j) :
              \/ /\ Free /\ UNCHANGED items
                 /\ Go(j, [r EXCEPT !.at = "last", !.mine = << Held[n] >>])
              \/ /\ items' = Without(Held, n) /\ lock' = j
                 /\ Go(j, [r EXCEPT !.at = "save", !.mine = << Held[n] >>, !.out = Without(Held, n)])
        BY <1>3, <2>3 DEF RemoveLook
      <3>3. << Held[n] >> \in Seq(Pick) /\ Without(Held, n) \in Seq(Pick)
        BY <1>2, WithoutType DEF Behind
      <3>4. \E q : /\ Go(j, q) /\ IsJob(q) /\ JobOK(q)
                   /\ q.at \in Holding => lock' = j
                   /\ lock' = lock \/ lock' = j
        <4>1. CASE Free /\ Go(j, [r EXCEPT !.at = "last", !.mine = << Held[n] >>])
          <5> DEFINE q == [r EXCEPT !.at = "last", !.mine = << Held[n] >>]
          <5>1. IsJob(q) /\ JobOK(q) /\ q.at \notin Holding
            BY <1>1, <2>1, <3>3 DEF IsJob, JobOK, Holding
          <5> HIDE DEF q
          <5>2. QED
            BY <2>1, <4>1, <5>1 DEF q, Free
        <4>2. CASE lock' = j /\ Go(j, [r EXCEPT !.at = "save", !.mine = << Held[n] >>,
                                                 !.out = Without(Held, n)])
          <5> DEFINE q == [r EXCEPT !.at = "save", !.mine = << Held[n] >>, !.out = Without(Held, n)]
          <5>1. IsJob(q) /\ JobOK(q)
            BY <1>1, <2>1, <3>3 DEF IsJob, JobOK
          <5> HIDE DEF q
          <5>2. QED
            BY <4>2, <5>1 DEF q
        <4>3. QED
          BY <3>2, <4>1, <4>2
      <3>5. /\ DOMAIN job' = Jobs /\ \A k \in Jobs : IsJob(job'[k])
            /\ \A k \in Jobs : JobOK(job'[k])
            /\ Locked' /\ lock' \in {lock, j}
        BY <2>1, <3>4, ShapeOfJobs
      <3>6. items' \in Seq(Pick) \cup {NotHeld}
        BY <3>2, <3>3 DEF Shape, TypeOK
      <3>7. TypeOK'
        BY <3>1, <3>5, <3>6 DEF Shape, TypeOK, cards, count
      <3>8. QED
        BY <3>5, <3>7 DEF Shape
    <2>4. QED
      BY <2>2, <2>3
  <1>4. CASE RemovePolled(j)
    <2>1. /\ Go(j, [r EXCEPT !.at = "forget"]) /\ lock' = lock /\ Publish(r.g, r.out)
          /\ UNCHANGED << files, entry, phase, newer, items, store, poll, count, past >>
      BY <1>4 DEF RemovePolled
    <2>2. r.op = "remove" /\ IsJob([r EXCEPT !.at = "forget"])
          /\ JobOK([r EXCEPT !.at = "forget"])
      BY <1>1, <1>4 DEF IsJob, JobOK, RemovePolled, At
    <2>3. /\ DOMAIN job' = Jobs /\ \A k \in Jobs : IsJob(job'[k])
          /\ \A k \in Jobs : JobOK(job'[k])
          /\ Locked'
      BY <1>1, <2>1, <2>2, ShapeOfJobs DEF IsJob, Holding
    <2>4. shown' \subseteq Identities /\ created' \subseteq Identities /\ devices' \subseteq Identities
      BY <1>1, <2>1, PublishType DEF Shape, IsJob
    <2>5. TypeOK'
      BY <2>1, <2>3, <2>4 DEF Shape, TypeOK, count, past
    <2>6. QED
      BY <2>3, <2>5 DEF Shape
  <1>5. CASE ForgetPickDevice(j)
    <2>1. Go(j, Idle) /\ lock' = lock
      BY <1>5 DEF ForgetPickDevice
    <2>2. /\ DOMAIN job' = Jobs /\ \A k \in Jobs : IsJob(job'[k])
          /\ \A k \in Jobs : JobOK(job'[k])
          /\ Locked'
      BY <2>1, IdleJob, ShapeOfJobs
    <2>3. TypeOK'
      BY <1>5, <2>2 DEF ForgetPickDevice, Shape, TypeOK, count, past
    <2>4. QED
      BY <2>2, <2>3 DEF Shape
  <1>6. CASE RemoveLast(j)
    <2>1. Go(j, Idle) /\ lock' = lock
      BY <1>6 DEF RemoveLast
    <2>2. /\ DOMAIN job' = Jobs /\ \A k \in Jobs : IsJob(job'[k])
          /\ \A k \in Jobs : JobOK(job'[k])
          /\ Locked'
      BY <2>1, IdleJob, ShapeOfJobs
    <2>3. TypeOK'
      BY <1>6, <2>2 DEF RemoveLast, Shape, TypeOK, cards, count, past
    <2>4. QED
      BY <2>2, <2>3 DEF Shape
  <1>7. QED
    BY <1>3, <1>4, <1>5, <1>6
LEMMA DeleteShape ==
  ASSUME Shape, NEW j \in Jobs, DeleteLook(j) \/ DeleteFile(j)
  PROVE  Shape'
  <1> DEFINE r == job[j]
  <1>1. IsJob(r) /\ JobOK(r) /\ (r.at \in Holding => lock = j)
    BY DEF Shape, TypeOK, Locked
  <1>2. CASE DeleteLook(j)
    <2>1. r.op = "delete" /\ r.at = "start" /\ lock = NoJob
      BY <1>2 DEF DeleteLook, Takes, At
    <2>2. CASE Refuse(j)
      BY <2>1, <2>2, RefuseKeepsShape
    <2>3. CASE ~Refuse(j)
      <3>1. /\ Go(j, [r EXCEPT !.at = "unlink"]) /\ lock' = j
            /\ UNCHANGED << files, entry, phase, newer, items, store, poll, cards, count, past >>
        BY <1>2, <2>3 DEF DeleteLook
      <3>2. IsJob([r EXCEPT !.at = "unlink"]) /\ JobOK([r EXCEPT !.at = "unlink"])
        BY <1>1, <2>1 DEF IsJob, JobOK
      <3>3. /\ DOMAIN job' = Jobs /\ \A k \in Jobs : IsJob(job'[k])
            /\ \A k \in Jobs : JobOK(job'[k])
            /\ Locked'
        BY <2>1, <3>1, <3>2, ShapeOfJobs
      <3>4. TypeOK'
        BY <3>1, <3>3 DEF Shape, TypeOK, cards, count, past
      <3>5. QED
        BY <3>3, <3>4 DEF Shape
    <2>4. QED
      BY <2>2, <2>3
  <1>3. CASE DeleteFile(j)
    <2>1. Go(j, Idle) /\ lock' = NoJob /\ lock = j
      BY <1>1, <1>3 DEF DeleteFile, Free, At, Holding
    <2>2. /\ DOMAIN job' = Jobs /\ \A k \in Jobs : IsJob(job'[k])
          /\ \A k \in Jobs : JobOK(job'[k])
          /\ Locked'
      BY <2>1, IdleJob, ShapeOfJobs
    <2>3. TypeOK'
      BY <1>3, <2>1, <2>2 DEF DeleteFile, Shape, TypeOK, cards, count, past
    <2>4. QED
      BY <2>2, <2>3 DEF Shape
  <1>4. QED
    BY <1>2, <1>3

LEMMA SwitchType ==
  ASSUME NEW ps \in Seq(Pick), NEW p, NEW f \in Files
  PROVE  LET work == [i \in DOMAIN ps |-> IF ps[i].id = p.id THEN [ps[i] EXCEPT !.file = f] ELSE ps[i]]
         IN work \in Seq(Pick)
  <1> DEFINE work == [i \in DOMAIN ps |-> IF ps[i].id = p.id THEN [ps[i] EXCEPT !.file = f] ELSE ps[i]]
  <1>1. DOMAIN ps = 1 .. Len(ps) /\ Len(ps) \in Nat
    OBVIOUS
  <1>2. \A i \in DOMAIN ps : ps[i] \in Pick /\ [ps[i] EXCEPT !.file = f] \in Pick
    <2> TAKE i \in DOMAIN ps
    <2>1. ps[i] \in Pick
      OBVIOUS
    <2>2. QED
      BY <2>1 DEF Pick
  <1>3. work \in [1 .. Len(ps) -> Pick]
    BY <1>1, <1>2
  <1> HIDE DEF work
  <1>4. \A m \in Nat : work \in [1 .. m -> Pick] => work \in Seq(Pick)
    OBVIOUS
  <1>5. QED
    BY <1>1, <1>3, <1>4 DEF work

LEMMA EditShape ==
  ASSUME Shape, NEW j \in Jobs, EditLook(j) \/ EditWrite(j) \/ EditDone(j)
  PROVE  Shape'
  <1> DEFINE r == job[j]
  <1>1. IsJob(r) /\ JobOK(r) /\ (r.at \in Holding => lock = j)
    BY DEF Shape, TypeOK, Locked
  <1>2. Held \in Seq(Pick)
    BY HeldType DEF Shape
  <1>3. CASE EditLook(j)
    <2>1. r.op = "edit" /\ r.at = "start" /\ lock = NoJob
      BY <1>3 DEF EditLook, Takes, At
    <2>2. CASE Refuse(j)
      BY <2>1, <2>2, RefuseKeepsShape
    <2>3. CASE ~Refuse(j)
      <3>1. PICK n \in Behind(j) : Go(j, [r EXCEPT !.at = "write", !.mine = << Held[n] >>])
        BY <1>3, <2>3 DEF EditLook
      <3> DEFINE q == [r EXCEPT !.at = "write", !.mine = << Held[n] >>]
      <3>2. << Held[n] >> \in Seq(Pick) /\ << Held[n] >> # << >>
        BY <1>2 DEF Behind
      <3>3. IsJob(q) /\ JobOK(q) /\ Go(j, q)
        BY <1>1, <2>1, <3>1, <3>2 DEF IsJob, JobOK
      <3>4. lock' = j /\ UNCHANGED << files, entry, phase, newer, items, store, poll, cards, count, past >>
        BY <1>3, <2>3 DEF EditLook
      <3> HIDE DEF q
      <3>5. /\ DOMAIN job' = Jobs /\ \A k \in Jobs : IsJob(job'[k])
            /\ \A k \in Jobs : JobOK(job'[k])
            /\ Locked'
        BY <2>1, <3>3, <3>4, ShapeOfJobs
      <3>6. TypeOK'
        BY <3>4, <3>5 DEF Shape, TypeOK, cards, count, past
      <3>7. QED
        BY <3>5, <3>6 DEF Shape
    <2>4. QED
      BY <2>2, <2>3
  <1>4. CASE EditWrite(j)
    <2>1. r.op = "edit" /\ r.at = "write" /\ lock = j /\ r.mine[1] \in Pick
      <3>1. r.op = "edit" /\ r.at = "write" /\ r.mine # << >>
        BY <1>1, <1>4 DEF EditWrite, At, JobOK
      <3>2. r.mine \in Seq(Pick)
        BY <1>1 DEF IsJob
      <3>3. QED
        BY <1>1, <3>1, <3>2 DEF Holding
    <2>2. CASE Refuse(j)
      BY <2>1, <2>2, RefuseKeepsShape
    <2>3. CASE /\ Free /\ Go(j, [r EXCEPT !.at = "refresh"])
               /\ UNCHANGED << files, entry, phase, newer, items, store, poll, cards, count, past >>
      <3>1. IsJob([r EXCEPT !.at = "refresh"]) /\ JobOK([r EXCEPT !.at = "refresh"])
            /\ [r EXCEPT !.at = "refresh"].at \notin Holding
        BY <1>1, <2>1 DEF IsJob, JobOK, Holding
      <3>2. /\ DOMAIN job' = Jobs /\ \A k \in Jobs : IsJob(job'[k])
            /\ \A k \in Jobs : JobOK(job'[k])
            /\ Locked'
        BY <2>1, <2>3, <3>1, ShapeOfJobs DEF Free
      <3>3. TypeOK'
        BY <2>3, <3>2 DEF Free, Shape, TypeOK, cards, count, past
      <3>4. QED
        BY <3>2, <3>3 DEF Shape
    <2>4. CASE /\ r.mine[1].file[1] # "user"
               /\ \E n \in {n \in UserSlots : files[<< "user", n >>] = Absent} :
                    LET work == [i \in DOMAIN Held |->
                                   IF Held[i].id = r.mine[1].id
                                   THEN [Held[i] EXCEPT !.file = << "user", n >>]
                                   ELSE Held[i]]
                    IN /\ files' = [files EXCEPT ![<< "user", n >>] = SeedDoc[r.mine[1].file[2]]]
                       /\ items' = work
                       /\ Go(j, [r EXCEPT !.at = "save", !.out = work])
               /\ UNCHANGED << entry, phase, newer, store, lock, poll, cards, count, past >>
      <3>1. PICK n \in UserSlots :
                    LET work == [i \in DOMAIN Held |->
                                   IF Held[i].id = r.mine[1].id
                                   THEN [Held[i] EXCEPT !.file = << "user", n >>]
                                   ELSE Held[i]]
                    IN /\ files' = [files EXCEPT ![<< "user", n >>] = SeedDoc[r.mine[1].file[2]]]
                       /\ items' = work
                       /\ Go(j, [r EXCEPT !.at = "save", !.out = work])
        BY <2>4
      <3> DEFINE work == [i \in DOMAIN Held |->
                                   IF Held[i].id = r.mine[1].id
                                   THEN [Held[i] EXCEPT !.file = << "user", n >>]
                                   ELSE Held[i]]
                 q == [r EXCEPT !.at = "save", !.out = work]
      <3>2. << "user", n >> \in Files
        BY DEF Files
      <3>3. work \in Seq(Pick)
        BY <1>2, <3>2, SwitchType
      <3> HIDE DEF work
      <3>4. IsJob(q) /\ JobOK(q) /\ Go(j, q)
        BY <1>1, <2>1, <3>1, <3>3 DEF IsJob, JobOK, work
      <3>5. r.mine[1].file[2] \in Seeds
        BY <2>1, <2>4 DEF Pick, Files
      <3>6. SeedDoc[r.mine[1].file[2]] \in Doc \cup {Broken}
        BY <3>5
      <3> HIDE DEF q
      <3>7. /\ DOMAIN job' = Jobs /\ \A k \in Jobs : IsJob(job'[k])
            /\ \A k \in Jobs : JobOK(job'[k])
            /\ Locked'
        BY <2>1, <2>4, <3>4, ShapeOfJobs
      <3>8. files' \in [Files -> Doc \cup {Broken, Absent}] /\ items' \in Seq(Pick)
        BY <3>1, <3>2, <3>3, <3>6 DEF Shape, TypeOK, work
      <3>9. TypeOK'
        BY <2>4, <3>7, <3>8 DEF Shape, TypeOK, cards, count, past
      <3>10. QED
        BY <3>7, <3>9 DEF Shape
    <2>5. QED
      BY <1>4, <2>2, <2>3, <2>4 DEF EditWrite
  <1>5. CASE EditDone(j)
    <2>1. /\ Go(j, Idle) /\ lock' = lock /\ Publish(r.g, r.out)
          /\ UNCHANGED << files, entry, phase, newer, items, store, poll, count, past >>
      BY <1>5 DEF EditDone
    <2>2. /\ DOMAIN job' = Jobs /\ \A k \in Jobs : IsJob(job'[k])
          /\ \A k \in Jobs : JobOK(job'[k])
          /\ Locked'
      BY <2>1, IdleJob, ShapeOfJobs
    <2>3. shown' \subseteq Identities /\ created' \subseteq Identities /\ devices' \subseteq Identities
      BY <1>1, <2>1, PublishType DEF Shape, IsJob
    <2>4. TypeOK'
      BY <2>1, <2>2, <2>3 DEF Shape, TypeOK, count, past
    <2>5. QED
      BY <2>2, <2>4 DEF Shape
  <1>6. QED
    BY <1>3, <1>4, <1>5

LEMMA WriteShape ==
  ASSUME Shape, NEW j \in Jobs,
         WriteLook(j) \/ WriteFile(j) \/ Save(j, "refresh") \/ RefreshStart(j)
  PROVE  Shape'
  <1> DEFINE r == job[j]
  <1>1. IsJob(r) /\ JobOK(r) /\ (r.at \in Holding => lock = j)
    BY DEF Shape, TypeOK, Locked
  <1>2. CASE WriteLook(j)
    <2>1. \E q : Go(j, q) /\ IsJob(q) /\ JobOK(q) /\ q.at \notin Holding
      <3>1. IsJob([r EXCEPT !.at = "writing"]) /\ JobOK([r EXCEPT !.at = "writing"])
            /\ [r EXCEPT !.at = "writing"].at \notin Holding
        BY <1>1, <1>2 DEF IsJob, JobOK, Holding, WriteLook, At
      <3>2. QED
        BY <1>2, <3>1, IdleJob DEF WriteLook
    <2>2. UNCHANGED << files, entry, phase, newer, items, store, lock, poll, cards, count, past >>
      BY <1>2 DEF WriteLook
    <2>3. /\ DOMAIN job' = Jobs /\ \A k \in Jobs : IsJob(job'[k])
          /\ \A k \in Jobs : JobOK(job'[k])
          /\ Locked'
      BY <2>1, <2>2, ShapeOfJobs
    <2>4. TypeOK'
      BY <2>2, <2>3 DEF Shape, TypeOK, cards, count, past
    <2>5. QED
      BY <2>3, <2>4 DEF Shape
  <1>3. CASE WriteFile(j)
    <2>1. r.arg \in Doc /\ Go(j, Idle) /\ lock' = lock
      BY <1>1, <1>3 DEF WriteFile, At, JobOK
    <2>2. /\ DOMAIN job' = Jobs /\ \A k \in Jobs : IsJob(job'[k])
          /\ \A k \in Jobs : JobOK(job'[k])
          /\ Locked'
      BY <2>1, IdleJob, ShapeOfJobs
    <2>3. files' \in [Files -> Doc \cup {Broken, Absent}]
      BY <1>3, <2>1 DEF WriteFile, Shape, TypeOK
    <2>4. TypeOK'
      BY <1>3, <2>2, <2>3 DEF WriteFile, Shape, TypeOK, cards, count, past
    <2>5. QED
      BY <2>2, <2>4 DEF Shape
  <1>4. CASE Save(j, "refresh")
    <2>1. r.at = "save" /\ lock = j
      BY <1>1, <1>4 DEF Save, Holding
    <2>2. CASE Refuse(j)
      BY <2>1, <2>2, RefuseKeepsShape
    <2>3. CASE ~Refuse(j)
      <3>1. /\ store' = [store EXCEPT ![r.g] = r.out] /\ lock' = NoJob
            /\ Go(j, [r EXCEPT !.at = "refresh"])
            /\ UNCHANGED << files, entry, phase, newer, items, poll, cards, count, past >>
        BY <1>4, <2>3 DEF Save, Free
      <3>2. IsJob([r EXCEPT !.at = "refresh"]) /\ JobOK([r EXCEPT !.at = "refresh"])
            /\ [r EXCEPT !.at = "refresh"].at \notin Holding
        BY <1>1, <2>1 DEF IsJob, JobOK, Holding
      <3>3. /\ DOMAIN job' = Jobs /\ \A k \in Jobs : IsJob(job'[k])
            /\ \A k \in Jobs : JobOK(job'[k])
            /\ Locked'
        BY <2>1, <3>1, <3>2, ShapeOfJobs
      <3>4. store' \in [Entries -> Seq(Pick) \cup {NotHeld}]
        BY <1>1, <3>1 DEF Shape, TypeOK, IsJob
      <3>5. TypeOK'
        BY <3>1, <3>3, <3>4 DEF Shape, TypeOK, cards, count, past
      <3>6. QED
        BY <3>3, <3>5 DEF Shape
    <2>4. QED
      BY <2>2, <2>3
  <1>5. CASE RefreshStart(j)
    <2>1. PICK ps \in Seq(Pick) : Go(j, [r EXCEPT !.at = "polling", !.out = ps])
      <3>1. NoPicks \in Seq(Pick) /\ Held \in Seq(Pick)
        BY HeldType DEF NoPicks, Shape
      <3>2. QED
        BY <1>5, <3>1 DEF RefreshStart
    <2> DEFINE q == [r EXCEPT !.at = "polling", !.out = ps]
    <2>2. IsJob(q) /\ JobOK(q) /\ q.at \notin Holding /\ Go(j, q)
      BY <1>1, <1>5, <2>1 DEF IsJob, JobOK, Holding, RefreshStart
    <2> HIDE DEF q
    <2>3. UNCHANGED << files, entry, phase, newer, items, store, lock, poll, cards, count, past >>
      BY <1>5 DEF RefreshStart
    <2>4. /\ DOMAIN job' = Jobs /\ \A k \in Jobs : IsJob(job'[k])
          /\ \A k \in Jobs : JobOK(job'[k])
          /\ Locked'
      BY <2>2, <2>3, ShapeOfJobs
    <2>5. TypeOK'
      BY <2>3, <2>4 DEF Shape, TypeOK, cards, count, past
    <2>6. QED
      BY <2>4, <2>5 DEF Shape
  <1>6. QED
    BY <1>2, <1>3, <1>4, <1>5
LEMMA CallsShape ==
  ASSUME Shape, NEW j \in Jobs, Calls(j)
  PROVE  Shape'
  <1>1. ASSUME NEW op \in {"add", "remove", "edit", "delete", "write"}, NEW arg, Call(j, op, arg),
               op = "add" => arg \in Batches, op = "delete" => arg \in Files,
               op = "write" => arg \in Written
        PROVE  Shape'
    <2> DEFINE q == [Idle EXCEPT !.op = op, !.at = "start", !.arg = arg, !.g = entry]
    <2>1. /\ Go(j, q) /\ ops' = ops + 1 /\ ops < MaxOps
          /\ UNCHANGED << files, entry, phase, newer, items, store, lock, poll, cards, nextPick, past >>
      BY <1>1 DEF Call, Go
    <2>2. IsJob(q) /\ JobOK(q) /\ q.at \notin Holding
      <3>1. q.op = op /\ q.at = "start" /\ q.arg = arg
        BY IdleJob DEF IsJob
      <3>2. entry \in 0 .. MaxOps + 1
        BY DEF Shape, TypeOK
      <3> HIDE DEF q
      <3>3. IsJob(q)
        BY <1>1, <3>2, IdleJob DEF IsJob, q
      <3>4. JobOK(q) /\ q.at \notin Holding
        BY <1>1, <3>1 DEF JobOK, Holding
      <3>5. QED
        BY <3>3, <3>4
    <2> HIDE DEF q
    <2>3. /\ DOMAIN job' = Jobs /\ \A k \in Jobs : IsJob(job'[k])
          /\ \A k \in Jobs : JobOK(job'[k])
          /\ Locked'
      BY <2>1, <2>2, ShapeOfJobs
    <2>4. TypeOK'
      BY <2>1, <2>3 DEF Shape, TypeOK, cards, past
    <2>5. QED
      BY <2>3, <2>4 DEF Shape
  <1>2. CASE \E b \in Batches : Call(j, "add", b)
    BY <1>1, <1>2
  <1>3. CASE \E k \in shown : Call(j, "remove", k)
    BY <1>1, <1>3
  <1>4. CASE \E k \in {k \in shown : k[1] = "drive"} : Call(j, "edit", k)
    BY <1>1, <1>4
  <1>5. CASE \E f \in Files : Call(j, "delete", f)
    BY <1>1, <1>5
  <1>6. CASE \E d \in Written : Call(j, "write", d)
    BY <1>1, <1>6
  <1>7. QED
    BY <1>2, <1>3, <1>4, <1>5, <1>6 DEF Calls

LEMMA StepShape == ASSUME Shape, NEW j \in Jobs, Step(j) PROVE Shape'
  BY AddShape, RemoveShape, DeleteShape, EditShape, WriteShape DEF Step

\* What the coordinator, the user and a restart do leaves the calls alone or
\* ends them all.
LEMMA OthersShape ==
  ASSUME Shape, Present,
         \/ UserDeletesEntry \/ ForgetEntry \/ EntryLeaves \/ PollStart \/ PollEnd
         \/ \E f \in Files : RemoveByHand(f)
         \/ Restart
  PROVE  Shape'
  <1>1. Held \in Seq(Pick)
    BY HeldType DEF Shape
  <1>2. ASSUME job' = job, lock' = lock, TypeOK' PROVE Shape'
    BY <1>2 DEF Shape, Locked
  <1>3. CASE UserDeletesEntry
    <2>1. TypeOK'
      BY <1>3 DEF UserDeletesEntry, Shape, TypeOK, cards
    <2>2. QED
      BY <1>2, <1>3, <2>1 DEF UserDeletesEntry
  <1>4. CASE ForgetEntry
    <2>1. TypeOK'
      BY <1>4 DEF ForgetEntry, Shape, TypeOK, count, past
    <2>2. QED
      BY <1>2, <1>4, <2>1 DEF ForgetEntry
  <1>5. CASE EntryLeaves
    <2>1. store' \in [Entries -> Seq(Pick) \cup {NotHeld}]
      BY <1>5 DEF EntryLeaves, Shape, TypeOK
    <2>2. TypeOK'
      BY <1>5, <2>1 DEF EntryLeaves, Shape, TypeOK, count, past
    <2>3. QED
      BY <1>2, <1>5, <2>2 DEF EntryLeaves
  <1>6. CASE PollStart
    <2>1. TypeOK'
      BY <1>1, <1>6 DEF PollStart, Shape, TypeOK, cards, count, past
    <2>2. QED
      BY <1>2, <1>6, <2>1 DEF PollStart
  <1>7. CASE PollEnd
    <2>1. poll[2] \in Seq(Pick) /\ Publish(poll[1], poll[2])
      BY <1>7 DEF PollEnd, Shape, TypeOK
    <2>2. shown' \subseteq Identities /\ created' \subseteq Identities /\ devices' \subseteq Identities
      BY <2>1, PublishType DEF Shape
    <2>3. TypeOK'
      BY <1>7, <2>2 DEF PollEnd, Shape, TypeOK, count, past
    <2>4. QED
      BY <1>2, <1>7, <2>3 DEF PollEnd
  <1>8. CASE \E f \in Files : RemoveByHand(f)
    <2>1. TypeOK'
      BY <1>8 DEF RemoveByHand, Shape, TypeOK, cards
    <2>2. QED
      BY <1>2, <1>8, <2>1 DEF RemoveByHand
  <1>9. CASE Restart
    <2>1. items' \in Seq(Pick) \cup {NotHeld}
      <3>1. NoPicks \in Seq(Pick)
        BY DEF NoPicks
      <3>2. CASE phase = "none" \/ newer \/ store[entry] = NotHeld
        BY <1>9, <3>1, <3>2 DEF Restart
      <3>3. CASE ~(phase = "none" \/ newer \/ store[entry] = NotHeld)
        <4>1. items' = store[entry] /\ entry \in Entries
          BY <1>9, <3>3 DEF Restart, Present, Shape, TypeOK, Entries
        <4>2. QED
          BY <4>1 DEF Shape, TypeOK
      <3>4. QED
        BY <3>2, <3>3
    <2>2. /\ DOMAIN job' = Jobs /\ lock' = NoJob /\ \A k \in Jobs : job'[k] = Idle
      BY <1>9 DEF Restart
    <2>3. /\ \A k \in Jobs : IsJob(job'[k]) /\ JobOK(job'[k])
          /\ Locked'
      BY <2>2, IdleJob DEF Locked
    <2>4. TypeOK'
      BY <1>9, <2>1, <2>2, <2>3 DEF Restart, Shape, TypeOK, past
    <2>5. QED
      BY <2>3, <2>4 DEF Shape
  <1>10. QED
    BY <1>3, <1>4, <1>5, <1>6, <1>7, <1>8, <1>9

LEMMA InitShape == Init => Shape
  <1> SUFFICES ASSUME Init PROVE Shape
    OBVIOUS
  <1>1. NoPicks \in Seq(Pick)
    BY DEF NoPicks
  <1>2. files \in [Files -> Doc \cup {Broken, Absent}]
    BY DEF Init, Files
  <1>3. \A j \in Jobs : IsJob(job[j]) /\ JobOK(job[j]) /\ job[j].at \notin Holding
    BY IdleJob DEF Init
  <1>4. TypeOK
    BY <1>1, <1>2, <1>3 DEF Init, TypeOK
  <1>5. QED
    BY <1>3, <1>4 DEF Shape, Locked

\* Only making an entry brings one here, and numbers it.
LEMMA StayPresent == ASSUME Present, TypeOK, [Next]_vars PROVE Present'
  <1>1. entry \in Nat
    BY DEF TypeOK
  <1>2. ASSUME NEW j \in Jobs, Step(j) PROVE Present'
    <2>1. CASE AddFind(j) \/ AddDone(j) \/ RemoveLook(j) \/ RemovePolled(j) \/ ForgetPickDevice(j)
      BY <2>1 DEF Present, AddFind, AddDone, RemoveLook, RemovePolled, ForgetPickDevice, Refuse
    <2>2. CASE AddCheck(j) \/ AddMade(j)
      BY <2>2 DEF Present, AddCheck, AddMade, TakeBatch, Refuse
    <2>3. CASE AddMake(j)
      BY <1>1, <2>3 DEF Present, AddMake
    <2>4. CASE RemoveLast(j)
      BY <2>4 DEF Present, RemoveLast
    <2>5. CASE DeleteLook(j) \/ DeleteFile(j) \/ EditLook(j) \/ EditWrite(j) \/ EditDone(j)
      BY <2>5 DEF Present, DeleteLook, DeleteFile, EditLook, EditWrite, EditDone, Refuse
    <2>6. CASE WriteLook(j) \/ WriteFile(j) \/ Save(j, "refresh") \/ RefreshStart(j)
      BY <2>6 DEF Present, WriteLook, WriteFile, Save, RefreshStart, Refuse
    <2>7. QED
      BY <1>2, <2>1, <2>2, <2>3, <2>4, <2>5, <2>6 DEF Step
  <1>3. ASSUME NEW j \in Jobs, Calls(j) PROVE Present'
    BY <1>3 DEF Present, Calls, Call
  <1>4. CASE \/ UserDeletesEntry \/ ForgetEntry \/ EntryLeaves \/ PollStart \/ PollEnd
             \/ (\E f \in Files : RemoveByHand(f)) \/ Restart
    BY <1>4 DEF Present, UserDeletesEntry, ForgetEntry, EntryLeaves, PollStart, PollEnd,
                RemoveByHand, Restart
  <1>5. CASE UNCHANGED vars
    BY <1>5 DEF Present, vars
  <1>6. QED
    BY <1>2, <1>3, <1>4, <1>5 DEF Next

LEMMA NextShape == ASSUME Shape, Present, [Next]_vars PROVE Shape'
  <1>1. CASE UNCHANGED vars
    BY <1>1 DEF vars, cards, count, past, Shape, TypeOK, Locked
  <1>2. QED
    BY <1>1, CallsShape, StepShape, OthersShape DEF Next

\* Every reachable state has its type, and the lock is held by the call that
\* is under it.
THEOREM TypeCorrect == Spec => []TypeOK
  <1>1. Shape => TypeOK
    BY DEF Shape
  <1>2. Init => Present
    BY DEF Init, Present
  <1>3. Shape /\ Present /\ [Next]_vars => Shape' /\ Present'
    BY NextShape, StayPresent DEF Shape
  <1>4. QED
    BY <1>1, <1>2, <1>3, InitShape, PTL DEF Spec
-----------------------------------------------------------------------------
(* The cards keep apart                                                      *)

OfKind(ps, k) == {n \in DOMAIN ps : ps[n].kind = k}

Kinds == {"drive", "pool"}

\* Picks that keep apart, with ids from before id.
Apart(ps, id) ==
    /\ \A m, n \in DOMAIN ps :
         m # n => /\ ps[m].id # ps[n].id
                  /\ ps[m].kind = ps[n].kind => ps[m].name # ps[n].name
    /\ \A n \in DOMAIN ps : ps[n].id < id
    /\ \A k \in Kinds : Cardinality(OfKind(ps, k)) <= CapOf(k)

AllApart ==
    /\ items # NotHeld => Apart(items, nextPick)
    /\ \A g \in Entries : store[g] # NotHeld => Apart(store[g], nextPick)
    /\ \A j \in Jobs : job[j].at = "save" => Apart(job[j].out, nextPick)

LEMMA OfKindFinite ==
  ASSUME NEW ps \in Seq(Pick), NEW k
  PROVE  IsFiniteSet(OfKind(ps, k)) /\ Cardinality(OfKind(ps, k)) \in Nat
  <1>1. IsFiniteSet(1 .. Len(ps))
    BY FS_Interval
  <1>2. OfKind(ps, k) \subseteq 1 .. Len(ps)
    BY DEF OfKind
  <1>3. QED
    BY <1>1, <1>2, FS_Subset, FS_CardinalityType

LEMMA CapType == \A k : CapOf(k) \in Nat
  BY DEF CapOf

LEMMA NoneApart == ASSUME NEW id PROVE Apart(NoPicks, id)
  <1>1. \A k : OfKind(NoPicks, k) = {}
    BY DEF OfKind, NoPicks
  <1>2. \A k : Cardinality(OfKind(NoPicks, k)) = 0
    BY <1>1, FS_EmptySet
  <1>3. \A k : 0 <= CapOf(k)
    BY CapType
  <1>4. \A k : Cardinality(OfKind(NoPicks, k)) <= CapOf(k)
    BY <1>2, <1>3
  <1>5. QED
    BY <1>4 DEF Apart, NoPicks

LEMMA ApartLater ==
  ASSUME NEW ps \in Seq(Pick), NEW id \in Nat, NEW later \in Nat, id <= later, Apart(ps, id)
  PROVE  Apart(ps, later)
  <1>1. \A n \in DOMAIN ps : ps[n].id \in Nat
    <2>1. \A n \in DOMAIN ps : ps[n] \in Pick
      OBVIOUS
    <2>2. QED
      BY <2>1 DEF Pick
  <1>2. QED
    BY <1>1 DEF Apart

\* Fewer picks, or the same ones in another file.
LEMMA ApartPart ==
  ASSUME NEW ps \in Seq(Pick), NEW id \in Nat, Apart(ps, id), NEW qs \in Seq(Pick),
         NEW f \in [DOMAIN qs -> DOMAIN ps],
         \A i, n \in DOMAIN qs : i # n => f[i] # f[n],
         \A i \in DOMAIN qs : /\ qs[i].id = ps[f[i]].id /\ qs[i].kind = ps[f[i]].kind
                              /\ qs[i].name = ps[f[i]].name
  PROVE  Apart(qs, id)
  <1>1. ASSUME NEW k \in Kinds PROVE Cardinality(OfKind(qs, k)) <= CapOf(k)
    <2> DEFINE S == OfKind(qs, k)
               T == OfKind(ps, k)
               h == [i \in S |-> f[i]]
    <2>1. h \in [S -> T] /\ \A i, n \in S : i # n => h[i] # h[n]
      BY DEF OfKind
    <2>2. h \in Injection(S, T)
      BY <2>1 DEF Injection, IsInjective
    <2>3. IsFiniteSet(T) /\ Cardinality(T) \in Nat /\ Cardinality(S) \in Nat
      BY OfKindFinite
    <2> HIDE DEF h
    <2>4. Cardinality(S) <= Cardinality(T)
      BY <2>2, <2>3, FS_Injection
    <2>5. Cardinality(T) <= CapOf(k) /\ CapOf(k) \in Nat
      BY CapType DEF Apart
    <2> HIDE DEF S, T
    <2>6. Cardinality(S) <= CapOf(k)
      BY <2>3, <2>4, <2>5
    <2>7. QED
      BY <2>6 DEF S
  <1>2. \A m, n \in DOMAIN qs :
          m # n => /\ qs[m].id # qs[n].id
                   /\ qs[m].kind = qs[n].kind => qs[m].name # qs[n].name
    <2> SUFFICES ASSUME NEW m \in DOMAIN qs, NEW n \in DOMAIN qs, m # n
                 PROVE  /\ qs[m].id # qs[n].id
                        /\ qs[m].kind = qs[n].kind => qs[m].name # qs[n].name
      OBVIOUS
    <2>1. f[m] \in DOMAIN ps /\ f[n] \in DOMAIN ps /\ f[m] # f[n]
      OBVIOUS
    <2>2. QED
      BY <2>1 DEF Apart
  <1>3. \A n \in DOMAIN qs : qs[n].id < id
    <2> TAKE n \in DOMAIN qs
    <2>1. f[n] \in DOMAIN ps /\ qs[n].id = ps[f[n]].id
      OBVIOUS
    <2>2. QED
      BY <2>1 DEF Apart
  <1>4. QED
    BY <1>1, <1>2, <1>3 DEF Apart

LEMMA ApartWithout ==
  ASSUME NEW ps \in Seq(Pick), NEW id \in Nat, Apart(ps, id), NEW n \in DOMAIN ps
  PROVE  Apart(Without(ps, n), id)
  <1> DEFINE qs == Without(ps, n)
             f == [i \in DOMAIN qs |-> IF i < n THEN i ELSE i + 1]
  <1>1. /\ qs \in Seq(Pick) /\ DOMAIN qs = 1 .. Len(ps) - 1
        /\ \A i \in 1 .. Len(ps) - 1 : qs[i] = ps[IF i < n THEN i ELSE i + 1]
    BY WithoutType
  <1>2. n \in 1 .. Len(ps) /\ Len(ps) \in Nat /\ DOMAIN ps = 1 .. Len(ps)
    OBVIOUS
  <1> HIDE DEF qs
  <1>3. /\ f \in [DOMAIN qs -> DOMAIN ps]
        /\ \A i, m \in DOMAIN qs : i # m => f[i] # f[m]
        /\ \A i \in DOMAIN qs : qs[i] = ps[f[i]]
    BY <1>1, <1>2
  <1> HIDE DEF f
  <1>4. Apart(qs, id)
    BY <1>1, <1>3, ApartPart
  <1>5. QED
    BY <1>4 DEF qs
LEMMA ApartSwitch ==
  ASSUME NEW ps \in Seq(Pick), NEW id \in Nat, Apart(ps, id), NEW p, NEW f \in Files
  PROVE  Apart([i \in DOMAIN ps |-> IF ps[i].id = p.id THEN [ps[i] EXCEPT !.file = f] ELSE ps[i]], id)
  <1> DEFINE qs == [i \in DOMAIN ps |-> IF ps[i].id = p.id THEN [ps[i] EXCEPT !.file = f] ELSE ps[i]]
             h == [i \in DOMAIN qs |-> i]
  <1>1. qs \in Seq(Pick)
    BY SwitchType
  <1>2. \A i \in DOMAIN ps : ps[i] \in Pick
    OBVIOUS
  <1>3. DOMAIN qs = DOMAIN ps /\ \A i \in DOMAIN qs : /\ qs[i].id = ps[i].id
                                                      /\ qs[i].kind = ps[i].kind
                                                      /\ qs[i].name = ps[i].name
    BY <1>2 DEF Pick
  <1> HIDE DEF qs
  <1>4. /\ h \in [DOMAIN qs -> DOMAIN ps]
        /\ \A i, m \in DOMAIN qs : i # m => h[i] # h[m]
        /\ \A i \in DOMAIN qs : h[i] = i
    BY <1>3
  <1> HIDE DEF h
  <1>5. Apart(qs, id)
    BY <1>1, <1>3, <1>4, ApartPart
  <1>6. QED
    BY <1>5 DEF qs

LEMMA LeastExists ==
  ASSUME NEW S, S \subseteq Nat, S # {}
  PROVE  \E k \in S : \A n \in S : k <= n
  <1> DEFINE R == OpToRel(<, Nat)
  <1>1. IsWellFoundedOn(R, Nat)
    BY NatLessThanWellFounded
  <1>2. \A n, k \in Nat : n < k => << n, k >> \in R
    BY DEF OpToRel
  <1> HIDE DEF R
  <1>3. PICK k \in S : \A n \in S : ~(<< n, k >> \in R)
    BY <1>1, WFMin
  <1>4. \A n \in S : ~(n < k)
    BY <1>2, <1>3
  <1>5. QED
    BY <1>4

LEMMA GreatestExists ==
  ASSUME NEW len \in Nat, NEW B, B \subseteq 1 .. len, B # {}
  PROVE  \E i \in B : \A n \in B : n <= i
  <1> DEFINE S == {d \in Nat : \E i \in B : d = len - i}
  <1>1. S # {}
    <2>1. PICK i \in B : TRUE
      OBVIOUS
    <2>2. len - i \in S
      BY <2>1
    <2>3. QED
      BY <2>2
  <1>2. PICK d \in S : \A n \in S : d <= n
    BY <1>1, LeastExists
  <1>3. PICK i \in B : d = len - i
    BY <1>2
  <1>4. \A n \in B : n <= i
    <2> TAKE n \in B
    <2>1. n \in 1 .. len /\ i \in 1 .. len
      OBVIOUS
    <2>2. len - n \in S
      BY <2>1
    <2> HIDE DEF S
    <2>3. len - i <= len - n
      BY <1>2, <1>3, <2>2
    <2>4. QED
      BY <2>1, <2>3
  <1>5. QED
    BY <1>4

\* new_pick counts what the batch has added already, so a batch that fits
\* fits as a whole.
LEMMA BatchFits ==
  ASSUME NEW ps \in Seq(Pick), NEW recs \in Seq(Files \X Doc), FitsCaps(recs, ps),
         NEW new \in Seq(Pick), Len(new) = Len(recs),
         \A i \in 1 .. Len(recs) : new[i].kind = recs[i][2].kind,
         NEW k \in Kinds, Cardinality(OfKind(ps, k)) <= CapOf(k)
  PROVE  Cardinality(OfKind(ps, k)) + Cardinality(OfKind(new, k)) <= CapOf(k)
  <1> DEFINE B == OfKind(new, k)
  <1>1. Cardinality(OfKind(ps, k)) \in Nat /\ CapOf(k) \in Nat
    BY OfKindFinite, CapType
  <1>2. CASE B = {}
    <2>1. Cardinality(B) = 0
      BY <1>2, FS_EmptySet
    <2> HIDE DEF B
    <2>2. Cardinality(OfKind(ps, k)) + Cardinality(B) <= CapOf(k)
      BY <1>1, <2>1
    <2>3. QED
      BY <2>2 DEF B
  <1>3. CASE B # {}
    <2>1. Len(recs) \in Nat /\ B \subseteq 1 .. Len(recs) /\ DOMAIN recs = 1 .. Len(recs)
      BY DEF OfKind
    <2>2. PICK i \in B : \A n \in B : n <= i
      BY <1>3, <2>1, GreatestExists
    <2> DEFINE E == EarlierOf(recs, i, k)
    <2>3. i \in DOMAIN recs /\ recs[i][2].kind = k
      BY <2>1, <2>2 DEF OfKind
    <2>4. B = E \cup {i} /\ i \notin E /\ E \subseteq B
      <3>1. \A n \in B : n < i => n \in E
        BY <2>1, <2>2, <2>3 DEF OfKind, EarlierOf
      <3>2. \A n \in E : n \in B /\ n # i
        BY <2>1, <2>2, <2>3 DEF OfKind, EarlierOf
      <3>3. \A n \in B : n < i \/ n = i
        BY <2>1, <2>2
      <3> HIDE DEF B, E
      <3>4. QED
        BY <2>2, <3>1, <3>2, <3>3
    <2>5. IsFiniteSet(B)
      BY OfKindFinite
    <2> HIDE DEF B, E
    <2>6. IsFiniteSet(E) /\ Cardinality(E) \in Nat
      BY <2>4, <2>5, FS_Subset, FS_CardinalityType
    <2>7. Cardinality(B) = Cardinality(E) + 1
      BY <2>4, <2>6, FS_AddElement
    <2>8. Cardinality(OfKind(ps, k)) + Cardinality(E) < CapOf(k)
      BY <2>3 DEF FitsCaps, OfKind, E
    <2>9. Cardinality(OfKind(ps, k)) + Cardinality(B) <= CapOf(k)
      BY <1>1, <2>6, <2>7, <2>8
    <2>10. QED
      BY <2>9 DEF B
  <1>4. QED
    BY <1>2, <1>3
LEMMA ApartBatch ==
  ASSUME NEW ps \in Seq(Pick), NEW id \in Nat, Apart(ps, id),
         NEW recs \in Seq(Files \X Doc), NEW names \in [DOMAIN recs -> Numbers],
         FitsCaps(recs, ps), FreeNames(recs, ps, names)
  PROVE  Apart(ps \o NewPicks(recs, names, id), id + Len(recs))
  <1> DEFINE new == NewPicks(recs, names, id)
             qs == ps \o new
             len == Len(ps)
  <1>1. /\ new \in Seq(Pick) /\ Len(new) = Len(recs) /\ Len(recs) \in Nat /\ len \in Nat
        /\ DOMAIN recs = 1 .. Len(recs) /\ DOMAIN ps = 1 .. len
    <2>1. new \in Seq(Pick) /\ Len(new) = Len(recs)
      BY NewPicksType
    <2> HIDE DEF new
    <2>2. QED
      BY <2>1
  <1>2. \A i \in 1 .. Len(recs) : /\ new[i].id = id + i - 1
                                  /\ new[i].kind = recs[i][2].kind /\ new[i].name = names[i]
    BY <1>1 DEF NewPicks
  <1> HIDE DEF new
  <1>3. /\ qs \in Seq(Pick) /\ DOMAIN qs = 1 .. len + Len(recs)
        /\ \A i \in 1 .. len : qs[i] = ps[i]
        /\ \A i \in 1 .. Len(recs) : qs[len + i] = new[i]
    <2>1. /\ ps \o new \in Seq(Pick)
          /\ Len(ps \o new) = Len(ps) + Len(new)
          /\ \A i \in 1 .. Len(ps) + Len(new) : (ps \o new)[i] =
                IF i <= Len(ps) THEN ps[i] ELSE new[i - Len(ps)]
      <3>1. ps \in Seq(Pick) /\ new \in Seq(Pick)
        BY <1>1
      <3>2. QED
        BY <3>1, ConcatProperties, Zenon
    <2>2. /\ qs \in Seq(Pick) /\ Len(qs) = Len(ps) + Len(new)
          /\ \A i \in 1 .. Len(ps) + Len(new) :
               qs[i] = IF i <= Len(ps) THEN ps[i] ELSE new[i - Len(ps)]
      BY <2>1
    <2> HIDE DEF qs
    <2>3. \A i \in 1 .. len : qs[i] = ps[i]
      BY <1>1, <2>2
    <2>4. \A i \in 1 .. Len(recs) : qs[len + i] = new[i]
      <3> TAKE i \in 1 .. Len(recs)
      <3>1. len + i \in 1 .. Len(ps) + Len(new) /\ ~(len + i <= Len(ps)) /\ (len + i) - Len(ps) = i
        BY <1>1
      <3>2. QED
        BY <2>2, <3>1
    <2>5. DOMAIN qs = 1 .. len + Len(recs)
      BY <1>1, <2>2
    <2>6. QED
      BY <2>2, <2>3, <2>4, <2>5
  <1> HIDE DEF qs
  <1>4. \A i \in DOMAIN qs : i \in 1 .. len \/ \E n \in 1 .. Len(recs) : i = len + n
    <2> TAKE i \in DOMAIN qs
    <2>1. i <= len \/ (i - len \in 1 .. Len(recs) /\ i = len + (i - len))
      BY <1>1, <1>3
    <2>2. QED
      BY <1>1, <1>3, <2>1
  <1>5. \A i \in 1 .. Len(recs), n \in 1 .. len :
           ps[n].kind = new[i].kind => ps[n].name # new[i].name
    <2> TAKE i \in 1 .. Len(recs), n \in 1 .. len
    <2>1. names[i] \notin NamesOf(ps, recs[i][2].kind)
      BY <1>1 DEF FreeNames, IsFreeName
    <2>2. ps[n].kind = recs[i][2].kind => ps[n].name \in NamesOf(ps, recs[i][2].kind)
      BY <1>1 DEF NamesOf
    <2>3. QED
      BY <1>2, <2>1, <2>2
  <1>6. \A i, m \in 1 .. Len(recs) :
           m < i /\ new[m].kind = new[i].kind => new[m].name # new[i].name
    <2> SUFFICES ASSUME NEW i \in 1 .. Len(recs), NEW m \in 1 .. Len(recs), m < i,
                        new[m].kind = new[i].kind
                 PROVE  new[m].name # new[i].name
      OBVIOUS
    <2>1. m \in EarlierOf(recs, i, recs[i][2].kind)
      BY <1>1, <1>2 DEF EarlierOf
    <2>2. names[i] \notin {names[n] : n \in EarlierOf(recs, i, recs[i][2].kind)}
      BY <1>1 DEF FreeNames, IsFreeName
    <2>3. QED
      BY <1>2, <2>1, <2>2
  <1>7. \A n \in 1 .. len : ps[n].id < id /\ ps[n].id \in Nat
    <2>1. \A n \in 1 .. len : ps[n] \in Pick
      BY <1>1
    <2>2. QED
      BY <1>1, <2>1 DEF Apart, Pick
  <1>8. ASSUME NEW m \in DOMAIN qs, NEW n \in DOMAIN qs, m < n
        PROVE  /\ qs[m].id # qs[n].id
               /\ qs[m].kind = qs[n].kind => qs[m].name # qs[n].name
    <2>1. CASE n \in 1 .. len
      <3>1. m \in 1 .. len
        BY <1>1, <1>3, <1>8, <2>1
      <3>2. QED
        <4>1. qs[m] = ps[m] /\ qs[n] = ps[n] /\ m \in DOMAIN ps /\ n \in DOMAIN ps /\ m # n
          BY <1>1, <1>3, <1>8, <2>1, <3>1
        <4>2. QED
          BY <4>1 DEF Apart
    <2>2. CASE \E i \in 1 .. Len(recs) : n = len + i
      <3>1. PICK i \in 1 .. Len(recs) : n = len + i
        BY <2>2
      <3>2. qs[n] = new[i] /\ new[i].id = id + i - 1
        BY <1>2, <1>3, <3>1
      <3>3. CASE m \in 1 .. len
        <4>1. qs[m] = ps[m] /\ ps[m].id < id /\ ps[m].id \in Nat
          BY <1>3, <1>7, <3>3
        <4>2. qs[m].id # qs[n].id
          BY <3>1, <3>2, <4>1
        <4>3. qs[m].kind = qs[n].kind => qs[m].name # qs[n].name
          BY <1>5, <3>1, <3>2, <3>3, <4>1
        <4>4. QED
          BY <4>2, <4>3
      <3>4. CASE \E h \in 1 .. Len(recs) : m = len + h
        <4>1. PICK h \in 1 .. Len(recs) : m = len + h
          BY <3>4
        <4>2. qs[m] = new[h] /\ new[h].id = id + h - 1 /\ h < i
          BY <1>1, <1>2, <1>3, <1>8, <3>1, <4>1
        <4>3. QED
          BY <1>6, <3>2, <4>2
      <3>5. QED
        BY <1>4, <3>3, <3>4
    <2>3. QED
      BY <1>4, <2>1, <2>2
  <1>9. \A m, n \in DOMAIN qs :
          m # n => /\ qs[m].id # qs[n].id
                   /\ qs[m].kind = qs[n].kind => qs[m].name # qs[n].name
    <2> SUFFICES ASSUME NEW m \in DOMAIN qs, NEW n \in DOMAIN qs, m # n
                 PROVE  /\ qs[m].id # qs[n].id
                        /\ qs[m].kind = qs[n].kind => qs[m].name # qs[n].name
      OBVIOUS
    <2>1. m < n \/ n < m
      BY <1>1, <1>3
    <2>2. CASE m < n
      BY <1>8, <2>2
    <2>3. CASE n < m
      BY <1>8, <2>3
    <2>4. QED
      BY <2>1, <2>2, <2>3
  <1>10. \A n \in DOMAIN qs : qs[n].id < id + Len(recs)
    <2> TAKE n \in DOMAIN qs
    <2>1. CASE n \in 1 .. len
      BY <1>1, <1>3, <1>7, <2>1
    <2>2. CASE \E i \in 1 .. Len(recs) : n = len + i
      <3>1. PICK i \in 1 .. Len(recs) : n = len + i
        BY <2>2
      <3>2. qs[n].id = id + i - 1
        BY <1>2, <1>3, <3>1
      <3>3. QED
        BY <1>1, <3>2
    <2>3. QED
      BY <1>4, <2>1, <2>2
  <1>11. ASSUME NEW k \in Kinds PROVE Cardinality(OfKind(qs, k)) <= CapOf(k)
    <2> DEFINE A == OfKind(ps, k)
               B == OfKind(new, k)
               C == OfKind(qs, k) \ A
               h == [x \in C |-> x - len]
    <2>1. Cardinality(A) + Cardinality(B) <= CapOf(k) /\ CapOf(k) \in Nat
      BY <1>1, <1>2, BatchFits, CapType DEF Apart
    <2>2. IsFiniteSet(A) /\ Cardinality(A) \in Nat /\ IsFiniteSet(B) /\ Cardinality(B) \in Nat
      BY <1>1, OfKindFinite
    <2>3. A \subseteq OfKind(qs, k)
      BY <1>1, <1>3 DEF OfKind
    <2>4. \A x \in C : x \in Nat /\ x - len \in B
      <3> TAKE x \in C
      <3>1. x \in DOMAIN qs /\ qs[x].kind = k /\ x \notin 1 .. len
        BY <1>1, <1>3 DEF OfKind
      <3>2. PICK i \in 1 .. Len(recs) : x = len + i
        BY <1>4, <3>1
      <3>3. i \in B
        BY <1>1, <1>3, <3>1, <3>2 DEF OfKind
      <3>4. x \in Nat /\ x - len = i
        BY <1>1, <3>2
      <3>5. QED
        BY <3>3, <3>4
    <2>5. h \in Injection(C, B)
      <3> HIDE DEF B, C
      <3>1. h \in [C -> B]
        BY <2>4
      <3>2. \A x, y \in C : h[x] = h[y] => x = y
        BY <1>1, <2>4
      <3> HIDE DEF h
      <3>3. QED
        BY <3>1, <3>2 DEF Injection, IsInjective
    <2> HIDE DEF A, B, C, h
    <2>6. IsFiniteSet(C) /\ Cardinality(C) <= Cardinality(B)
      BY <2>2, <2>5, FS_Injection
    <2>7. Cardinality(C) \in Nat /\ OfKind(qs, k) = A \cup C
      BY <2>3, <2>6, FS_CardinalityType DEF C
    <2>8. IsFiniteSet(A \cap C) /\ Cardinality(A \cap C) \in Nat
      BY <2>2, FS_Subset, FS_CardinalityType
    <2>9. Cardinality(A \cup C) = Cardinality(A) + Cardinality(C) - Cardinality(A \cap C)
      BY <2>2, <2>6, FS_Union
    <2>10. Cardinality(A \cup C) <= CapOf(k)
      BY <2>1, <2>2, <2>6, <2>7, <2>8, <2>9
    <2>11. QED
      BY <2>7, <2>10
  <1>12. Apart(qs, id + Len(recs))
    BY <1>9, <1>10, <1>11 DEF Apart
  <1>13. QED
    BY <1>12 DEF qs, new
LEMMA HeldApart ==
  ASSUME Shape, AllApart
  PROVE  Apart(Held, nextPick)
  <1>1. CASE items # NotHeld
    BY <1>1 DEF AllApart, Held
  <1>2. CASE items = NotHeld /\ (newer \/ entry = 0 \/ store[entry] = NotHeld)
    BY <1>2, NoneApart DEF Held
  <1>3. CASE items = NotHeld /\ ~(newer \/ entry = 0 \/ store[entry] = NotHeld)
    <2>1. entry \in Entries
      BY <1>3 DEF Shape, TypeOK, Entries
    <2>2. QED
      BY <1>3, <2>1 DEF AllApart, Held
  <1>4. QED
    BY <1>1, <1>2, <1>3

\* A batch is refused, waits for an entry, or is taken and its save begins.
BatchTaken(j) ==
    /\ job[j].op = "add" /\ lock = j /\ job[j].arg \in Seq(Files \X Doc)
    /\ EntryFound /\ FitsCaps(job[j].arg, Held)
    /\ UNCHANGED << files, entry, phase, newer, store, lock, poll, cards, past, ops >>
    /\ nextPick' = nextPick + Len(job[j].arg)
    /\ \E names \in [DOMAIN job[j].arg -> Numbers] :
         LET mine == NewPicks(job[j].arg, names, nextPick) IN
         /\ FreeNames(job[j].arg, Held, names)
         /\ items' = Held \o mine
         /\ Go(j, [job[j] EXCEPT !.at = "save", !.g = entry, !.out = Held \o mine, !.mine = mine])

LEMMA AddCases ==
  ASSUME Shape, NEW j \in Jobs, AddCheck(j) \/ AddMade(j)
  PROVE  \/ BatchTaken(j)
         \/ Refuse(j)
         \/ /\ AddCheck(j) /\ ~EntryFound /\ Go(j, [job[j] EXCEPT !.at = "make"])
            /\ UNCHANGED << files, entry, phase, newer, items, store, lock, poll, cards, count, past >>
  <1>1. IsJob(job[j]) /\ JobOK(job[j]) /\ (job[j].at \in Holding => lock = j)
    BY DEF Shape, TypeOK, Locked
  <1>2. job[j].op = "add" /\ lock = j /\ job[j].arg \in Seq(Files \X Doc)
    BY <1>1 DEF AddCheck, AddMade, At, JobOK, Holding
  <1>3. CASE EntryFound
    <2>1. TakeBatch(j)
      BY <1>3 DEF AddCheck, AddMade
    <2>2. QED
      BY <1>2, <1>3, <2>1 DEF TakeBatch, BatchTaken
  <1>4. CASE ~EntryFound
    BY <1>4 DEF AddCheck, AddMade
  <1>5. QED
    BY <1>3, <1>4

\* The same for a card that is removed.
PickTaken(j) ==
    /\ lock = NoJob /\ Addressed(j)
    /\ UNCHANGED << files, entry, phase, newer, store, poll, cards, count, acked, byHand >>
    /\ \E n \in Behind(j) :
         /\ dropped' = dropped \cup {<< "pick", Held[n].id >>}
         /\ \/ /\ lock' = NoJob /\ items' = items
               /\ Go(j, [job[j] EXCEPT !.at = "last", !.mine = << Held[n] >>])
            \/ /\ lock' = j /\ items' = Without(Held, n)
               /\ Go(j, [job[j] EXCEPT !.at = "save", !.mine = << Held[n] >>, !.out = Without(Held, n)])

LEMMA RemoveCases ==
  ASSUME NEW j \in Jobs, RemoveLook(j)
  PROVE  PickTaken(j) \/ (Refuse(j) /\ lock = NoJob)
  BY DEF RemoveLook, Takes, Free, PickTaken

\* And for one that is changed to a copy of its file.
SwitchedTo(n, p) ==
    [i \in DOMAIN Held |->
        IF Held[i].id = p.id THEN [Held[i] EXCEPT !.file = << "user", n >>] ELSE Held[i]]

Copied(j, n, p, doc) ==
    /\ files[<< "user", n >>] = Absent /\ doc # Absent
    /\ files' = [files EXCEPT ![<< "user", n >>] = doc]
    /\ items' = SwitchedTo(n, p)
    /\ Go(j, [job[j] EXCEPT !.at = "save", !.out = SwitchedTo(n, p)])

CopyTaken(j) ==
    /\ job[j].op = "edit" /\ job[j].at = "write" /\ lock = j
    /\ UNCHANGED << entry, phase, newer, store, lock, poll, cards, count, past >>
    /\ \E n \in UserSlots : \E p, doc : Copied(j, n, p, doc)

LEMMA EditCases ==
  ASSUME Shape, NEW j \in Jobs, EditWrite(j)
  PROVE  \/ CopyTaken(j)
         \/ Refuse(j)
         \/ /\ lock' = NoJob /\ Go(j, [job[j] EXCEPT !.at = "refresh"])
            /\ UNCHANGED << files, entry, phase, newer, items, store, poll, cards, count, past >>
  <1> DEFINE r == job[j]
             p == r.mine[1]
  <1>1. IsJob(r) /\ JobOK(r) /\ (r.at \in Holding => lock = j)
    BY DEF Shape, TypeOK, Locked
  <1>2. r.op = "edit" /\ r.at = "write" /\ lock = j /\ p \in Pick
    <2>1. r.op = "edit" /\ r.at = "write" /\ r.mine # << >>
      BY <1>1 DEF EditWrite, At, JobOK
    <2>2. r.mine \in Seq(Pick)
      BY <1>1 DEF IsJob
    <2>3. QED
      BY <1>1, <2>1, <2>2 DEF Holding
  <1>3. ASSUME p.file[1] # "user"
        PROVE  SeedDoc[p.file[2]] # Absent
    <2>1. p.file[2] \in Seeds
      BY <1>2, <1>3 DEF Pick, Files
    <2>2. SeedDoc[p.file[2]] \in Doc \cup {Broken}
      BY <2>1
    <2>3. QED
      BY <2>2 DEF Doc, Broken, Absent
  <1>4. CASE /\ p.file[1] # "user" /\ ~FolderFull
             /\ \E n \in {n \in UserSlots : files[<< "user", n >>] = Absent} :
                  LET work == [i \in DOMAIN Held |->
                                 IF Held[i].id = p.id
                                 THEN [Held[i] EXCEPT !.file = << "user", n >>]
                                 ELSE Held[i]]
                  IN /\ files' = [files EXCEPT ![<< "user", n >>] = SeedDoc[p.file[2]]]
                     /\ items' = work
                     /\ Go(j, [job[j] EXCEPT !.at = "save", !.out = work])
             /\ UNCHANGED << entry, phase, newer, store, lock, poll, cards, count, past >>
    <2>1. PICK n \in UserSlots :
                  LET work == [i \in DOMAIN Held |->
                                 IF Held[i].id = p.id
                                 THEN [Held[i] EXCEPT !.file = << "user", n >>]
                                 ELSE Held[i]]
                  IN /\ files[<< "user", n >>] = Absent
                     /\ files' = [files EXCEPT ![<< "user", n >>] = SeedDoc[p.file[2]]]
                     /\ items' = work
                     /\ Go(j, [job[j] EXCEPT !.at = "save", !.out = work])
      BY <1>4
    <2>2. Copied(j, n, p, SeedDoc[p.file[2]])
      BY <1>3, <1>4, <2>1 DEF Copied, SwitchedTo
    <2>3. CopyTaken(j)
      BY <1>2, <1>4, <2>2 DEF CopyTaken
    <2>4. QED
      BY <2>3
  <1>5. QED
    BY <1>4 DEF EditWrite, Free
\* The steps that leave the picks alone.
PlainStep(j) ==
    \/ AddFind(j) \/ AddDone(j) \/ RemovePolled(j) \/ ForgetPickDevice(j) \/ RemoveLast(j)
    \/ DeleteLook(j) \/ DeleteFile(j) \/ EditLook(j) \/ EditDone(j)
    \/ WriteLook(j) \/ WriteFile(j) \/ RefreshStart(j)

LEMMA PlainMoves ==
  ASSUME Shape, NEW j \in Jobs, PlainStep(j)
  PROVE  /\ UNCHANGED << entry, newer, items, store, count, dropped, byHand >>
         /\ DOMAIN job' = Jobs /\ \A k \in Jobs : k # j => job'[k] = job[k]
         /\ job'[j].at \notin {"save", "make", "made"}
  <1> DEFINE r == job[j]
  <1>1. IsJob(r)
    BY DEF Shape, TypeOK
  <1>2. ASSUME NEW q, Go(j, q), q.at \notin {"save", "make", "made"}
        PROVE  /\ DOMAIN job' = Jobs /\ \A k \in Jobs : k # j => job'[k] = job[k]
               /\ job'[j].at \notin {"save", "make", "made"}
    BY <1>2, GoMoves DEF Shape
  <1>3. \A a \in {"forget", "unlink", "writing"} :
           [r EXCEPT !.at = a].at \notin {"save", "make", "made"}
    BY <1>1 DEF IsJob
  <1>4. \A x, y : /\ [r EXCEPT !.at = "found", !.arg = x].at = "found"
                  /\ [r EXCEPT !.at = "write", !.mine = x].at = "write"
                  /\ [r EXCEPT !.at = "polling", !.out = x].at = "polling"
    BY <1>1 DEF IsJob
  <1>5. Idle.at = "idle"
    BY DEF Idle
  <1>6. UNCHANGED << entry, newer, items, store, count, dropped, byHand >>
    BY DEF PlainStep, AddFind, AddDone, RemovePolled, ForgetPickDevice, RemoveLast, DeleteLook,
           DeleteFile, EditLook, EditDone, WriteLook, WriteFile, RefreshStart, Refuse, past
  <1>7. CASE AddFind(j) \/ AddDone(j)
    <2>1. Go(j, Idle) \/ \E x : Go(j, [r EXCEPT !.at = "found", !.arg = x])
      BY <1>7 DEF AddFind, AddDone, Refuse
    <2>2. QED
      BY <1>2, <1>4, <1>5, <1>6, <2>1
  <1>8. CASE RemovePolled(j) \/ ForgetPickDevice(j) \/ RemoveLast(j)
    <2>1. Go(j, Idle) \/ Go(j, [r EXCEPT !.at = "forget"])
      BY <1>8 DEF RemovePolled, ForgetPickDevice, RemoveLast
    <2>2. QED
      BY <1>2, <1>3, <1>5, <1>6, <2>1
  <1>9. CASE DeleteLook(j) \/ DeleteFile(j)
    <2>1. Go(j, Idle) \/ Go(j, [r EXCEPT !.at = "unlink"])
      BY <1>9 DEF DeleteLook, DeleteFile, Refuse
    <2>2. QED
      BY <1>2, <1>3, <1>5, <1>6, <2>1
  <1>10. CASE EditLook(j) \/ EditDone(j)
    <2>1. Go(j, Idle) \/ \E x : Go(j, [r EXCEPT !.at = "write", !.mine = x])
      BY <1>10 DEF EditLook, EditDone, Refuse
    <2>2. QED
      BY <1>2, <1>4, <1>5, <1>6, <2>1
  <1>11. CASE WriteLook(j) \/ WriteFile(j)
    <2>1. Go(j, Idle) \/ Go(j, [r EXCEPT !.at = "writing"])
      BY <1>11 DEF WriteLook, WriteFile
    <2>2. QED
      BY <1>2, <1>3, <1>5, <1>6, <2>1
  <1>12. CASE RefreshStart(j)
    <2>1. \E x : Go(j, [r EXCEPT !.at = "polling", !.out = x])
      BY <1>12 DEF RefreshStart
    <2>2. QED
      BY <1>2, <1>4, <1>6, <2>1
  <1>13. QED
    BY <1>7, <1>8, <1>9, <1>10, <1>11, <1>12 DEF PlainStep

LEMMA RefuseMoves ==
  ASSUME Shape, NEW j \in Jobs, Refuse(j)
  PROVE  /\ UNCHANGED << files, entry, phase, newer, items, store, poll, cards, count, past >>
         /\ DOMAIN job' = Jobs /\ \A k \in Jobs : k # j => job'[k] = job[k]
         /\ job'[j] = Idle /\ Idle.at = "idle"
  BY GoMoves DEF Refuse, Shape, Idle

LEMMA CallMoves ==
  ASSUME Shape, NEW j \in Jobs, Calls(j)
  PROVE  /\ UNCHANGED << files, entry, phase, newer, items, store, lock, poll, cards, nextPick, past >>
         /\ DOMAIN job' = Jobs /\ \A k \in Jobs : k # j => job'[k] = job[k]
         /\ job'[j].at = "start"
  <1>1. PICK op, arg : Call(j, op, arg)
    BY DEF Calls
  <1>2. Go(j, [Idle EXCEPT !.op = op, !.at = "start", !.arg = arg, !.g = entry])
    BY <1>1 DEF Call, Go
  <1>3. [Idle EXCEPT !.op = op, !.at = "start", !.arg = arg, !.g = entry].at = "start"
    BY IdleJob DEF IsJob
  <1>4. QED
    BY <1>1, <1>2, <1>3, GoMoves DEF Call, Shape

LEMMA StepCases ==
  ASSUME NEW j \in Jobs, Step(j)
  PROVE  PlainStep(j) \/ AddCheck(j) \/ AddMake(j) \/ AddMade(j) \/ RemoveLook(j) \/ EditWrite(j)
         \/ Save(j, "refresh")
  BY DEF Step, PlainStep

LEMMA ApartStays ==
  ASSUME Shape, Present, AllApart, [Next]_vars
  PROVE  AllApart'
  <1>1. Held \in Seq(Pick) /\ Apart(Held, nextPick) /\ nextPick \in Nat
    BY HeldType, HeldApart DEF Shape, TypeOK
  <1>2. ASSUME UNCHANGED << items, store, nextPick >>,
               \A k \in Jobs : job'[k].at = "save" => job'[k] = job[k]
        PROVE  AllApart'
    BY <1>2 DEF AllApart
  <1>3. ASSUME NEW j \in Jobs, NEW ps \in Seq(Pick), NEW q, Go(j, q), q.out = ps, items' = ps,
               store' = store, nextPick' \in Nat, nextPick <= nextPick', Apart(ps, nextPick')
        PROVE  AllApart'
    <2>1. \A k \in Jobs : k # j => job'[k] = job[k]
      BY <1>3, GoMoves DEF Shape
    <2>2. job'[j].out = ps
      BY <1>3, GoMoves DEF Shape
    <2>3. \A g \in Entries : store[g] # NotHeld => Apart(store[g], nextPick')
      BY <1>1, <1>3, ApartLater DEF AllApart, Shape, TypeOK
    <2>4. \A k \in Jobs : job[k].at = "save" => Apart(job[k].out, nextPick')
      BY <1>1, <1>3, ApartLater DEF AllApart, Shape, TypeOK, IsJob
    <2>5. QED
      BY <1>3, <2>1, <2>2, <2>3, <2>4 DEF AllApart
  <1>4. ASSUME NEW j \in Jobs, Step(j) PROVE AllApart'
    <2> DEFINE r == job[j]
    <2>1. IsJob(r)
      BY DEF Shape, TypeOK
    <2>2. CASE PlainStep(j)
      BY <1>2, <2>2, PlainMoves DEF count
    <2>3. CASE Refuse(j)
      BY <1>2, <2>3, RefuseMoves DEF count
    <2>4. CASE BatchTaken(j)
      <3>1. PICK names \in [DOMAIN r.arg -> Numbers] :
              LET mine == NewPicks(r.arg, names, nextPick) IN
              /\ FreeNames(r.arg, Held, names)
              /\ items' = Held \o mine
              /\ Go(j, [r EXCEPT !.at = "save", !.g = entry, !.out = Held \o mine, !.mine = mine])
        BY <2>4 DEF BatchTaken
      <3> DEFINE mine == NewPicks(r.arg, names, nextPick)
                 ps == Held \o mine
                 q == [r EXCEPT !.at = "save", !.g = entry, !.out = ps, !.mine = mine]
      <3>2. r.arg \in Seq(Files \X Doc) /\ FitsCaps(r.arg, Held)
            /\ nextPick' = nextPick + Len(r.arg) /\ store' = store
        BY <2>4 DEF BatchTaken
      <3>3. names \in [DOMAIN r.arg -> Numbers]
        BY <3>1
      <3>4. mine \in Seq(Pick) /\ Apart(ps, nextPick + Len(r.arg))
        <4> HIDE DEF r
        <4>1. QED
          BY <1>1, <3>1, <3>2, <3>3, NewPicksType, ApartBatch
      <3>5. q.out = ps /\ Go(j, q) /\ items' = ps
        BY <2>1, <3>1 DEF IsJob
      <3> HIDE DEF mine
      <3>6. ps \in Seq(Pick)
        BY <1>1, <3>4
      <3>7. Len(r.arg) \in Nat
        BY <3>2
      <3> HIDE DEF ps, q, r
      <3>8. QED
        BY <1>1, <1>3, <3>2, <3>4, <3>5, <3>6, <3>7
    <2>5. CASE /\ Go(j, [r EXCEPT !.at = "make"])
               /\ UNCHANGED << files, entry, phase, newer, items, store, lock, poll, cards, count, past >>
      <3>1. [r EXCEPT !.at = "make"].at = "make"
        BY <2>1 DEF IsJob
      <3>2. QED
        BY <1>2, <2>5, <3>1, GoMoves DEF count, Shape
    <2>6. CASE AddMake(j)
      <3>1. [r EXCEPT !.at = "made"].at = "made"
        BY <2>1 DEF IsJob
      <3>2. \A k \in Jobs : job'[k].at = "save" => job'[k] = job[k]
        BY <2>6, <3>1, GoMoves DEF AddMake, Shape
      <3>3. items' = NoPicks /\ store' = store /\ nextPick' = nextPick
        BY <2>6 DEF AddMake, count
      <3>4. QED
        BY <3>2, <3>3, NoneApart DEF AllApart
    <2>7. CASE PickTaken(j)
      <3>1. PICK n \in Behind(j) :
           \/ /\ lock' = NoJob /\ items' = items
              /\ Go(j, [r EXCEPT !.at = "last", !.mine = << Held[n] >>])
           \/ /\ items' = Without(Held, n)
              /\ Go(j, [r EXCEPT !.at = "save", !.mine = << Held[n] >>, !.out = Without(Held, n)])
        BY <2>7 DEF PickTaken
      <3>2. Without(Held, n) \in Seq(Pick) /\ Apart(Without(Held, n), nextPick)
        BY <1>1, WithoutType, ApartWithout DEF Behind
      <3>3. store' = store /\ nextPick' = nextPick
        BY <2>7 DEF PickTaken, count
      <3>4. /\ [r EXCEPT !.at = "last", !.mine = << Held[n] >>].at = "last"
            /\ [r EXCEPT !.at = "save", !.mine = << Held[n] >>, !.out = Without(Held, n)].out
                 = Without(Held, n)
        BY <2>1 DEF IsJob
      <3>5. CASE /\ items' = items
                 /\ Go(j, [r EXCEPT !.at = "last", !.mine = << Held[n] >>])
        BY <1>2, <3>3, <3>4, <3>5, GoMoves DEF Shape
      <3>6. CASE /\ items' = Without(Held, n)
                 /\ Go(j, [r EXCEPT !.at = "save", !.mine = << Held[n] >>, !.out = Without(Held, n)])
        <4> DEFINE ps == Without(Held, n)
                   q == [r EXCEPT !.at = "save", !.mine = << Held[n] >>, !.out = ps]
        <4>1. q.out = ps /\ Go(j, q) /\ items' = ps /\ nextPick <= nextPick
          BY <1>1, <3>4, <3>6
        <4>2. ps \in Seq(Pick) /\ Apart(ps, nextPick)
          BY <3>2
        <4> HIDE DEF ps, q, r
        <4>3. QED
          BY <1>1, <1>3, <3>3, <4>1, <4>2
      <3>7. QED
        BY <3>1, <3>5, <3>6
    <2>8. CASE CopyTaken(j)
      <3>1. PICK n \in UserSlots : \E p, doc : Copied(j, n, p, doc)
        BY <2>8 DEF CopyTaken
      <3>2. PICK p, doc : Copied(j, n, p, doc)
        BY <3>1
      <3>3. SwitchedTo(n, p) \in Seq(Pick) /\ Apart(SwitchedTo(n, p), nextPick)
        <4>1. << "user", n >> \in Files
          BY DEF Files
        <4>2. SwitchedTo(n, p) \in Seq(Pick)
          BY <1>1, <4>1, SwitchType DEF SwitchedTo
        <4>3. Apart(SwitchedTo(n, p), nextPick)
          BY <1>1, <4>1, ApartSwitch DEF SwitchedTo
        <4>4. QED
          BY <4>2, <4>3
      <3>4. [r EXCEPT !.at = "save", !.out = SwitchedTo(n, p)].out = SwitchedTo(n, p)
        BY <2>1 DEF IsJob
      <3>5. store' = store /\ nextPick' = nextPick
        BY <2>8 DEF CopyTaken, count
      <3>6. items' = SwitchedTo(n, p) /\ Go(j, [r EXCEPT !.at = "save", !.out = SwitchedTo(n, p)])
        BY <3>2 DEF Copied
      <3> DEFINE ps == SwitchedTo(n, p)
                 q == [r EXCEPT !.at = "save", !.out = ps]
      <3>7. q.out = ps /\ Go(j, q) /\ items' = ps /\ nextPick <= nextPick
        BY <1>1, <3>4, <3>6
      <3>8. ps \in Seq(Pick) /\ Apart(ps, nextPick)
        BY <3>3
      <3> HIDE DEF ps, q, r
      <3>9. QED
        BY <1>1, <1>3, <3>5, <3>7, <3>8
    <2>9. CASE /\ Go(j, [r EXCEPT !.at = "refresh"])
               /\ UNCHANGED << items, store, nextPick >>
      <3>1. [r EXCEPT !.at = "refresh"].at = "refresh"
        BY <2>1 DEF IsJob
      <3>2. QED
        BY <1>2, <2>9, <3>1, GoMoves DEF Shape
    <2>10. CASE Save(j, "refresh") /\ ~Refuse(j)
      <3>1. /\ r.at = "save" /\ store' = [store EXCEPT ![r.g] = r.out]
            /\ Go(j, [r EXCEPT !.at = "refresh"]) /\ UNCHANGED << items, nextPick >>
        BY <2>10 DEF Save, count
      <3>2. [r EXCEPT !.at = "refresh"].at = "refresh"
        BY <2>1 DEF IsJob
      <3>3. \A k \in Jobs : job'[k].at = "save" => job'[k] = job[k]
        BY <3>1, <3>2, GoMoves DEF Shape
      <3>4. \A g \in Entries : store'[g] = store[g] \/ store'[g] = r.out
        BY <3>1 DEF Shape, TypeOK
      <3>5. QED
        BY <3>1, <3>3, <3>4 DEF AllApart
    <2>11. QED
      BY <1>4, <2>2, <2>3, <2>4, <2>5, <2>6, <2>7, <2>8, <2>9, <2>10, StepCases, AddCases,
         RemoveCases, EditCases DEF count
  <1>5. ASSUME NEW j \in Jobs, Calls(j) PROVE AllApart'
    BY <1>2, <1>5, CallMoves
  <1>6. CASE UserDeletesEntry \/ PollStart \/ PollEnd \/ \E f \in Files : RemoveByHand(f)
    BY <1>2, <1>6 DEF UserDeletesEntry, PollStart, PollEnd, RemoveByHand, count
  <1>7. CASE ForgetEntry
    BY <1>7 DEF ForgetEntry, count, AllApart
  <1>8. CASE EntryLeaves
    <2>1. \A g \in Entries : store'[g] # NotHeld => store'[g] = store[g]
      BY <1>8 DEF EntryLeaves, Shape, TypeOK
    <2>2. QED
      BY <1>8, <2>1 DEF EntryLeaves, count, AllApart
  <1>9. CASE Restart
    <2>1. /\ store' = store /\ nextPick' = nextPick
          /\ \A k \in Jobs : job'[k].at # "save"
      BY <1>9, IdleJob DEF Restart
    <2>2. Apart(items', nextPick)
      <3>1. CASE phase = "none" \/ newer \/ store[entry] = NotHeld
        BY <1>9, <3>1, NoneApart DEF Restart
      <3>2. CASE ~(phase = "none" \/ newer \/ store[entry] = NotHeld)
        <4>1. items' = store[entry] /\ entry \in Entries
          BY <1>9, <3>2 DEF Restart, Present, Shape, TypeOK, Entries
        <4>2. QED
          BY <3>2, <4>1 DEF AllApart
      <3>3. QED
        BY <3>1, <3>2
    <2>3. QED
      BY <2>1, <2>2 DEF AllApart
  <1>10. CASE UNCHANGED vars
    BY <1>2, <1>10 DEF vars, count
  <1>11. QED
    BY <1>4, <1>5, <1>6, <1>7, <1>8, <1>9, <1>10 DEF Next

\* Whatever is added, removed, edited and forgotten at once, and wherever a
\* restart comes, the cards keep apart and within the caps.
THEOREM CardsStayApart == Spec => []CardsKeptApart
  <1> DEFINE Inv == Shape /\ Present /\ AllApart
  <1>1. Init => Inv
    <2>1. Init => AllApart
      BY IdleJob, NoneApart DEF Init, AllApart
    <2>2. QED
      BY <2>1, InitShape DEF Init, Present
  <1>2. Inv /\ [Next]_vars => Inv'
    BY NextShape, StayPresent, ApartStays DEF Shape
  <1>3. Inv => CardsKeptApart
    <2> SUFFICES ASSUME Inv PROVE CardsKeptApart
      OBVIOUS
    <2>1. Apart(Held, nextPick)
      BY HeldApart
    <2>2. QED
      BY <2>1 DEF Apart, OfKind, Kinds, CardsKeptApart
  <1>4. QED
    BY <1>1, <1>2, <1>3, PTL DEF Spec

-----------------------------------------------------------------------------
(* What is held is what is saved                                             *)

InStore == IF entry = 0 \/ store[entry] = NotHeld THEN NoPicks ELSE store[entry]

\* What a call saves is what it put in the picks, unless they were dropped, and
\* goes to the entry that is there.
SavesOK ==
    \A j \in Jobs :
       /\ job[j].at \in {"save", "write"} => job[j].g = entry /\ entry \in Entries
       /\ job[j].at = "save" => items = NotHeld \/ items = job[j].out

\* Nothing is in the Store of an entry to come, or read of a newer release's.
StoresOK ==
    /\ \A g \in Entries : g > entry => store[g] = NotHeld
    /\ newer /\ entry # 0 => store[entry] = NotHeld

Saved ==
    phase # "none" /\ ~newer /\ items # NotHeld /\ (\A j \in Jobs : job[j].at # "save")
    => items = InStore

StoreInv == SavesOK /\ StoresOK /\ Saved

\* A step of a call that leaves picks and Stores alone.
Quiet(j) ==
    /\ UNCHANGED << entry, newer, items, store, byHand >>
    /\ (phase' # "none") <=> (phase # "none")
    /\ DOMAIN job' = Jobs /\ \A k \in Jobs : k # j => job'[k] = job[k]
    /\ job[j].at # "save" \/ newer
    /\ job'[j].at # "save"
    /\ job'[j].at = "write" => job'[j].g = entry /\ entry \in Entries
    /\ dropped \subseteq dropped'
    /\ \/ acked' = acked
       \/ /\ job[j].op = "add" /\ job[j].at = "polling"
          /\ acked' = acked \cup {<< job[j].g, p >> : p \in ToSet(job[j].mine)}
    /\ job'[j].op = "add" /\ job'[j].at \in {"refresh", "polling"} =>
         /\ job[j].op = "add" /\ job[j].at \in {"refresh", "polling"}
         /\ job'[j].mine = job[j].mine /\ job'[j].g = job[j].g

\* One that makes new picks and is about to save them.
TakesPicks(j) ==
    /\ \A k \in Jobs : k # j => job[k].at \notin Holding /\ job'[k] = job[k]
    /\ DOMAIN job' = Jobs
    /\ UNCHANGED << entry, phase, newer, store, acked, byHand >>
    /\ entry \in Entries /\ items' \in Seq(Pick)
    /\ job'[j].at = "save" /\ job'[j].g = entry /\ job'[j].out = items'
    /\ job'[j].op = job[j].op

Saves(j) ==
    /\ job[j].at = "save" /\ ~(newer /\ entry = job[j].g)
    /\ store' = [store EXCEPT ![job[j].g] = job[j].out]
    /\ UNCHANGED << files, entry, phase, newer, items, past >>
    /\ DOMAIN job' = Jobs /\ \A k \in Jobs : k # j => job'[k] = job[k]
    /\ job'[j].at = "refresh" /\ job'[j].op = job[j].op
    /\ job'[j].mine = job[j].mine /\ job'[j].g = job[j].g

LEMMA EntryThere == ASSUME Shape, Present, EntryFound PROVE entry \in Entries
  BY DEF Shape, Present, EntryFound, TypeOK, Entries

LEMMA QuietGo ==
  ASSUME Shape, NEW j \in Jobs, NEW q, Go(j, q), q.at # "save",
         UNCHANGED << entry, newer, items, store, byHand >>,
         (phase' # "none") <=> (phase # "none"),
         job[j].at # "save" \/ newer,
         q.at = "write" => q.g = entry /\ entry \in Entries,
         dropped \subseteq dropped',
         \/ acked' = acked
         \/ /\ job[j].op = "add" /\ job[j].at = "polling"
            /\ acked' = acked \cup {<< job[j].g, p >> : p \in ToSet(job[j].mine)},
         q.op = "add" /\ q.at \in {"refresh", "polling"} =>
           /\ job[j].op = "add" /\ job[j].at \in {"refresh", "polling"}
           /\ q.mine = job[j].mine /\ q.g = job[j].g
  PROVE  Quiet(j)
  BY GoMoves DEF Quiet, Shape

LEMMA RefuseQuiet ==
  ASSUME Shape, NEW j \in Jobs, Refuse(j), job[j].at # "save" \/ newer
  PROVE  Quiet(j)
  <1>1. Idle.at = "idle" /\ Go(j, Idle)
    BY DEF Idle, Refuse
  <1>2. UNCHANGED << entry, newer, items, store, byHand, phase, acked, dropped >>
    BY DEF Refuse, past
  <1> HIDE DEF Idle
  <1>3. QED
    BY <1>1, <1>2, QuietGo

LEMMA PlainQuiet ==
  ASSUME Shape, Present, NEW j \in Jobs, PlainStep(j)
  PROVE  Quiet(j)
  <1> DEFINE r == job[j]
  <1>1. IsJob(r)
    BY DEF Shape, TypeOK
  <1>2. /\ UNCHANGED << entry, newer, items, store, dropped, byHand >>
        /\ DOMAIN job' = Jobs /\ \A k \in Jobs : k # j => job'[k] = job[k]
    BY PlainMoves
  <1>3. r.at # "save"
    BY DEF PlainStep, AddFind, AddDone, RemovePolled, ForgetPickDevice, RemoveLast, DeleteLook,
           DeleteFile, EditLook, EditDone, WriteLook, WriteFile, RefreshStart, At, Takes
  <1>4. Idle.at = "idle"
    BY DEF Idle
  <1>5. CASE RemoveLast(j)
    <2>1. Go(j, Idle) /\ acked' = acked /\ ((phase' # "none") <=> (phase # "none"))
      BY <1>5 DEF RemoveLast, past
    <2> HIDE DEF Idle
    <2>2. QED
      BY <1>2, <1>3, <1>4, <2>1, QuietGo
  <1>6. ASSUME ~RemoveLast(j) PROVE phase' = phase
    BY <1>6 DEF PlainStep, AddFind, AddDone, RemovePolled, ForgetPickDevice, DeleteLook,
           DeleteFile, EditLook, EditDone, WriteLook, WriteFile, RefreshStart, Refuse
  <1>7. CASE AddDone(j)
    <2>1. /\ Go(j, Idle) /\ r.op = "add" /\ r.at = "polling"
          /\ acked' = acked \cup {<< job[j].g, p >> : p \in ToSet(job[j].mine)}
          /\ phase' = phase
      BY <1>7 DEF AddDone, At
    <2> HIDE DEF Idle, r
    <2>2. QED
      BY <1>2, <1>4, <2>1, QuietGo DEF r
  <1>8. ASSUME ~AddDone(j) PROVE acked' = acked
    BY <1>8 DEF PlainStep, AddFind, RemovePolled, ForgetPickDevice, RemoveLast, DeleteLook,
           DeleteFile, EditLook, EditDone, WriteLook, WriteFile, RefreshStart, Refuse, past
  <1>9. ASSUME ~RemoveLast(j), ~AddDone(j), NEW q, Go(j, q), q.at # "save",
               q.at = "write" => q.g = entry /\ entry \in Entries,
               q.op = "add" /\ q.at \in {"refresh", "polling"} =>
                 /\ job[j].op = "add" /\ job[j].at \in {"refresh", "polling"}
                 /\ q.mine = job[j].mine /\ q.g = job[j].g
        PROVE  Quiet(j)
    <2>1. phase' = phase /\ acked' = acked
      BY <1>6, <1>8, <1>9
    <2>2. QED
      BY <1>2, <1>3, <1>9, <2>1, QuietGo
  <1>10. CASE /\ ~RemoveLast(j) /\ ~AddDone(j) /\ Go(j, Idle)
    <2> HIDE DEF Idle
    <2>1. QED
      BY <1>4, <1>9, <1>10
  <1>11. CASE AddFind(j) /\ ~Go(j, Idle)
    <2>1. PICK x : Go(j, [r EXCEPT !.at = "found", !.arg = x])
      BY <1>11 DEF AddFind, Refuse
    <2>2. [r EXCEPT !.at = "found", !.arg = x].at = "found"
      BY <1>1 DEF IsJob
    <2>3. ~RemoveLast(j) /\ ~AddDone(j)
      BY <1>11 DEF AddFind, Takes, At, RemoveLast, AddDone
    <2> DEFINE q == [r EXCEPT !.at = "found", !.arg = x]
    <2>4. q.at = "found" /\ Go(j, q)
      BY <2>1, <2>2
    <2> HIDE DEF q, r
    <2>5. QED
      BY <1>9, <2>3, <2>4
  <1>12. ASSUME NEW a \in {"forget", "unlink", "writing"}, Go(j, [r EXCEPT !.at = a]),
                ~RemoveLast(j), ~AddDone(j)
         PROVE  Quiet(j)
    <2> DEFINE q == [r EXCEPT !.at = a]
    <2>1. q.at = a /\ Go(j, q)
      BY <1>1, <1>12 DEF IsJob
    <2> HIDE DEF q, r
    <2>2. QED
      BY <1>9, <1>12, <2>1
  <1>13. CASE RemovePolled(j)
    <2>1. ~RemoveLast(j) /\ ~AddDone(j) /\ Go(j, [r EXCEPT !.at = "forget"])
      BY <1>13 DEF RemovePolled, At, RemoveLast, AddDone
    <2>2. QED
      BY <1>12, <2>1
  <1>14. CASE DeleteLook(j) /\ ~Go(j, Idle)
    <2>1. ~RemoveLast(j) /\ ~AddDone(j) /\ Go(j, [r EXCEPT !.at = "unlink"])
      BY <1>14 DEF DeleteLook, Takes, At, RemoveLast, AddDone, Refuse
    <2>2. QED
      BY <1>12, <2>1
  <1>15. CASE WriteLook(j) /\ ~Go(j, Idle)
    <2>1. ~RemoveLast(j) /\ ~AddDone(j) /\ Go(j, [r EXCEPT !.at = "writing"])
      BY <1>15 DEF WriteLook, At, RemoveLast, AddDone
    <2>2. QED
      BY <1>12, <2>1
  <1>16. CASE EditLook(j) /\ ~Go(j, Idle)
    <2>1. Addressed(j) /\ \E n \in Behind(j) : Go(j, [r EXCEPT !.at = "write", !.mine = << Held[n] >>])
      BY <1>16 DEF EditLook, Refuse
    <2>2. PICK x : Go(j, [r EXCEPT !.at = "write", !.mine = x])
      BY <2>1
    <2> DEFINE q == [r EXCEPT !.at = "write", !.mine = x]
    <2>3. q.at = "write" /\ q.g = r.g /\ Go(j, q)
      BY <1>1, <2>2 DEF IsJob
    <2>4. r.g = entry /\ entry \in Entries
      BY <2>1, EntryThere DEF Addressed
    <2>5. ~RemoveLast(j) /\ ~AddDone(j)
      BY <1>16 DEF EditLook, Takes, At, RemoveLast, AddDone
    <2> HIDE DEF q, r
    <2>6. QED
      BY <1>9, <2>3, <2>4, <2>5
  <1>17. CASE RefreshStart(j)
    <2>1. PICK x : Go(j, [r EXCEPT !.at = "polling", !.out = x])
      BY <1>17 DEF RefreshStart
    <2> DEFINE q == [r EXCEPT !.at = "polling", !.out = x]
    <2>2. q.at = "polling" /\ q.g = r.g /\ q.mine = r.mine /\ q.op = r.op /\ Go(j, q)
      BY <1>1, <2>1 DEF IsJob
    <2>3. ~RemoveLast(j) /\ ~AddDone(j) /\ r.at = "refresh"
      BY <1>17 DEF RefreshStart, At, RemoveLast, AddDone
    <2> HIDE DEF q
    <2>4. QED
      BY <1>9, <2>2, <2>3
  <1>18. ASSUME ~RemoveLast(j), ~AddDone(j)
         PROVE  \/ Go(j, Idle) \/ AddFind(j) \/ RemovePolled(j) \/ DeleteLook(j) \/ WriteLook(j)
                \/ EditLook(j) \/ RefreshStart(j)
    BY <1>18 DEF PlainStep, ForgetPickDevice, DeleteFile, EditDone, WriteFile
  <1>19. QED
    BY <1>5, <1>7, <1>10, <1>11, <1>13, <1>14, <1>15, <1>16, <1>17, <1>18

\* A call's lock keeps every other call from its own critical steps.
LEMMA Alone ==
  ASSUME Shape, NEW j \in Jobs, lock \in {NoJob, j}
  PROVE  \A k \in Jobs : k # j => job[k].at \notin Holding
  BY DEF Shape, Locked

\* What a call puts in the picks it also has to save.
LEMMA TakesGo ==
  ASSUME Shape, NEW j \in Jobs, NEW ps \in Seq(Pick), NEW q, Go(j, q), lock \in {NoJob, j},
         UNCHANGED << entry, phase, newer, store, acked, byHand >>, entry \in Entries,
         items' = ps, q.at = "save", q.g = entry, q.out = ps, q.op = job[j].op
  PROVE  TakesPicks(j)
  BY GoMoves, Alone DEF TakesPicks, Shape

LEMMA BatchTakes ==
  ASSUME Shape, Present, NEW j \in Jobs, BatchTaken(j)
  PROVE  /\ TakesPicks(j) /\ UNCHANGED << files, dropped >> /\ EntryFound
         /\ \E names \in [DOMAIN job[j].arg -> Numbers] :
              /\ job'[j].mine = NewPicks(job[j].arg, names, nextPick)
              /\ items' = Held \o job'[j].mine
  <1> DEFINE r == job[j]
  <1>1. IsJob(r) /\ Held \in Seq(Pick) /\ nextPick \in Nat
    BY HeldType DEF Shape, TypeOK
  <1>2. PICK names \in [DOMAIN r.arg -> Numbers] :
          LET mine == NewPicks(r.arg, names, nextPick) IN
          /\ items' = Held \o mine
          /\ Go(j, [r EXCEPT !.at = "save", !.g = entry, !.out = Held \o mine, !.mine = mine])
    BY DEF BatchTaken
  <1> DEFINE mine == NewPicks(r.arg, names, nextPick)
             ps == Held \o mine
             q == [r EXCEPT !.at = "save", !.g = entry, !.out = ps, !.mine = mine]
  <1>3. /\ r.arg \in Seq(Files \X Doc) /\ lock \in {NoJob, j} /\ entry \in Entries
        /\ UNCHANGED << entry, phase, newer, store, acked, byHand, files, dropped >>
        /\ EntryFound
    BY EntryThere DEF BatchTaken, past
  <1>4. mine \in Seq(Pick)
    <2> HIDE DEF r
    <2>1. QED
      BY <1>1, <1>2, <1>3, NewPicksType
  <1>5. /\ q.at = "save" /\ q.g = entry /\ q.out = ps /\ q.op = r.op /\ q.mine = mine
        /\ Go(j, q) /\ items' = ps
    BY <1>1, <1>2 DEF IsJob
  <1> HIDE DEF mine
  <1>6. ps \in Seq(Pick)
    BY <1>1, <1>4
  <1>7. job'[j].mine = mine
    BY <1>5, GoMoves DEF Shape
  <1>8. TakesPicks(j)
    <2> HIDE DEF ps, q
    <2>1. QED
      BY <1>3, <1>5, <1>6, TakesGo
  <1>9. QED
    BY <1>2, <1>3, <1>5, <1>7, <1>8 DEF mine

LEMMA PickTakes ==
  ASSUME Shape, Present, NEW j \in Jobs, RemoveLook(j), PickTaken(j)
  PROVE  \/ Quiet(j) /\ files' = files
         \/ /\ TakesPicks(j) /\ files' = files
            /\ \E n \in DOMAIN Held : /\ dropped' = dropped \cup {<< "pick", Held[n].id >>}
                                     /\ items' = Without(Held, n)
  <1> DEFINE r == job[j]
  <1>1. IsJob(r) /\ Held \in Seq(Pick)
    BY HeldType DEF Shape, TypeOK
  <1>2. /\ lock \in {NoJob, j} /\ entry \in Entries /\ r.g = entry
        /\ UNCHANGED << entry, phase, newer, store, acked, byHand, files >>
    BY EntryThere DEF PickTaken, Addressed
  <1>3. PICK n \in Behind(j) :
         /\ dropped' = dropped \cup {<< "pick", Held[n].id >>}
         /\ \/ /\ items' = items
               /\ Go(j, [r EXCEPT !.at = "last", !.mine = << Held[n] >>])
            \/ /\ items' = Without(Held, n)
               /\ Go(j, [r EXCEPT !.at = "save", !.mine = << Held[n] >>, !.out = Without(Held, n)])
    BY DEF PickTaken
  <1>4. n \in DOMAIN Held
    BY DEF Behind
  <1>5. CASE /\ items' = items
             /\ Go(j, [r EXCEPT !.at = "last", !.mine = << Held[n] >>])
    <2> DEFINE q == [r EXCEPT !.at = "last", !.mine = << Held[n] >>]
    <2>1. q.at = "last" /\ Go(j, q) /\ dropped \subseteq dropped'
      BY <1>1, <1>3, <1>5 DEF IsJob
    <2>2. items' = items
      BY <1>5
    <2>3. r.at # "save" \/ newer
      BY DEF RemoveLook, Takes, At
    <2> HIDE DEF q
    <2>4. QED
      BY <1>2, <2>1, <2>2, <2>3, QuietGo
  <1>6. CASE /\ items' = Without(Held, n)
             /\ Go(j, [r EXCEPT !.at = "save", !.mine = << Held[n] >>, !.out = Without(Held, n)])
    <2> DEFINE ps == Without(Held, n)
               q == [r EXCEPT !.at = "save", !.mine = << Held[n] >>, !.out = ps]
    <2>1. /\ q.at = "save" /\ q.g = entry /\ q.out = ps /\ q.op = r.op
          /\ Go(j, q) /\ items' = ps
      BY <1>1, <1>2, <1>6 DEF IsJob
    <2>2. ps \in Seq(Pick)
      BY <1>1, <1>4, WithoutType
    <2>3. TakesPicks(j)
      <3> HIDE DEF ps, q
      <3>1. QED
        BY <1>2, <2>1, <2>2, TakesGo
    <2>4. QED
      BY <1>2, <1>3, <1>4, <1>6, <2>3
  <1>7. QED
    BY <1>3, <1>5, <1>6

LEMMA CopyTakes ==
  ASSUME Shape, Present, SavesOK, NEW j \in Jobs, CopyTaken(j)
  PROVE  /\ TakesPicks(j) /\ dropped' = dropped
         /\ \E n \in UserSlots : \E p, doc : Copied(j, n, p, doc)
  <1> DEFINE r == job[j]
  <1>1. IsJob(r) /\ Held \in Seq(Pick)
    BY HeldType DEF Shape, TypeOK
  <1>2. /\ lock \in {NoJob, j} /\ entry \in Entries /\ r.g = entry
        /\ UNCHANGED << entry, phase, newer, store, acked, byHand, dropped >>
    BY DEF CopyTaken, SavesOK, past
  <1>3. PICK n \in UserSlots : \E p, doc : Copied(j, n, p, doc)
    BY DEF CopyTaken
  <1>4. PICK p, doc : Copied(j, n, p, doc)
    BY <1>3
  <1> DEFINE ps == SwitchedTo(n, p)
             q == [r EXCEPT !.at = "save", !.out = ps]
  <1>5. /\ q.at = "save" /\ q.g = entry /\ q.out = ps /\ q.op = r.op
        /\ Go(j, q) /\ items' = ps
    BY <1>1, <1>2, <1>4 DEF IsJob, Copied
  <1>6. ps \in Seq(Pick)
    <2>1. << "user", n >> \in Files
      BY DEF Files
    <2>2. QED
      BY <1>1, <2>1, SwitchType DEF SwitchedTo
  <1>7. TakesPicks(j)
    <2> HIDE DEF ps, q
    <2>1. QED
      BY <1>2, <1>5, <1>6, TakesGo
  <1>8. QED
    BY <1>2, <1>3, <1>7

LEMMA SaveMoves ==
  ASSUME Shape, NEW j \in Jobs, Save(j, "refresh")
  PROVE  Saves(j) \/ (Refuse(j) /\ newer)
  <1> DEFINE r == job[j]
             q == [r EXCEPT !.at = "refresh"]
  <1>1. /\ q.at = "refresh" /\ q.op = r.op /\ q.mine = r.mine /\ q.g = r.g
    BY DEF Shape, TypeOK, IsJob
  <1>2. CASE newer /\ entry = r.g
    BY <1>2 DEF Save
  <1>3. CASE ~(newer /\ entry = r.g)
    <2>1. /\ r.at = "save" /\ store' = [store EXCEPT ![r.g] = r.out] /\ Go(j, q)
          /\ UNCHANGED << files, entry, phase, newer, items, past >>
      BY <1>3 DEF Save
    <2> HIDE DEF q
    <2>2. DOMAIN job' = Jobs /\ job'[j] = q /\ \A k \in Jobs : k # j => job'[k] = job[k]
      BY <2>1, GoMoves DEF Shape
    <2>3. QED
      BY <1>1, <1>3, <2>1, <2>2 DEF Saves
  <1>4. QED
    BY <1>2, <1>3

\* Taking picks keeps those that are not asked to go, and has the new ones.
HasId(ps, p) == \E n \in DOMAIN ps : ps[n].id = p.id

KeepsIds(j) ==
    /\ dropped \subseteq dropped'
    /\ \A p : HasId(Held, p) /\ << "pick", p.id >> \notin dropped' => HasId(items', p)
    /\ job[j].op = "add" => \A p \in ToSet(job'[j].mine) : HasId(items', p)

\* By which step they are taken.
TakenBy(j) ==
    \/ BatchTaken(j) /\ job[j].at \in {"found", "made"}
    \/ files' = files /\ byHand' = byHand /\ \E n \in DOMAIN Held : items' = Without(Held, n)
    \/ CopyTaken(j)

LEMMA QuietNotTakes == ASSUME NEW j \in Jobs, TakesPicks(j) PROVE ~Quiet(j)
  BY DEF TakesPicks, Quiet

LEMMA ConcatIds ==
  ASSUME NEW ps \in Seq(Pick), NEW qs \in Seq(Pick), NEW p, HasId(ps, p) \/ HasId(qs, p)
  PROVE  HasId(ps \o qs, p)
  <1>1. /\ ps \o qs \in Seq(Pick) /\ Len(ps \o qs) = Len(ps) + Len(qs)
        /\ \A i \in 1 .. Len(ps) + Len(qs) :
              (ps \o qs)[i] = IF i <= Len(ps) THEN ps[i] ELSE qs[i - Len(ps)]
    BY ConcatProperties, Zenon
  <1>2. /\ Len(ps) \in Nat /\ Len(qs) \in Nat
        /\ DOMAIN ps = 1 .. Len(ps) /\ DOMAIN qs = 1 .. Len(qs)
    OBVIOUS
  <1> DEFINE rs == ps \o qs
  <1> HIDE DEF rs
  <1>3. DOMAIN rs = 1 .. Len(ps) + Len(qs)
    BY <1>1, <1>2 DEF rs
  <1>4. CASE HasId(ps, p)
    <2>1. PICK n \in 1 .. Len(ps) : ps[n].id = p.id
      BY <1>2, <1>4 DEF HasId
    <2>2. n \in DOMAIN rs /\ rs[n] = ps[n]
      BY <1>1, <1>2, <1>3 DEF rs
    <2>3. QED
      BY <2>1, <2>2 DEF HasId, rs
  <1>5. CASE HasId(qs, p)
    <2>1. PICK n \in 1 .. Len(qs) : qs[n].id = p.id
      BY <1>2, <1>5 DEF HasId
    <2>2. Len(ps) + n \in DOMAIN rs /\ rs[Len(ps) + n] = qs[n]
      BY <1>1, <1>2, <1>3 DEF rs
    <2>3. QED
      BY <2>1, <2>2 DEF HasId, rs
  <1>6. QED
    BY <1>4, <1>5

LEMMA WithoutIds ==
  ASSUME NEW ps \in Seq(Pick), NEW n \in DOMAIN ps, NEW p, HasId(ps, p), p.id # ps[n].id
  PROVE  HasId(Without(ps, n), p)
  <1> DEFINE qs == Without(ps, n)
  <1>1. /\ qs \in Seq(Pick) /\ DOMAIN qs = 1 .. Len(ps) - 1
        /\ \A i \in 1 .. Len(ps) - 1 : qs[i] = ps[IF i < n THEN i ELSE i + 1]
    BY WithoutType
  <1>2. n \in 1 .. Len(ps) /\ Len(ps) \in Nat /\ DOMAIN ps = 1 .. Len(ps)
    OBVIOUS
  <1>3. PICK m \in 1 .. Len(ps) : ps[m].id = p.id
    BY <1>2 DEF HasId
  <1> HIDE DEF qs
  <1>4. m # n
    BY <1>3
  <1>5. CASE m < n
    <2>1. m \in DOMAIN qs /\ qs[m] = ps[m]
      BY <1>1, <1>2, <1>5
    <2>2. QED
      BY <1>3, <2>1 DEF HasId, qs
  <1>6. CASE m > n
    <2>1. m - 1 \in DOMAIN qs /\ qs[m - 1] = ps[m]
      <3>1. m - 1 \in 1 .. Len(ps) - 1 /\ ~(m - 1 < n) /\ (m - 1) + 1 = m
        BY <1>2, <1>6
      <3>2. QED
        BY <1>1, <3>1
    <2>2. QED
      BY <1>3, <2>1 DEF HasId, qs
  <1>7. QED
    BY <1>2, <1>4, <1>5, <1>6

LEMMA SwitchIds ==
  ASSUME Held \in Seq(Pick), NEW n, NEW p, NEW a, HasId(Held, a)
  PROVE  HasId(SwitchedTo(n, p), a)
  <1>1. \A i \in DOMAIN Held : Held[i] \in Pick
    OBVIOUS
  <1>2. /\ DOMAIN SwitchedTo(n, p) = DOMAIN Held
        /\ \A i \in DOMAIN Held : SwitchedTo(n, p)[i].id = Held[i].id
    BY <1>1 DEF SwitchedTo, Pick
  <1>3. QED
    BY <1>2 DEF HasId

LEMMA BatchKeeps ==
  ASSUME Shape, Present, NEW j \in Jobs, BatchTaken(j)
  PROVE  KeepsIds(j)
  <1>1. PICK names \in [DOMAIN job[j].arg -> Numbers] :
              /\ job'[j].mine = NewPicks(job[j].arg, names, nextPick)
              /\ items' = Held \o job'[j].mine
    BY BatchTakes
  <1>2. job[j].arg \in Seq(Files \X Doc) /\ nextPick \in Nat /\ Held \in Seq(Pick)
    BY HeldType DEF BatchTaken, Shape, TypeOK
  <1>3. job'[j].mine \in Seq(Pick)
    <2> DEFINE recs == job[j].arg
    <2>1. /\ recs \in Seq(Files \X Doc) /\ names \in [DOMAIN recs -> Numbers] /\ nextPick \in Nat
          /\ job'[j].mine = NewPicks(recs, names, nextPick)
      BY <1>1, <1>2
    <2> HIDE DEF recs
    <2>2. NewPicks(recs, names, nextPick) \in Seq(Pick)
      BY <2>1, NewPicksType
    <2>3. QED
      BY <2>1, <2>2
  <1>4. \A p \in ToSet(job'[j].mine) : HasId(job'[j].mine, p)
    BY DEF ToSet, HasId
  <1>5. dropped' = dropped
    BY BatchTakes
  <1>6. QED
    BY <1>1, <1>2, <1>3, <1>4, <1>5, ConcatIds DEF KeepsIds

\* Every step of a call is of one of four kinds.
LEMMA StepKinds ==
  ASSUME Shape, Present, SavesOK, NEW j \in Jobs, Step(j)
  PROVE  Quiet(j) \/ (TakesPicks(j) /\ KeepsIds(j) /\ TakenBy(j)) \/ AddMake(j) \/ Saves(j)
  <1> DEFINE r == job[j]
  <1>1. IsJob(r)
    BY DEF Shape, TypeOK
  <1>2. CASE PlainStep(j)
    BY <1>2, PlainQuiet
  <1>3. CASE Save(j, "refresh")
    BY <1>3, SaveMoves, RefuseQuiet
  <1>4. CASE RemoveLook(j)
    <2>1. r.at # "save" /\ r.op = "remove" /\ Held \in Seq(Pick)
      BY <1>4, HeldType DEF RemoveLook, Takes, At, Shape
    <2>2. ASSUME NEW n \in DOMAIN Held, dropped' = dropped \cup {<< "pick", Held[n].id >>},
                 items' = Without(Held, n)
          PROVE  KeepsIds(j)
      BY <2>1, <2>2, WithoutIds DEF KeepsIds
    <2>3. CASE PickTaken(j)
      <3>1. CASE TakesPicks(j)
        <4>1. byHand' = byHand
          BY <3>1 DEF TakesPicks
        <4>2. PICK n \in DOMAIN Held : /\ dropped' = dropped \cup {<< "pick", Held[n].id >>}
                                      /\ items' = Without(Held, n) /\ files' = files
          BY <1>4, <2>3, <3>1, PickTakes, QuietNotTakes
        <4>3. QED
          BY <2>2, <3>1, <4>1, <4>2 DEF TakenBy
      <3>2. QED
        BY <1>4, <2>3, <3>1, PickTakes
    <2>4. QED
      BY <1>4, <2>1, <2>3, RemoveCases, RefuseQuiet
  <1>5. CASE AddCheck(j) \/ AddMade(j)
    <2>1. r.at \in {"found", "made"}
      BY <1>5 DEF AddCheck, AddMade, At
    <2>2. CASE BatchTaken(j)
      BY <2>1, <2>2, BatchTakes, BatchKeeps DEF TakenBy
    <2>3. CASE Refuse(j)
      BY <2>1, <2>3, RefuseQuiet
    <2>4. CASE /\ Go(j, [r EXCEPT !.at = "make"])
               /\ UNCHANGED << files, entry, phase, newer, items, store, lock, poll, cards, count, past >>
      <3> DEFINE q == [r EXCEPT !.at = "make"]
      <3>1. q.at = "make" /\ Go(j, q)
        BY <1>1, <2>4 DEF IsJob
      <3>2. UNCHANGED << entry, phase, newer, items, store, acked, dropped, byHand >>
        BY <2>4 DEF past
      <3> HIDE DEF q
      <3>3. QED
        BY <2>1, <3>1, <3>2, QuietGo
    <2>5. QED
      BY <1>5, <2>2, <2>3, <2>4, AddCases
  <1>6. CASE EditWrite(j)
    <2>1. r.at = "write" /\ r.op = "edit"
      BY <1>6 DEF EditWrite, At
    <2>2. CASE CopyTaken(j)
      <3>1. Held \in Seq(Pick)
        BY HeldType DEF Shape
      <3>2. PICK n \in UserSlots : \E p, doc : Copied(j, n, p, doc)
        BY <2>2, CopyTakes
      <3>3. PICK p, doc : Copied(j, n, p, doc)
        BY <3>2
      <3>4. items' = SwitchedTo(n, p)
        BY <3>3 DEF Copied
      <3>5. KeepsIds(j)
        BY <2>1, <2>2, <3>1, <3>4, CopyTakes, SwitchIds DEF KeepsIds
      <3>6. QED
        BY <2>2, <3>5, CopyTakes DEF TakenBy
    <2>3. CASE Refuse(j)
      BY <2>1, <2>3, RefuseQuiet
    <2>4. CASE /\ Go(j, [r EXCEPT !.at = "refresh"])
               /\ UNCHANGED << files, entry, phase, newer, items, store, poll, cards, count, past >>
      <3> DEFINE q == [r EXCEPT !.at = "refresh"]
      <3>1. q.at = "refresh" /\ q.op = "edit" /\ Go(j, q)
        BY <1>1, <2>1, <2>4 DEF IsJob
      <3>2. UNCHANGED << entry, phase, newer, items, store, acked, dropped, byHand >>
        BY <2>4 DEF past
      <3> HIDE DEF q
      <3>3. QED
        BY <2>1, <3>1, <3>2, QuietGo
    <2>5. QED
      BY <1>6, <2>2, <2>3, <2>4, EditCases
  <1>7. QED
    BY <1>2, <1>3, <1>4, <1>5, <1>6, StepCases

LEMMA SavedStays ==
  ASSUME Shape, Present, StoreInv, [Next]_vars
  PROVE  StoreInv'
  <1>1. /\ entry \in Nat /\ \A k \in Jobs : IsJob(job[k])
        /\ DOMAIN store = Entries /\ DOMAIN job = Jobs
    BY DEF Shape, TypeOK
  <1>2. ASSUME NEW j \in Jobs, Step(j) PROVE StoreInv'
    <2>1. CASE Quiet(j)
      <3>1. SavesOK'
        BY <2>1 DEF Quiet, StoreInv, SavesOK
      <3>2. StoresOK'
        BY <2>1 DEF Quiet, StoreInv, StoresOK
      <3>3. Saved'
        BY <2>1 DEF Quiet, StoreInv, Saved, InStore
      <3>4. QED
        BY <3>1, <3>2, <3>3 DEF StoreInv
    <2>2. CASE TakesPicks(j) /\ KeepsIds(j)
      <3>1. SavesOK'
        BY <2>2 DEF TakesPicks, StoreInv, SavesOK, Holding
      <3>2. StoresOK'
        BY <2>2 DEF TakesPicks, StoreInv, StoresOK
      <3>3. Saved'
        BY <2>2 DEF TakesPicks, Saved
      <3>4. QED
        BY <3>1, <3>2, <3>3 DEF StoreInv
    <2>3. CASE AddMake(j)
      <3> DEFINE q == [job[j] EXCEPT !.at = "made"]
      <3>1. q.at = "made" /\ Go(j, q)
        BY <1>1, <2>3 DEF AddMake, IsJob
      <3>2. /\ entry' = entry + 1 /\ entry + 1 \in Entries /\ items' = NoPicks /\ store' = store
            /\ newer' = newer
        BY <2>3 DEF AddMake
      <3>3. \A k \in Jobs : job'[k].at \notin {"save", "write"}
        <4>1. lock = j
          BY <2>3 DEF AddMake, At, Shape, Locked, Holding
        <4>2. \A k \in Jobs : k # j => job[k].at \notin Holding
          BY <4>1, Alone
        <4> HIDE DEF q
        <4>3. job'[j] = q /\ \A k \in Jobs : k # j => job'[k] = job[k]
          BY <3>1, GoMoves DEF Shape
        <4>4. QED
          BY <3>1, <4>2, <4>3 DEF Holding
      <3>4. store[entry + 1] = NotHeld
        BY <1>1, <3>2 DEF StoreInv, StoresOK
      <3>5. SavesOK' /\ StoresOK'
        BY <1>1, <3>2, <3>3, <3>4 DEF SavesOK, StoreInv, StoresOK, Entries
      <3>6. Saved'
        BY <3>2, <3>4 DEF Saved, InStore
      <3>7. QED
        BY <3>5, <3>6 DEF StoreInv
    <2>4. CASE Saves(j)
      <3>1. job[j].g = entry /\ entry \in Entries /\ ~newer /\ (items = NotHeld \/ items = job[j].out)
        BY <2>4 DEF Saves, StoreInv, SavesOK
      <3>2. /\ store'[entry] = job[j].out /\ \A g \in Entries : g # entry => store'[g] = store[g]
        BY <1>1, <2>4, <3>1 DEF Saves
      <3>3. \A k \in Jobs : job'[k].at \in {"save", "write"} => job'[k] = job[k]
        BY <2>4 DEF Saves
      <3>4. SavesOK'
        BY <2>4, <3>1, <3>3 DEF Saves, StoreInv, SavesOK
      <3>5. StoresOK'
        BY <1>1, <2>4, <3>1, <3>2 DEF Saves, StoreInv, StoresOK, Entries
      <3>6. Saved'
        <4>1. job[j].out # NotHeld
          BY <1>1 DEF IsJob
        <4>2. entry # 0
          BY <3>1 DEF Entries
        <4>3. QED
          BY <2>4, <3>1, <3>2, <4>1, <4>2 DEF Saves, Saved, InStore
      <3>7. QED
        BY <3>4, <3>5, <3>6 DEF StoreInv
    <2>5. QED
      BY <1>2, <2>1, <2>2, <2>3, <2>4, StepKinds DEF StoreInv
  <1>3. ASSUME UNCHANGED << entry, phase, newer, items, store >>,
               \A k \in Jobs : job'[k].at \in {"save", "write"} => job'[k] = job[k],
               \A k \in Jobs : job[k].at = "save" => job'[k] = job[k]
        PROVE  StoreInv'
    <2>1. SavesOK' /\ StoresOK'
      BY <1>3 DEF StoreInv, SavesOK, StoresOK
    <2>2. Saved'
      BY <1>3 DEF StoreInv, Saved, InStore
    <2>3. QED
      BY <2>1, <2>2 DEF StoreInv
  <1>4. ASSUME NEW j \in Jobs, Calls(j) PROVE StoreInv'
    <2>1. job[j].at = "idle"
      BY <1>4 DEF Calls, Call
    <2>2. QED
      BY <1>3, <1>4, <2>1, CallMoves
  <1>5. CASE PollStart \/ PollEnd \/ \E f \in Files : RemoveByHand(f)
    BY <1>3, <1>5 DEF PollStart, PollEnd, RemoveByHand
  <1>6. CASE UserDeletesEntry
    BY <1>6 DEF UserDeletesEntry, StoreInv, SavesOK, StoresOK, Saved, InStore
  <1>7. CASE ForgetEntry
    BY <1>7 DEF ForgetEntry, StoreInv, SavesOK, StoresOK, Saved, InStore
  <1>8. CASE EntryLeaves
    <2>1. SavesOK'
      BY <1>8 DEF EntryLeaves, StoreInv, SavesOK
    <2>2. StoresOK'
      BY <1>1, <1>8 DEF EntryLeaves, StoreInv, StoresOK
    <2>3. QED
      BY <1>8, <2>1, <2>2 DEF EntryLeaves, StoreInv, Saved
  <1>9. CASE Restart
    <2>1. \A k \in Jobs : job'[k].at = "idle"
      BY <1>9 DEF Restart, Idle
    <2>2. UNCHANGED << entry, newer, store >>
      BY <1>9 DEF Restart
    <2>3. SavesOK' /\ StoresOK'
      BY <2>1, <2>2 DEF SavesOK, StoreInv, StoresOK
    <2>4. phase' # "none" => phase # "none" /\ entry # 0
      BY <1>9 DEF Restart, Present
    <2>5. Saved'
      BY <1>9, <2>2, <2>4 DEF Restart, Saved, InStore
    <2>6. QED
      BY <2>3, <2>5 DEF StoreInv
  <1>10. CASE UNCHANGED vars
    BY <1>3, <1>10 DEF vars
  <1>11. QED
    BY <1>2, <1>4, <1>5, <1>6, <1>7, <1>8, <1>9, <1>10 DEF Next

-----------------------------------------------------------------------------
(* What was answered as added                                                *)

\* Added and saved, and answered now or soon.
Owed == acked \cup UNION {{<< job[j].g, p >> : p \in ToSet(job[j].mine)} :
              j \in {k \in Jobs : job[k].op = "add" /\ job[k].at \in {"refresh", "polling"}}}

OwedKept ==
    \A a \in Owed :
        /\ a[1] \in Nat /\ a[1] <= entry
        /\ phase # "none" /\ a[1] = entry /\ << "pick", a[2].id >> \notin dropped =>
             /\ ~newer /\ entry # 0
             /\ items # NotHeld => HasId(items, a[2])
             /\ store[entry] # NotHeld /\ HasId(store[entry], a[2])
             /\ \A j \in Jobs : job[j].at = "save" => HasId(job[j].out, a[2])

MineSaved ==
    \A j \in Jobs : job[j].op = "add" /\ job[j].at = "save" =>
        \A p \in ToSet(job[j].mine) : HasId(job[j].out, p)

LEMMA OwedByQuiet == ASSUME NEW j \in Jobs, Quiet(j) PROVE Owed' \subseteq Owed
  <1>1. acked' \subseteq Owed
    BY DEF Quiet, Owed
  <1>2. ASSUME NEW k \in Jobs, job'[k].op = "add", job'[k].at \in {"refresh", "polling"}
        PROVE  /\ job[k].op = "add" /\ job[k].at \in {"refresh", "polling"}
               /\ job'[k].mine = job[k].mine /\ job'[k].g = job[k].g
    BY <1>2 DEF Quiet
  <1>3. QED
    BY <1>1, <1>2 DEF Owed

LEMMA OwedByTake ==
  ASSUME NEW j \in Jobs,
         \/ TakesPicks(j)
         \/ acked' = acked /\ job'[j].at \notin {"refresh", "polling"} /\ \A k \in Jobs : k # j => job'[k] = job[k]
  PROVE  Owed' \subseteq Owed
  BY DEF TakesPicks, Owed

LEMMA OwedStays ==
  ASSUME Shape, Present, StoreInv, OwedKept, MineSaved, [Next]_vars
  PROVE  OwedKept' /\ MineSaved'
  <1>1. /\ entry \in Nat /\ \A k \in Jobs : IsJob(job[k])
        /\ DOMAIN store = Entries /\ DOMAIN job = Jobs
    BY DEF Shape, TypeOK
  <1>2. ASSUME NEW j \in Jobs, Step(j) PROVE OwedKept' /\ MineSaved'
    <2>1. CASE Quiet(j)
      <3>1. OwedKept'
        <4>1. Owed' \subseteq Owed
          BY <2>1, OwedByQuiet
        <4>2. QED
          BY <2>1, <4>1 DEF Quiet, OwedKept
      <3>2. MineSaved'
        BY <2>1 DEF Quiet, MineSaved
      <3>3. QED
        BY <3>1, <3>2
    <2>2. CASE TakesPicks(j) /\ KeepsIds(j)
      <3>1. OwedKept'
        <4>1. Owed' \subseteq Owed
          BY <2>2, OwedByTake
        <4>2. ASSUME NEW a \in Owed, phase # "none", a[1] = entry, << "pick", a[2].id >> \notin dropped'
              PROVE  HasId(items', a[2])
          <5>1. << "pick", a[2].id >> \notin dropped
            BY <2>2, <4>2 DEF KeepsIds
          <5>2. HasId(Held, a[2])
            BY <4>2, <5>1 DEF OwedKept, Held
          <5>3. QED
            BY <2>2, <4>2, <5>2 DEF KeepsIds
        <4>3. \A k \in Jobs : job'[k].at = "save" => job'[k].out = items'
          BY <2>2 DEF TakesPicks, Holding
        <4>4. UNCHANGED << entry, phase, newer, store >> /\ dropped \subseteq dropped'
          BY <2>2 DEF TakesPicks, KeepsIds
        <4>5. QED
          BY <4>1, <4>2, <4>3, <4>4 DEF OwedKept
      <3>2. MineSaved'
        BY <2>2 DEF TakesPicks, KeepsIds, MineSaved
      <3>3. QED
        BY <3>1, <3>2
    <2>3. CASE AddMake(j)
      <3> DEFINE q == [job[j] EXCEPT !.at = "made"]
      <3>1. q.at = "made" /\ Go(j, q)
        BY <1>1, <2>3 DEF AddMake, IsJob
      <3> HIDE DEF q
      <3>2. job'[j] = q /\ \A k \in Jobs : k # j => job'[k] = job[k]
        BY <3>1, GoMoves DEF Shape
      <3>3. entry' = entry + 1 /\ acked' = acked
        BY <2>3 DEF AddMake, past
      <3>4. Owed' \subseteq Owed
        BY <3>1, <3>2, <3>3, OwedByTake
      <3>5. OwedKept'
        <4>1. ASSUME NEW a \in Owed'
              PROVE  a[1] \in Nat /\ a[1] <= entry + 1 /\ a[1] # entry + 1
          <5>1. a[1] \in Nat /\ a[1] <= entry
            BY <3>4, <4>1 DEF OwedKept
          <5>2. QED
            BY <1>1, <5>1
        <4>2. QED
          BY <3>3, <4>1 DEF OwedKept
      <3>6. MineSaved'
        BY <3>1, <3>2 DEF MineSaved
      <3>7. QED
        BY <3>5, <3>6
    <2>4. CASE Saves(j)
      <3>1. /\ job[j].g = entry /\ entry \in Entries /\ ~newer
            /\ items = NotHeld \/ items = job[j].out
        BY <2>4 DEF Saves, StoreInv, SavesOK
      <3>2. store'[entry] = job[j].out
        BY <1>1, <2>4, <3>1 DEF Saves
      <3>3. \A k \in Jobs : job'[k].at # "save"
        <4>1. lock = j
          BY <2>4 DEF Saves, Shape, Locked, Holding
        <4>2. \A k \in Jobs : k # j => job[k].at \notin Holding
          BY <4>1, Alone
        <4>3. QED
          BY <2>4, <4>2 DEF Saves, Holding
      <3>4. job[j].out # NotHeld
        BY <1>1 DEF IsJob
      <3>5. \A a \in Owed' : \/ a \in Owed
                             \/ /\ a[1] = entry /\ job[j].op = "add"
                                /\ a[2] \in ToSet(job[j].mine)
        <4>1. acked' = acked
          BY <2>4 DEF Saves, past
        <4>2. QED
          BY <2>4, <3>1, <4>1 DEF Saves, Owed
      <3>6. ASSUME NEW a \in Owed', phase # "none", a[1] = entry,
                   << "pick", a[2].id >> \notin dropped
            PROVE  HasId(job[j].out, a[2])
        BY <2>4, <3>5, <3>6 DEF Saves, OwedKept, MineSaved
      <3>7. UNCHANGED << entry, phase, newer, items, dropped >>
        BY <2>4 DEF Saves, past
      <3>8. OwedKept'
        <4>1. entry # 0
          BY <3>1 DEF Entries
        <4>2. \A a \in Owed' : a[1] \in Nat /\ a[1] <= entry
          <5> TAKE a \in Owed'
          <5>1. CASE a \in Owed
            BY <5>1 DEF OwedKept
          <5>2. CASE a[1] = entry
            BY <1>1, <5>2
          <5>3. QED
            BY <3>5, <5>1, <5>2
        <4>3. QED
          BY <3>1, <3>2, <3>3, <3>4, <3>6, <3>7, <4>1, <4>2 DEF OwedKept
      <3>9. QED
        BY <3>3, <3>8 DEF MineSaved
    <2>5. QED
      BY <1>2, <2>1, <2>2, <2>3, <2>4, StepKinds DEF StoreInv
  <1>3. ASSUME UNCHANGED << entry, phase, newer, items, store, acked >>, dropped \subseteq dropped',
               \A k \in Jobs : job'[k].at # "start" => job'[k] = job[k]
        PROVE  OwedKept' /\ MineSaved'
    <2>1. Owed' \subseteq Owed
      BY <1>3 DEF Owed
    <2>2. OwedKept'
      BY <1>3, <2>1 DEF OwedKept
    <2>3. MineSaved'
      BY <1>3 DEF MineSaved
    <2>4. QED
      BY <2>2, <2>3
  <1>4. ASSUME NEW j \in Jobs, Calls(j) PROVE OwedKept' /\ MineSaved'
    BY <1>3, <1>4, CallMoves DEF past
  <1>5. CASE PollStart \/ PollEnd \/ \E f \in Files : RemoveByHand(f)
    BY <1>3, <1>5 DEF PollStart, PollEnd, RemoveByHand, past
  <1>6. CASE UserDeletesEntry \/ ForgetEntry \/ EntryLeaves
    <2>1. job' = job /\ acked' = acked /\ entry' = entry
      BY <1>6 DEF UserDeletesEntry, ForgetEntry, EntryLeaves, past
    <2>2. Owed' = Owed /\ MineSaved'
      BY <2>1 DEF Owed, MineSaved
    <2>3. CASE UserDeletesEntry
      BY <2>1, <2>2, <2>3 DEF UserDeletesEntry, OwedKept
    <2>4. CASE ForgetEntry
      BY <2>1, <2>2, <2>4 DEF ForgetEntry, OwedKept, past
    <2>5. CASE EntryLeaves
      BY <2>1, <2>2, <2>5 DEF EntryLeaves, OwedKept
    <2>6. QED
      BY <1>6, <2>2, <2>3, <2>4, <2>5
  <1>7. CASE Restart
    <2>1. \A k \in Jobs : job'[k].at = "idle"
      BY <1>7 DEF Restart, Idle
    <2>2. UNCHANGED << entry, newer, store, acked, dropped >>
      BY <1>7 DEF Restart, past
    <2>3. Owed' \subseteq Owed
      BY <2>1, <2>2 DEF Owed
    <2>4. OwedKept'
      <3>1. phase' # "none" => phase # "none"
        BY <1>7 DEF Restart
      <3>2. ASSUME NEW a \in Owed, phase # "none", a[1] = entry, << "pick", a[2].id >> \notin dropped
            PROVE  /\ ~newer /\ entry # 0 /\ store[entry] # NotHeld /\ HasId(store[entry], a[2])
                   /\ items' = store[entry]
        <4>1. ~newer /\ entry # 0 /\ store[entry] # NotHeld /\ HasId(store[entry], a[2])
          BY <3>2 DEF OwedKept
        <4>2. QED
          BY <1>7, <3>2, <4>1 DEF Restart
      <3>3. \A a \in Owed : a[1] \in Nat /\ a[1] <= entry
        BY DEF OwedKept
      <3>4. QED
        BY <2>1, <2>2, <2>3, <3>1, <3>2, <3>3 DEF OwedKept
    <2>5. QED
      BY <2>1, <2>4 DEF MineSaved
  <1>8. CASE UNCHANGED vars
    BY <1>3, <1>8 DEF vars, past
  <1>9. QED
    BY <1>2, <1>4, <1>5, <1>6, <1>7, <1>8 DEF Next

\* A card answered as added is there and saved, whatever other calls, polls and
\* restarts come, until it is asked to go or its Replica is removed.
THEOREM AddedStays == Spec => []AddedIsKept
  <1> DEFINE Inv == Shape /\ Present /\ StoreInv /\ OwedKept /\ MineSaved
  <1>1. Init => Inv
    <2> SUFFICES ASSUME Init PROVE Inv
      OBVIOUS
    <2>1. \A j \in Jobs : job[j].at = "idle"
      BY DEF Init, Idle
    <2>2. StoreInv
      BY <2>1 DEF Init, StoreInv, SavesOK, StoresOK, Saved, InStore, Entries
    <2>3. OwedKept /\ MineSaved
      BY <2>1 DEF Init, OwedKept, Owed, MineSaved
    <2>4. QED
      BY <2>2, <2>3, InitShape DEF Init, Present
  <1>2. Inv /\ [Next]_vars => Inv'
    BY NextShape, StayPresent, SavedStays, OwedStays DEF Shape
  <1>3. Inv => AddedIsKept
    BY DEF OwedKept, Owed, AddedIsKept, Held, HasId
  <1>4. QED
    BY <1>1, <1>2, <1>3, PTL DEF Spec

-----------------------------------------------------------------------------
(* The files of the cards                                                    *)

There(fs, by, f) == fs[f] # Absent \/ f \in by
AllThere(fs, by, ps) == \A n \in DOMAIN ps : There(fs, by, ps[n].file)
Spared(ps, f) == \A n \in DOMAIN ps : ps[n].file # f

FilesKept ==
    phase # "none" =>
      /\ items # NotHeld => AllThere(files, byHand, items)
      /\ AllThere(files, byHand, InStore)
      /\ \A j \in Jobs : job[j].at = "save" => AllThere(files, byHand, job[j].out)

\* A file about to be deleted is no card's.
UnlinkOK ==
    phase # "none" =>
      \A j \in Jobs : job[j].at = "unlink" =>
         /\ items # NotHeld => Spared(items, job[j].arg)
         /\ Spared(InStore, job[j].arg)

\* A file about to be a card's is there.
FoundOK ==
    \A j \in Jobs : job[j].at \in {"found", "make", "made"} =>
        \A i \in DOMAIN job[j].arg : There(files, byHand, job[j].arg[i][1])

LEMMA GrowThere ==
  ASSUME NEW fs, NEW by, NEW gs, NEW bz, NEW ps \in Seq(Pick),
         \A f \in Files : There(fs, by, f) => There(gs, bz, f), AllThere(fs, by, ps)
  PROVE  AllThere(gs, bz, ps)
  <1>1. \A n \in DOMAIN ps : ps[n] \in Pick
    OBVIOUS
  <1>2. \A n \in DOMAIN ps : ps[n].file \in Files
    BY <1>1 DEF Pick
  <1>3. QED
    BY <1>2 DEF AllThere

LEMMA InStoreType == Shape => InStore \in Seq(Pick)
  BY DEF Shape, TypeOK, InStore, NoPicks, Entries

LEMMA DocIsThere == Absent \notin Doc /\ Broken # Absent
  BY DEF Doc, Absent, Broken

LEMMA ExceptThere ==
  ASSUME Shape, NEW g, NEW doc, doc # Absent, files' = [files EXCEPT ![g] = doc], byHand' = byHand
  PROVE  \A f \in Files : There(files, byHand, f) => There(files', byHand', f)
  BY DEF Shape, TypeOK, There

LEMMA StepFiles ==
  ASSUME Shape, Present, FoundOK, NEW j \in Jobs, Step(j)
  PROVE  /\ \/ DeleteFile(j)
            \/ \A f \in Files : There(files, byHand, f) => There(files', byHand', f)
         /\ job'[j].at = "unlink" =>
              /\ lock = NoJob
              /\ phase # "none" => Spared(Held, job'[j].arg)
         /\ job'[j].at \in {"found", "make", "made"} =>
              \A i \in DOMAIN job'[j].arg : There(files', byHand', job'[j].arg[i][1])
  <1> DEFINE r == job[j]
  <1>1. IsJob(r) /\ JobOK(r)
    BY DEF Shape, TypeOK
  <1>2. ASSUME NEW q, Go(j, q) PROVE job'[j] = q
    BY <1>2, GoMoves DEF Shape
  <1>3. ASSUME files' = files, byHand' = byHand
        PROVE  \A f \in Files : There(files, byHand, f) => There(files', byHand', f)
    BY <1>3
  <1>4. Idle.at = "idle"
    BY DEF Idle
  <1>5. CASE Go(j, Idle) /\ files' = files /\ byHand' = byHand
    BY <1>2, <1>3, <1>4, <1>5
  <1>6. CASE DeleteFile(j)
    <2>1. job'[j] = Idle
      BY <1>2, <1>6 DEF DeleteFile
    <2>2. QED
      BY <1>4, <1>6, <2>1
  <1>7. CASE WriteFile(j)
    <2>1. job'[j] = Idle
      BY <1>2, <1>7 DEF WriteFile
    <2>2. r.arg # Absent
      BY <1>1, <1>7, DocIsThere DEF WriteFile, At, JobOK
    <2>3. PICK n \in UserSlots : files' = [files EXCEPT ![<< "user", n >>] = r.arg]
      BY <1>7 DEF WriteFile
    <2>4. byHand' = byHand
      BY <1>7 DEF WriteFile, past
    <2>5. \A f \in Files : There(files, byHand, f) => There(files', byHand', f)
      BY <2>2, <2>3, <2>4, ExceptThere
    <2>6. QED
      BY <1>4, <2>1, <2>5
  <1>8. CASE CopyTaken(j)
    <2>1. PICK n \in UserSlots : \E p, doc : Copied(j, n, p, doc)
      BY <1>8 DEF CopyTaken
    <2>2. PICK p, doc : Copied(j, n, p, doc)
      BY <2>1
    <2>3. byHand' = byHand
      BY <1>8 DEF CopyTaken, past
    <2>4. \A f \in Files : There(files, byHand, f) => There(files', byHand', f)
      BY <2>2, <2>3, ExceptThere DEF Copied
    <2>5. job'[j] = [r EXCEPT !.at = "save", !.out = SwitchedTo(n, p)]
      BY <1>2, <2>2 DEF Copied
    <2>6. job'[j].at = "save"
      BY <1>1, <2>5 DEF IsJob
    <2>7. QED
      BY <2>4, <2>6
  <1>9. ASSUME files' = files, byHand' = byHand,
               job'[j].at \notin {"unlink", "found", "make", "made"}
        PROVE  /\ \A f \in Files : There(files, byHand, f) => There(files', byHand', f)
               /\ job'[j].at # "unlink" /\ job'[j].at \notin {"found", "make", "made"}
    BY <1>3, <1>9
  <1>10. CASE AddFind(j) /\ ~Go(j, Idle)
    <2> DEFINE x == [i \in DOMAIN r.arg |-> << r.arg[i], files[r.arg[i]] >>]
    <2>1. /\ \A i \in DOMAIN r.arg : Readable(r.arg[i])
          /\ Go(j, [r EXCEPT !.at = "found", !.arg = x])
          /\ files' = files /\ byHand' = byHand
      BY <1>10 DEF AddFind, Refuse, past
    <2>2. job'[j] = [r EXCEPT !.at = "found", !.arg = x]
      BY <1>2, <2>1
    <2>3. job'[j].at = "found" /\ job'[j].arg = x
      BY <1>1, <2>2 DEF IsJob
    <2>4. \A i \in DOMAIN x : There(files', byHand', x[i][1])
      BY <2>1 DEF Readable, Listed, There
    <2> HIDE DEF x
    <2>5. QED
      BY <1>3, <2>1, <2>3, <2>4
  <1>11. CASE DeleteLook(j) /\ ~Go(j, Idle)
    <2>1. /\ ~(EntryFound /\ \E n \in DOMAIN Held : Held[n].file = r.arg)
          /\ lock = NoJob /\ Go(j, [r EXCEPT !.at = "unlink"])
          /\ files' = files /\ byHand' = byHand
      BY <1>11 DEF DeleteLook, Takes, Refuse, past
    <2>2. job'[j] = [r EXCEPT !.at = "unlink"]
      BY <1>2, <2>1
    <2>3. job'[j].at = "unlink" /\ job'[j].arg = r.arg
      BY <1>1, <2>2 DEF IsJob
    <2>4. phase # "none" => Spared(Held, r.arg)
      BY <2>1 DEF EntryFound, Spared
    <2>5. QED
      BY <1>3, <2>1, <2>3, <2>4
  <1>12. CASE PlainStep(j) /\ ~AddFind(j) /\ ~DeleteLook(j) /\ ~DeleteFile(j) /\ ~WriteFile(j)
    <2>1. files' = files /\ byHand' = byHand
      BY <1>12 DEF PlainStep, AddDone, RemovePolled, ForgetPickDevice, RemoveLast, EditLook,
           EditDone, WriteLook, RefreshStart, Refuse, past
    <2>2. \/ Go(j, Idle)
          \/ Go(j, [r EXCEPT !.at = "forget"]) \/ Go(j, [r EXCEPT !.at = "writing"])
          \/ \E x : \/ Go(j, [r EXCEPT !.at = "write", !.mine = x])
                    \/ Go(j, [r EXCEPT !.at = "polling", !.out = x])
      BY <1>12 DEF PlainStep, AddDone, RemovePolled, ForgetPickDevice, RemoveLast, EditLook,
           EditDone, WriteLook, RefreshStart, Refuse
    <2>3. PICK x : \/ Go(j, Idle)
                   \/ Go(j, [r EXCEPT !.at = "forget"]) \/ Go(j, [r EXCEPT !.at = "writing"])
                   \/ Go(j, [r EXCEPT !.at = "write", !.mine = x])
                   \/ Go(j, [r EXCEPT !.at = "polling", !.out = x])
      BY <2>2
    <2> DEFINE u == [r EXCEPT !.at = "forget"]
               v == [r EXCEPT !.at = "writing"]
               w == [r EXCEPT !.at = "write", !.mine = x]
               z == [r EXCEPT !.at = "polling", !.out = x]
    <2>4. u.at = "forget" /\ v.at = "writing" /\ w.at = "write" /\ z.at = "polling"
      BY <1>1 DEF IsJob
    <2>5. Go(j, Idle) \/ Go(j, u) \/ Go(j, v) \/ Go(j, w) \/ Go(j, z)
      BY <2>3
    <2> HIDE DEF u, v, w, z, Idle
    <2>6. job'[j].at \notin {"unlink", "found", "make", "made"}
      BY <1>2, <1>4, <2>4, <2>5
    <2>7. QED
      BY <1>9, <2>1, <2>6
  <1>13. CASE Save(j, "refresh") /\ ~Refuse(j)
    <2>1. Go(j, [r EXCEPT !.at = "refresh"]) /\ files' = files /\ byHand' = byHand
      BY <1>13 DEF Save, past
    <2>2. job'[j] = [r EXCEPT !.at = "refresh"]
      BY <1>2, <2>1
    <2>3. job'[j].at = "refresh"
      BY <1>1, <2>2 DEF IsJob
    <2>4. QED
      BY <1>9, <2>1, <2>3
  <1>14. CASE Refuse(j)
    BY <1>5, <1>14 DEF Refuse, past
  <1>15. CASE PickTaken(j)
    <2>1. /\ files' = files /\ byHand' = byHand
          /\ \E x, y : \/ Go(j, [r EXCEPT !.at = "last", !.mine = x])
                       \/ Go(j, [r EXCEPT !.at = "save", !.mine = x, !.out = y])
      BY <1>15 DEF PickTaken
    <2>2. PICK x, y : \/ Go(j, [r EXCEPT !.at = "last", !.mine = x])
                      \/ Go(j, [r EXCEPT !.at = "save", !.mine = x, !.out = y])
      BY <2>1
    <2> DEFINE u == [r EXCEPT !.at = "last", !.mine = x]
               v == [r EXCEPT !.at = "save", !.mine = x, !.out = y]
    <2>3. u.at = "last" /\ v.at = "save" /\ (Go(j, u) \/ Go(j, v))
      BY <1>1, <2>2 DEF IsJob
    <2> HIDE DEF u, v
    <2>5. job'[j].at \notin {"unlink", "found", "make", "made"}
      BY <1>2, <2>3
    <2>6. QED
      BY <1>9, <2>1, <2>5
  <1>16. CASE /\ Go(j, [r EXCEPT !.at = "refresh"]) /\ files' = files /\ byHand' = byHand
    <2>1. job'[j] = [r EXCEPT !.at = "refresh"]
      BY <1>2, <1>16
    <2>2. job'[j].at = "refresh"
      BY <1>1, <2>1 DEF IsJob
    <2>3. QED
      BY <1>9, <1>16, <2>2
  <1>17. CASE BatchTaken(j)
    <2>1. files' = files /\ byHand' = byHand /\ job'[j].at = "save"
      BY <1>17, BatchTakes DEF TakesPicks
    <2>2. QED
      BY <1>9, <2>1
  <1>18. ASSUME NEW a \in {"make", "made"}, r.at \in {"found", "make"}, Go(j, [r EXCEPT !.at = a]),
                files' = files, byHand' = byHand
         PROVE  /\ \A f \in Files : There(files, byHand, f) => There(files', byHand', f)
                /\ job'[j].at # "unlink"
                /\ \A i \in DOMAIN job'[j].arg : There(files', byHand', job'[j].arg[i][1])
    <2>1. job'[j] = [r EXCEPT !.at = a]
      BY <1>2, <1>18
    <2>2. job'[j].at = a /\ job'[j].arg = r.arg
      BY <1>1, <2>1 DEF IsJob
    <2>3. \A i \in DOMAIN r.arg : There(files, byHand, r.arg[i][1])
      BY <1>18 DEF FoundOK
    <2>4. QED
      BY <1>3, <1>18, <2>2, <2>3
  <1>19. CASE AddMake(j)
    BY <1>18, <1>19 DEF AddMake, At, past
  <1>20. CASE AddCheck(j) \/ AddMade(j)
    <2>1. CASE /\ AddCheck(j) /\ Go(j, [job[j] EXCEPT !.at = "make"])
               /\ UNCHANGED << files, entry, phase, newer, items, store, lock, poll, cards, count, past >>
      BY <1>18, <2>1 DEF AddCheck, At, past
    <2>2. QED
      BY <1>14, <1>17, <1>20, <2>1, AddCases
  <1>21. CASE EditWrite(j)
    BY <1>8, <1>14, <1>16, <1>21, EditCases DEF past
  <1>22. CASE RemoveLook(j)
    BY <1>14, <1>15, <1>22, RemoveCases
  <1>23. CASE PlainStep(j)
    <2>1. CASE AddFind(j) /\ Go(j, Idle)
      BY <1>5, <2>1 DEF AddFind, Refuse, past
    <2>2. CASE DeleteLook(j) /\ Go(j, Idle)
      BY <1>5, <2>2 DEF DeleteLook, Refuse, past
    <2>3. QED
      BY <1>6, <1>7, <1>10, <1>11, <1>12, <1>23, <2>1, <2>2
  <1>24. QED
    BY <1>13, <1>14, <1>19, <1>20, <1>21, <1>22, <1>23, StepCases

LEMMA ConcatThere ==
  ASSUME NEW fs, NEW by, NEW ps \in Seq(Pick), NEW qs \in Seq(Pick),
         AllThere(fs, by, ps), AllThere(fs, by, qs)
  PROVE  AllThere(fs, by, ps \o qs)
  <1>1. /\ ps \o qs \in Seq(Pick) /\ Len(ps \o qs) = Len(ps) + Len(qs)
        /\ \A i \in 1 .. Len(ps) + Len(qs) :
              (ps \o qs)[i] = IF i <= Len(ps) THEN ps[i] ELSE qs[i - Len(ps)]
    BY ConcatProperties, Zenon
  <1>2. /\ Len(ps) \in Nat /\ Len(qs) \in Nat
        /\ DOMAIN ps = 1 .. Len(ps) /\ DOMAIN qs = 1 .. Len(qs)
    OBVIOUS
  <1> DEFINE rs == ps \o qs
  <1> HIDE DEF rs
  <1>3. DOMAIN rs = 1 .. Len(ps) + Len(qs)
    BY <1>1, <1>2 DEF rs
  <1>4. ASSUME NEW i \in DOMAIN rs PROVE There(fs, by, rs[i].file)
    <2>1. CASE i <= Len(ps)
      <3>1. i \in DOMAIN ps /\ rs[i] = ps[i]
        BY <1>1, <1>2, <1>3, <2>1 DEF rs
      <3>2. QED
        BY <3>1 DEF AllThere
    <2>2. CASE ~(i <= Len(ps))
      <3>1. i - Len(ps) \in DOMAIN qs /\ rs[i] = qs[i - Len(ps)]
        <4>1. i \in 1 .. Len(ps) + Len(qs) /\ i - Len(ps) \in 1 .. Len(qs)
          BY <1>2, <1>3, <2>2
        <4>2. QED
          BY <1>1, <1>2, <2>2, <4>1 DEF rs
      <3>2. QED
        BY <3>1 DEF AllThere
    <2>3. QED
      BY <2>1, <2>2
  <1>5. QED
    BY <1>4 DEF AllThere, rs

LEMMA WithoutThere ==
  ASSUME NEW fs, NEW by, NEW ps \in Seq(Pick), NEW n \in DOMAIN ps, AllThere(fs, by, ps)
  PROVE  AllThere(fs, by, Without(ps, n))
  <1> DEFINE qs == Without(ps, n)
  <1>1. /\ qs \in Seq(Pick) /\ DOMAIN qs = 1 .. Len(ps) - 1
        /\ \A i \in 1 .. Len(ps) - 1 : qs[i] = ps[IF i < n THEN i ELSE i + 1]
    BY WithoutType
  <1>2. n \in 1 .. Len(ps) /\ Len(ps) \in Nat /\ DOMAIN ps = 1 .. Len(ps)
    OBVIOUS
  <1> HIDE DEF qs
  <1>3. \A i \in DOMAIN qs : \E m \in DOMAIN ps : qs[i] = ps[m]
    BY <1>1, <1>2
  <1>4. QED
    BY <1>3 DEF AllThere, qs

\* The picks that are taken have files that are there.
LEMMA TakenThere ==
  ASSUME Shape, Present, FoundOK, NEW j \in Jobs, TakenBy(j), AllThere(files, byHand, Held)
  PROVE  AllThere(files', byHand', items')
  <1>1. Held \in Seq(Pick) /\ nextPick \in Nat
    BY HeldType DEF Shape, TypeOK
  <1>2. CASE BatchTaken(j) /\ job[j].at \in {"found", "made"}
    <2> DEFINE recs == job[j].arg
    <2>1. PICK names \in [DOMAIN recs -> Numbers] :
              items' = Held \o NewPicks(recs, names, nextPick)
      BY <1>2, BatchTakes
    <2>2. recs \in Seq(Files \X Doc) /\ files' = files /\ byHand' = byHand
      BY <1>2 DEF BatchTaken, past
    <2>3. \A i \in DOMAIN recs : There(files, byHand, recs[i][1])
      BY <1>2 DEF FoundOK
    <2> HIDE DEF recs
    <2> DEFINE new == NewPicks(recs, names, nextPick)
    <2>4. new \in Seq(Pick)
      BY <1>1, <2>1, <2>2, NewPicksType
    <2>5. DOMAIN new = DOMAIN recs /\ \A i \in DOMAIN recs : new[i].file = recs[i][1]
      BY DEF NewPicks
    <2> HIDE DEF new
    <2>6. AllThere(files, byHand, new)
      BY <2>3, <2>5 DEF AllThere
    <2>7. AllThere(files, byHand, Held \o new)
      BY <1>1, <2>4, <2>6, ConcatThere
    <2>8. QED
      BY <2>1, <2>2, <2>7 DEF new
  <1>3. CASE files' = files /\ byHand' = byHand /\ \E n \in DOMAIN Held : items' = Without(Held, n)
    BY <1>1, <1>3, WithoutThere
  <1>4. CASE CopyTaken(j)
    <2>1. PICK n \in UserSlots : \E p, doc : Copied(j, n, p, doc)
      BY <1>4 DEF CopyTaken
    <2>2. PICK p, doc : Copied(j, n, p, doc)
      BY <2>1
    <2>3. /\ byHand' = byHand /\ doc # Absent /\ files' = [files EXCEPT ![<< "user", n >>] = doc]
          /\ items' = SwitchedTo(n, p)
      BY <1>4, <2>2 DEF CopyTaken, past, Copied
    <2>4. \A f \in Files : There(files, byHand, f) => There(files', byHand', f)
      BY <2>3, ExceptThere
    <2>5. There(files', byHand', << "user", n >>)
      BY <2>3 DEF There, Files, Shape, TypeOK
    <2>6. AllThere(files', byHand', Held)
      BY <1>1, <2>4, GrowThere
    <2>7. \A i \in DOMAIN Held : Held[i] \in Pick
      BY <1>1
    <2>8. /\ DOMAIN SwitchedTo(n, p) = DOMAIN Held
          /\ \A i \in DOMAIN Held : SwitchedTo(n, p)[i].file \in {Held[i].file, << "user", n >>}
      BY <2>7 DEF SwitchedTo, Pick
    <2>9. AllThere(files', byHand', SwitchedTo(n, p))
      BY <2>5, <2>6, <2>8 DEF AllThere
    <2>10. QED
      BY <2>3, <2>9
  <1>5. QED
    BY <1>2, <1>3, <1>4 DEF TakenBy

\* A deleted file is no card's.
LEMMA DeleteSpares ==
  ASSUME Shape, NEW j \in Jobs, DeleteFile(j), NEW ps, Spared(ps, job[j].arg),
         AllThere(files, byHand, ps)
  PROVE  AllThere(files', byHand', ps)
  <1>1. byHand' = byHand /\ \A f : f # job[j].arg => files'[f] = files[f]
    BY DEF DeleteFile, past, Shape, TypeOK
  <1>2. QED
    BY <1>1 DEF AllThere, Spared, There

FilesInv == FilesKept /\ UnlinkOK /\ FoundOK

LEMMA HeldThere == ASSUME FilesKept, phase # "none" PROVE AllThere(files, byHand, Held)
  BY DEF FilesKept, Held, InStore, NoPicks, AllThere

\* Picks, Stores and calls as they were, the files there or more of them.
LEMMA FilesGrow ==
  ASSUME Shape, FilesInv, \A f \in Files : There(files, byHand, f) => There(files', byHand', f),
         UNCHANGED << entry, store >>, phase' # "none" => phase # "none",
         items' \in {items, NotHeld, NoPicks, InStore},
         \A k \in Jobs : job'[k].at \in Holding => job'[k] = job[k]
  PROVE  FilesInv'
  <1>1. /\ InStore' = InStore /\ InStore \in Seq(Pick)
        /\ items # NotHeld => items \in Seq(Pick)
        /\ \A k \in Jobs : job[k].out \in Seq(Pick)
    BY InStoreType DEF InStore, Shape, TypeOK, IsJob
  <1>2. ASSUME NEW ps \in Seq(Pick), AllThere(files, byHand, ps)
        PROVE  AllThere(files', byHand', ps)
    BY <1>2, GrowThere
  <1>3. AllThere(files', byHand', NoPicks) /\ \A f : Spared(NoPicks, f)
    BY DEF AllThere, Spared, NoPicks
  <1>4. FilesKept'
    <2> SUFFICES ASSUME phase # "none", phase' # "none" PROVE FilesKept'
      BY DEF FilesKept
    <2>1. items' # NotHeld => AllThere(files', byHand', items')
      BY <1>1, <1>2, <1>3 DEF FilesInv, FilesKept
    <2>2. AllThere(files', byHand', InStore')
      BY <1>1, <1>2 DEF FilesInv, FilesKept
    <2>3. \A k \in Jobs : job'[k].at = "save" => AllThere(files', byHand', job'[k].out)
      BY <1>1, <1>2 DEF FilesInv, FilesKept, Holding
    <2>4. QED
      BY <2>1, <2>2, <2>3 DEF FilesKept
  <1>5. UnlinkOK'
    BY <1>1, <1>3 DEF FilesInv, UnlinkOK, Holding
  <1>6. FoundOK'
    <2> SUFFICES ASSUME NEW k \in Jobs, job'[k].at \in {"found", "make", "made"}
                 PROVE  \A i \in DOMAIN job'[k].arg : There(files', byHand', job'[k].arg[i][1])
      BY DEF FoundOK
    <2>1. job'[k] = job[k]
      BY DEF Holding
    <2>2. job[k].arg \in Seq(Files \X Doc)
      BY <2>1 DEF Shape, JobOK
    <2>3. \A i \in DOMAIN job[k].arg : job[k].arg[i][1] \in Files
      BY <2>2
    <2>4. QED
      BY <2>1, <2>3 DEF FilesInv, FoundOK
  <1>7. QED
    BY <1>4, <1>5, <1>6 DEF FilesInv

LEMMA FilesStay ==
  ASSUME Shape, Present, StoreInv, FilesInv, [Next]_vars
  PROVE  FilesInv'
  <1>1. /\ entry \in Nat /\ \A k \in Jobs : IsJob(job[k])
        /\ DOMAIN store = Entries /\ DOMAIN job = Jobs
    BY DEF Shape, TypeOK
  <1>2. ASSUME NEW j \in Jobs, Step(j) PROVE FilesInv'
    <2>1. /\ \/ DeleteFile(j)
             \/ \A f \in Files : There(files, byHand, f) => There(files', byHand', f)
          /\ job'[j].at = "unlink" =>
               /\ lock = NoJob
               /\ phase # "none" => Spared(Held, job'[j].arg)
          /\ job'[j].at \in {"found", "make", "made"} =>
               \A i \in DOMAIN job'[j].arg : There(files', byHand', job'[j].arg[i][1])
      BY <1>2, StepFiles DEF FilesInv
    <2>2. DeleteFile(j) => job'[j].at = "idle"
      BY GoMoves DEF DeleteFile, Shape, Idle
    <2>3. CASE Quiet(j)
      <3>1. /\ InStore' = InStore /\ items' = items /\ byHand' = byHand
            /\ (phase' # "none") <=> (phase # "none")
            /\ \A k \in Jobs : k # j => job'[k] = job[k]
            /\ job'[j].at # "save"
        BY <2>3 DEF Quiet, InStore
      <3>2. /\ InStore \in Seq(Pick)
            /\ items # NotHeld => items \in Seq(Pick)
            /\ \A k \in Jobs : job[k].out \in Seq(Pick)
        BY <1>1, InStoreType DEF Shape, TypeOK, IsJob
      <3>3. FilesKept'
        <4>1. CASE DeleteFile(j)
          <5>1. job[j].at = "unlink" /\ lock = j
            BY <4>1 DEF DeleteFile, At, Shape, Locked, Holding
          <5>2. \A k \in Jobs : job'[k].at # "save"
            BY <3>1, <5>1, Alone DEF Holding
          <5>3. phase # "none" =>
                  /\ items # NotHeld => AllThere(files', byHand', items)
                  /\ AllThere(files', byHand', InStore)
            BY <4>1, <5>1, DeleteSpares DEF FilesInv, FilesKept, UnlinkOK
          <5>4. QED
            BY <3>1, <5>2, <5>3 DEF FilesKept
        <4>2. CASE \A f \in Files : There(files, byHand, f) => There(files', byHand', f)
          <5>1. ASSUME NEW ps \in Seq(Pick), AllThere(files, byHand, ps)
                PROVE  AllThere(files', byHand', ps)
            BY <4>2, <5>1, GrowThere
          <5>2. QED
            BY <3>1, <3>2, <5>1 DEF FilesInv, FilesKept
        <4>3. QED
          BY <2>1, <4>1, <4>2
      <3>4. UnlinkOK'
        <4>1. ASSUME phase # "none", job'[j].at = "unlink"
              PROVE  /\ items # NotHeld => Spared(items, job'[j].arg)
                     /\ Spared(InStore, job'[j].arg)
          <5>1. \A k \in Jobs : job[k].at # "save"
            BY <2>1, <4>1 DEF Shape, Locked, Holding
          <5>2. Spared(Held, job'[j].arg) /\ Spared(NoPicks, job'[j].arg)
            BY <2>1, <4>1 DEF Spared, NoPicks
          <5>3. CASE newer
            <6>1. InStore = NoPicks
              BY <5>3 DEF InStore, StoreInv, StoresOK
            <6>2. QED
              BY <5>2, <6>1 DEF Held
          <5>4. CASE ~newer
            <6>1. Held = InStore
              BY <4>1, <5>1, <5>4 DEF Held, InStore, StoreInv, Saved
            <6>2. items # NotHeld => items = Held
              BY DEF Held
            <6>3. QED
              BY <5>2, <6>1, <6>2
          <5>5. QED
            BY <5>3, <5>4
        <4>2. QED
          BY <3>1, <4>1 DEF FilesInv, UnlinkOK
      <3>5. FoundOK'
        <4> SUFFICES ASSUME NEW k \in Jobs, k # j, job[k].at \in {"found", "make", "made"}
                     PROVE  \A i \in DOMAIN job[k].arg : There(files', byHand', job[k].arg[i][1])
          BY <2>1, <3>1 DEF FoundOK
        <4>1. job[k].arg \in Seq(Files \X Doc) /\ lock = k
          BY DEF Shape, JobOK, Locked, Holding
        <4>2. \A i \in DOMAIN job[k].arg : job[k].arg[i][1] \in Files
          BY <4>1
        <4>3. ~DeleteFile(j)
          BY <4>1 DEF DeleteFile, At, Shape, Locked, Holding
        <4>4. QED
          BY <2>1, <4>2, <4>3 DEF FilesInv, FoundOK
      <3>6. QED
        BY <3>3, <3>4, <3>5 DEF FilesInv
    <2>4. CASE TakesPicks(j) /\ TakenBy(j)
      <3>1. /\ \A f \in Files : There(files, byHand, f) => There(files', byHand', f)
            /\ InStore' = InStore /\ InStore \in Seq(Pick) /\ phase' = phase
        BY <2>1, <2>2, <2>4, InStoreType DEF TakesPicks, InStore
      <3>2. \A k \in Jobs : /\ job'[k].at \in Holding => k = j
                            /\ job'[j].at = "save" /\ job'[j].out = items'
        BY <2>4 DEF TakesPicks
      <3>3. phase # "none" => AllThere(files', byHand', items') /\ AllThere(files', byHand', InStore)
        BY <2>4, <3>1, HeldThere, TakenThere, GrowThere DEF FilesInv, FilesKept
      <3>4. FilesKept'
        BY <3>1, <3>2, <3>3 DEF FilesKept, Holding
      <3>5. UnlinkOK' /\ FoundOK'
        BY <3>2 DEF UnlinkOK, FoundOK, Holding
      <3>6. QED
        BY <3>4, <3>5 DEF FilesInv
    <2>5. CASE AddMake(j)
      <3>1. /\ entry' = entry + 1 /\ items' = NoPicks /\ store' = store /\ entry + 1 \in Entries
            /\ job[j].at = "make"
        BY <2>5 DEF AddMake, At
      <3>2. InStore' = NoPicks
        BY <1>1, <3>1 DEF InStore, StoreInv, StoresOK
      <3>3. lock = j
        BY <3>1 DEF Shape, Locked, Holding
      <3>4. /\ \A k \in Jobs : job'[k].at \in Holding => k = j
            /\ job'[j].at = "made"
        <4> DEFINE q == [job[j] EXCEPT !.at = "made"]
        <4>1. q.at = "made" /\ Go(j, q)
          BY <1>1, <2>5 DEF AddMake, IsJob
        <4> HIDE DEF q
        <4>2. job'[j] = q /\ \A k \in Jobs : k # j => job'[k] = job[k]
          BY <4>1, GoMoves DEF Shape
        <4>3. QED
          BY <3>3, <4>1, <4>2, Alone
      <3>5. FilesKept'
        BY <3>1, <3>2, <3>4 DEF FilesKept, AllThere, NoPicks, Holding
      <3>6. UnlinkOK' /\ FoundOK'
        BY <2>1, <3>4 DEF UnlinkOK, FoundOK, Holding
      <3>7. QED
        BY <3>5, <3>6 DEF FilesInv
    <2>6. CASE Saves(j)
      <3>1. job[j].g = entry /\ entry \in Entries /\ lock = j
        BY <2>6 DEF Saves, StoreInv, SavesOK, Shape, Locked, Holding
      <3>2. \A k \in Jobs : job'[k].at \notin Holding
        BY <2>6, <3>1, Alone DEF Saves, Holding
      <3>3. InStore' = job[j].out
        <4>1. job[j].out # NotHeld
          BY <1>1 DEF IsJob
        <4>2. entry # 0 /\ store'[entry] = job[j].out
          BY <1>1, <2>6, <3>1 DEF Saves, Entries
        <4>3. QED
          BY <2>6, <4>1, <4>2 DEF Saves, InStore
      <3>4. UNCHANGED << files, byHand, phase, items >>
        BY <2>6 DEF Saves, past
      <3>5. FilesKept'
        BY <2>6, <3>2, <3>3, <3>4 DEF Saves, FilesInv, FilesKept, Holding
      <3>6. UnlinkOK' /\ FoundOK'
        BY <3>2 DEF UnlinkOK, FoundOK, Holding
      <3>7. QED
        BY <3>5, <3>6 DEF FilesInv
    <2>7. QED
      BY <1>2, <2>3, <2>4, <2>5, <2>6, StepKinds DEF StoreInv
  <1>3. ASSUME NEW j \in Jobs, Calls(j) PROVE FilesInv'
    <2>1. /\ UNCHANGED << files, byHand, entry, store, phase, items >>
          /\ \A k \in Jobs : job'[k].at \in Holding => job'[k] = job[k]
      BY <1>3, CallMoves DEF past, Holding
    <2>2. QED
      BY <2>1, FilesGrow
  <1>4. CASE PollStart \/ PollEnd \/ UserDeletesEntry \/ ForgetEntry
    <2>1. /\ UNCHANGED << files, byHand, entry, store, job >> /\ items' \in {items, NotHeld}
          /\ phase' # "none" => phase # "none"
      BY <1>4 DEF PollStart, PollEnd, UserDeletesEntry, ForgetEntry, past
    <2>2. QED
      BY <2>1, FilesGrow
  <1>5. ASSUME NEW f \in Files, RemoveByHand(f) PROVE FilesInv'
    <2>1. /\ UNCHANGED << entry, store, job, items, phase >>
          /\ files' = [files EXCEPT ![f] = Absent] /\ byHand' = byHand \cup {f}
      BY <1>5 DEF RemoveByHand
    <2>2. \A g \in Files : There(files, byHand, g) => There(files', byHand', g)
      BY <2>1 DEF There, Shape, TypeOK
    <2>3. QED
      BY <2>1, <2>2, FilesGrow
  <1>6. CASE EntryLeaves
    <2>1. phase' = "none" /\ UNCHANGED << files, byHand, job >>
      BY <1>6 DEF EntryLeaves, past
    <2>2. QED
      BY <2>1 DEF FilesInv, FilesKept, UnlinkOK, FoundOK
  <1>7. CASE Restart
    <2>1. /\ \A k \in Jobs : job'[k].at = "idle"
          /\ UNCHANGED << files, byHand, entry, store >>
          /\ phase' # "none" => phase # "none"
      BY <1>7 DEF Restart, Idle, past
    <2>2. items' \in {NoPicks, InStore}
      BY <1>7 DEF Restart, InStore, Present
    <2>3. QED
      BY <2>1, <2>2, FilesGrow DEF Holding
  <1>8. CASE UNCHANGED vars
    BY <1>8, FilesGrow DEF vars, past
  <1>9. QED
    BY <1>2, <1>3, <1>4, <1>5, <1>6, <1>7, <1>8 DEF Next

\* No call deletes a file that a card of the Replica shows: what a deletion
\* found is still so when the file goes.
THEOREM UsedFilesStay == Spec => []FileInUseStays
  <1> DEFINE Inv == Shape /\ Present /\ StoreInv /\ FilesInv
  <1>1. Init => Inv
    <2> SUFFICES ASSUME Init PROVE Inv
      OBVIOUS
    <2>1. \A j \in Jobs : job[j].at = "idle"
      BY DEF Init, Idle
    <2>2. StoreInv
      BY <2>1 DEF Init, StoreInv, SavesOK, StoresOK, Saved, InStore, Entries
    <2>3. FilesInv
      BY <2>1 DEF Init, FilesInv, FilesKept, UnlinkOK, FoundOK, InStore, AllThere, NoPicks, Entries
    <2>4. QED
      BY <2>2, <2>3, InitShape DEF Init, Present
  <1>2. Inv /\ [Next]_vars => Inv'
    BY NextShape, StayPresent, SavedStays, FilesStay DEF Shape
  <1>3. Inv => FileInUseStays
    BY HeldThere DEF FilesInv, FileInUseStays, EntryFound, AllThere, There
  <1>4. QED
    BY <1>1, <1>2, <1>3, PTL DEF Spec
=============================================================================
