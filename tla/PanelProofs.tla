---------------------------- MODULE PanelProofs ----------------------------
(***************************************************************************)
(* Panel for any machines, cards, pushes and calls.                        *)
(*                                                                         *)
(* A page is current only at rest, so the invariant says what keeps it     *)
(* from being at rest: a machine is owed to the page while a flush is due  *)
(* for it or a push has yet to send it.  Each step that changes what would *)
(* be said of a machine owes it to an open page; each step that sends says *)
(* what is current, or leaves the machine outdated.  A step of Panel is    *)
(* then one of a few kinds: it changes the Store and tells of it, it draws *)
(* builds and views, which changes nothing that is said, or it changes     *)
(* what is known of one machine and tells of that one.                     *)
(***************************************************************************)
EXTENDS Panel, TLAPS

\* What is kept of an entry and how far its deletion is.
EntryOK(e) ==
    /\ leaving[e] # "no" => e \in known
    /\ coord[e] # None => e \in known /\ leaving[e] \in {"no", "asked"}
    /\ leaving[e] = "forgotten" => store # Unread
    /\ leaving[e] \in {"dropped", "forgotten"} \/ e \notin known => vfile[e] = None /\ ~vdue[e]
    /\ vdue[e] => view[e] # Unread
    /\ fits[e] # "no" => coord[e] # None /\ built[e] # None
    /\ fits[e] = "yes" => built[e] = coord[e].cards

EntriesOK == \A e \in Machines : EntryOK(e)

\* What is in memory is what is in the file, or is due to be saved.
StoreOK ==
    /\ store = Unread => ~due /\ ~readOnly
    /\ readOnly => store = EmptyMarks /\ file = Newer /\ ~due
    /\ store # Unread /\ ~readOnly /\ ~due => file = store

\* A machine that is forgotten, or gone, has no mark.
Forgot(e) == leaving[e] = "forgotten" \/ e \in ever \ known
ForgottenOK ==
    \A e \in Machines \ touched : Forgot(e) =>
        /\ store # Unread => ~Traces(store, e)
        /\ ~due /\ file # Newer => ~Traces(file, e)

\* A message about e will follow.
Owed(e) ==
    \/ e \in pending
    \/ \E t \in Pushes : push[t] # None /\ e \in push[t].todo \cup {push[t].at}

\* A page that is closed has nothing, and one that has anything has the Store.
PageOK ==
    /\ ~open => /\ pending = {} /\ ~stateDue /\ load = None
                /\ \A t \in Pushes : push[t] = None
                /\ \A e \in Machines : shown[e] = None
    /\ \A t \in Pushes : push[t] # None => store # Unread
    /\ open /\ load # Asked => store # Unread

\* A call that waits for a view has seen the Store.
CallsOK == \A i \in Calls : call[i] # None /\ call[i].at = "view" => store # Unread

\* The mark that takes c away is in the Store, or in the file that will be read.
Kept(c) == IF store # Unread THEN c \in store.removed ELSE file # Newer /\ c \in file.removed

\* A removed card is on the page only while its machine is owed.
TrashOK ==
    \A c \in trashed :
        /\ Kept(c)
        /\ c[1] \notin outdated /\ ~Owed(c[1]) =>
              shown[c[1]] = None \/ c[2] \notin shown[c[1]].cards

\* The page has the marks of the Store, unless it will be told of them.
SettingsOK == open /\ load = None /\ ~stateDue => settings = PageState(store)

\* The page has each machine as it is, unless it will be told of it.
ShownOK ==
    open /\ load = None =>
        \A e \in Machines :
            e \notin outdated /\ ~Owed(e) /\ leaving[e] = "no" /\ fits[e] # "chance"
                => shown[e] = Latest(e)

IInv ==
    /\ TypeOK
    /\ EntriesOK
    /\ StoreOK /\ CallsOK /\ ForgottenOK
    /\ PageOK /\ TrashOK /\ SettingsOK /\ ShownOK

Messages == UNION {[S -> Told \cup {None}] : S \in SUBSET Machines}

-----------------------------------------------------------------------------
(* What the Store holds.                                                     *)

LEMMA EmptyMap == DOMAIN <<>> = {} /\ <<>> \in [{} -> BOOLEAN] /\ <<>> \in Messages
  <1>1. DOMAIN <<>> = {} /\ <<>> = [x \in {} |-> TRUE]
    OBVIOUS
  <1>2. <<>> \in [{} -> BOOLEAN] /\ <<>> \in [{} -> Told \cup {None}]
    BY <1>1
  <1>3. QED
    BY <1>1, <1>2 DEF Messages

LEMMA HiddenIsMap ==
  ASSUME NEW s \in Marks
  PROVE  DOMAIN s.hidden \subseteq Cards /\ s.hidden \in [DOMAIN s.hidden -> BOOLEAN]
  <1>1. PICK S \in SUBSET Cards : s.hidden \in [S -> BOOLEAN]
    BY DEF Marks
  <1>2. QED
    BY <1>1

LEMMA EmptyFacts ==
  /\ EmptyMarks \in Marks /\ EmptyMarks.removed = {}
  /\ \A e : ~Traces(EmptyMarks, e)
  <1>1. {} \in SUBSET Cards /\ <<>> \in [{} -> BOOLEAN]
    BY EmptyMap
  <1>2. <<>> \in UNION {[S -> BOOLEAN] : S \in SUBSET Cards}
    BY <1>1
  <1>3. EmptyMarks \in Marks
    BY <1>2 DEF EmptyMarks, Marks
  <1>4. \A e : ~Traces(EmptyMarks, e)
    BY EmptyMap DEF EmptyMarks, Traces, Of
  <1>5. QED
    BY <1>3, <1>4 DEF EmptyMarks

\* A call marks its own card: it adds nothing to another machine's, and takes
\* nothing out of the trash.
LEMMA AfterFacts ==
  ASSUME NEW s \in Marks, NEW op \in Ops, NEW c \in Cards, NEW kn
  PROVE  /\ After(op, s, c, kn) \in Marks
         /\ s.removed \subseteq After(op, s, c, kn).removed
         /\ op \in {"trash", "delete"} => c \in After(op, s, c, kn).removed
         /\ \A e : e # c[1] /\ Traces(After(op, s, c, kn), e) => Traces(s, e)
  <1> DEFINE h == s.hidden
  <1>1. DOMAIN h \subseteq Cards /\ h \in [DOMAIN h -> BOOLEAN]
    BY HiddenIsMap
  <1>2. \A v \in BOOLEAN : /\ Put(h, c, v) \in [DOMAIN h \cup {c} -> BOOLEAN]
                           /\ DOMAIN Put(h, c, v) = DOMAIN h \cup {c}
    BY <1>1 DEF Put
  <1>3. /\ Restrict(h, DOMAIN h \ {c}) \in [DOMAIN h \ {c} -> BOOLEAN]
        /\ DOMAIN Restrict(h, DOMAIN h \ {c}) = DOMAIN h \ {c}
    BY <1>1 DEF Restrict
  <1>4. /\ \A v \in BOOLEAN : Put(h, c, v) \in UNION {[S -> BOOLEAN] : S \in SUBSET Cards}
        /\ Restrict(h, DOMAIN h \ {c}) \in UNION {[S -> BOOLEAN] : S \in SUBSET Cards}
    <2>1. DOMAIN h \cup {c} \in SUBSET Cards /\ DOMAIN h \ {c} \in SUBSET Cards
      BY <1>1
    <2>2. QED
      BY <1>2, <1>3, <2>1
  <1>5. /\ s.labels \subseteq Machines /\ s.names \subseteq Cards
        /\ s.order \subseteq Cards /\ s.removed \subseteq Cards
        /\ c[1] \in Machines
    BY DEF Marks, Cards
  <1> HIDE DEF h
  <1>6. After(op, s, c, kn) \in Marks
    BY <1>4, <1>5 DEF h, After, Marks, Ops
  <1>7. /\ s.removed \subseteq After(op, s, c, kn).removed
        /\ op \in {"trash", "delete"} => c \in After(op, s, c, kn).removed
    BY DEF After, Marks, Ops
  <1>8. ASSUME NEW e, e # c[1], Traces(After(op, s, c, kn), e) PROVE Traces(s, e)
    BY <1>2, <1>3, <1>8 DEF h, After, Marks, Ops, Traces, Of
  <1>9. QED
    BY <1>6, <1>7, <1>8

LEMMA RestoredFacts ==
  ASSUME NEW s \in Marks, NEW e
  PROVE  /\ Restored(s, e) \in Marks
         /\ \A c \in s.removed : c[1] # e => c \in Restored(s, e).removed
         /\ \A f : Traces(Restored(s, e), f) => Traces(s, f)
  BY DEF Restored, Marks, Traces, Of

LEMMA ForgottenFacts ==
  ASSUME NEW s \in Marks, NEW e
  PROVE  /\ Forgotten(s, e) \in Marks
         /\ \A c \in s.removed : c[1] # e => c \in Forgotten(s, e).removed
         /\ ~Traces(Forgotten(s, e), e)
         /\ \A f : Traces(Forgotten(s, e), f) => Traces(s, f)
  <1> DEFINE D == DOMAIN s.hidden \ Of(DOMAIN s.hidden, e)
             g == Restrict(s.hidden, D)
  <1>1. DOMAIN s.hidden \subseteq Cards /\ s.hidden \in [DOMAIN s.hidden -> BOOLEAN]
    BY HiddenIsMap
  <1>2. D \in SUBSET Cards /\ DOMAIN g = D /\ g \in [D -> BOOLEAN]
    BY <1>1 DEF Restrict
  <1>3. g \in UNION {[S -> BOOLEAN] : S \in SUBSET Cards}
    BY <1>2
  <1>4. Forgotten(s, e) \in Marks
    BY <1>3 DEF Forgotten, Marks
  <1>5. DOMAIN Forgotten(s, e).hidden = D
    BY <1>2 DEF Forgotten
  <1>6. ~Traces(Forgotten(s, e), e) /\ \A f : Traces(Forgotten(s, e), f) => Traces(s, f)
    BY <1>5 DEF Traces, Forgotten, Of
  <1>7. QED
    BY <1>4, <1>6 DEF Forgotten, Of
-----------------------------------------------------------------------------
(* What is answered.                                                         *)

LEMMA ToldIsSome == \A r \in Told : r # None
  BY NoneAssumption

LEMMA LastViewType ==
  ASSUME TypeOK, NEW e \in Machines
  PROVE  LastView(e) \in {None} \cup SUBSET Keys /\ OfView(LastView(e)) \in Told
  BY NoneAssumption DEF TypeOK, LastView, OfView, Told

LEMMA ResponseType ==
  ASSUME TypeOK, NEW e \in Machines, EntryOK(e)
  PROVE  Response(e) \in Told
  BY LastViewType DEF TypeOK, EntryOK, Response, Fresh, Told

\* No message names a card that is in the trash.
LEMMA ShownFacts ==
  ASSUME NEW e \in Machines, NEW r \in Told
  PROVE  /\ Shown(e, r) \in Told \cup {None}
         /\ Shown(e, r) # None => Shown(e, r).cards = r.cards \ Removed(e)
  BY DEF Shown, Told

LEMMA CurrentFacts ==
  ASSUME TypeOK, NEW e \in Machines, EntryOK(e)
  PROVE  /\ Machine(e) \in Told \cup {None} /\ Current(e) \in Told \cup {None}
         /\ Current(e) # None => Current(e).cards \cap Removed(e) = {}
         /\ fits[e] # "chance" => Current(e) = Latest(e)
  <1>1. /\ Machine(e) \in Told \cup {None} /\ Current(e) \in Told \cup {None}
        /\ Current(e) # None => Current(e).cards \cap Removed(e) = {}
    BY ResponseType, ShownFacts DEF Machine, Current
  <1>2. ASSUME fits[e] # "chance" PROVE Current(e) = Latest(e)
    <2>1. CASE coord[e] = None
      BY <2>1 DEF Current, Latest, Machine, Response
    <2>2. CASE coord[e] # None
      <3>1. Fresh(e) = coord[e].cards
        BY <1>2, <2>2 DEF Fresh, EntryOK, TypeOK
      <3>2. QED
        BY <2>2, <3>1 DEF Current, Latest, Machine, Response, Shown
    <2>3. QED
      BY <2>1, <2>2
  <1>3. QED
    BY <1>1, <1>2

\* Answers that are computed change no answer.
LEMMA DrawFacts ==
  ASSUME TypeOK, EntriesOK, NEW R, NEW seen, Draw(R, seen)
  PROVE  /\ built' \in [Machines -> {None} \cup SUBSET Keys]
         /\ fits' \in [Machines -> {"no", "yes", "chance"}]
         /\ view' \in [Machines -> {None, Unread} \cup SUBSET Keys]
         /\ vdue' \in [Machines -> BOOLEAN]
         /\ vfile' = vfile
         /\ \A e \in Machines :
              /\ fits'[e] = "chance" <=> fits[e] = "chance"
              /\ fits'[e] # "no" => coord[e] # None /\ built'[e] # None
              /\ fits'[e] = "yes" => built'[e] = coord[e].cards
              /\ vdue'[e] => view'[e] # Unread
              /\ coord[e] = None => vdue'[e] = vdue[e] /\ LastView(e)' = LastView(e)
  <1>0. vfile' = vfile
    BY DEF Draw
  <1>1. \A e \in Machines : coord[e] # None =>
           /\ Fresh(e) \in SUBSET Keys
           /\ fits[e] = "no" => Fresh(e) = coord[e].cards
           /\ fits[e] # "no" => Fresh(e) = built[e]
    BY DEF EntriesOK, EntryOK, TypeOK, Fresh, Told
  <1>2. \A cs \in SUBSET Keys : cs # None /\ cs # Unread
    BY NoneAssumption
  <1>3. \A e \in Machines :
           /\ built'[e] = IF e \in Drawn(R) THEN Fresh(e) ELSE built[e]
           /\ fits'[e] = IF e \in Drawn(R) /\ fits[e] = "no" THEN "yes" ELSE fits[e]
           /\ view'[e] = IF e \in Drawn(R) THEN Fresh(e)
                         ELSE IF e \in seen /\ view[e] = Unread THEN vfile[e] ELSE view[e]
           /\ vdue'[e] = (vdue[e] \/ (e \in Drawn(R) /\ view[e] # Fresh(e)))
    BY DEF Draw
  <1>4. /\ built' \in [Machines -> {None} \cup SUBSET Keys]
        /\ fits' \in [Machines -> {"no", "yes", "chance"}]
        /\ view' \in [Machines -> {None, Unread} \cup SUBSET Keys]
    BY <1>1 DEF Draw, Drawn, TypeOK
  <1>5. vdue' \in [Machines -> BOOLEAN]
    BY DEF Draw, TypeOK
  <1>6. ASSUME NEW e \in Machines
        PROVE  /\ fits'[e] = "chance" <=> fits[e] = "chance"
               /\ fits'[e] # "no" => coord[e] # None /\ built'[e] # None
               /\ fits'[e] = "yes" => built'[e] = coord[e].cards
    <2>1. fits[e] \in {"no", "yes", "chance"} /\ EntryOK(e)
      BY DEF TypeOK, EntriesOK
    <2>2. CASE e \in Drawn(R)
      <3>1. /\ built'[e] = Fresh(e)
            /\ fits'[e] = IF fits[e] = "no" THEN "yes" ELSE fits[e]
            /\ coord[e] # None
        BY <1>3, <2>2 DEF Drawn
      <3>2. Fresh(e) # None
        BY <1>1, <1>2, <3>1
      <3>3. QED
        BY <1>1, <2>1, <3>1, <3>2 DEF EntryOK
    <2>3. CASE e \notin Drawn(R)
      BY <1>3, <2>1, <2>3 DEF EntryOK
    <2>4. QED
      BY <2>2, <2>3
  <1>7. ASSUME NEW e \in Machines
        PROVE  vdue'[e] => view'[e] # Unread
    <2>1. vfile[e] # Unread
      BY NoneAssumption DEF TypeOK
    <2>2. CASE e \in Drawn(R)
      BY <1>1, <1>2, <1>3, <2>2 DEF Drawn
    <2>3. CASE e \notin Drawn(R)
      BY <1>3, <2>1, <2>3 DEF EntriesOK, EntryOK
    <2>4. QED
      BY <2>2, <2>3
  <1>8. ASSUME NEW e \in Machines, coord[e] = None
        PROVE  vdue'[e] = vdue[e] /\ LastView(e)' = LastView(e)
    <2>1. e \notin Drawn(R)
      BY <1>8 DEF Drawn
    <2>2. vdue'[e] = (vdue[e] \/ FALSE)
      BY <1>3, <2>1
    <2>3. view'[e] = IF e \in seen /\ view[e] = Unread THEN vfile[e] ELSE view[e]
      BY <1>3, <2>1
    <2>4. vfile[e] # Unread
      BY NoneAssumption DEF TypeOK
    <2>5. LastView(e)' = LastView(e)
      BY <1>0, <2>3, <2>4 DEF LastView
    <2>6. vdue[e] \in BOOLEAN
      BY DEF TypeOK
    <2>7. QED
      BY <2>2, <2>5, <2>6
  <1>9. QED
    BY <1>0, <1>4, <1>5, <1>6, <1>7, <1>8

LEMMA LatestKept ==
  ASSUME NEW e \in Machines, known' = known, coord' = coord, store' = store,
         coord[e] = None => LastView(e)' = LastView(e)
  PROVE  Latest(e)' = Latest(e)
  BY DEF Latest, Shown, OfView, Removed

LEMMA DeliverFacts ==
  ASSUME TypeOK, NEW a \in Messages, Deliver(a)
  PROVE  /\ DOMAIN a \subseteq Machines
         /\ shown' \in [Machines -> Told \cup {None}]
         /\ outdated' \subseteq Machines
         /\ \A e \in DOMAIN a : e \notin outdated' => shown'[e] = Current(e)
         /\ \A e \in Machines \ DOMAIN a :
              shown'[e] = shown[e] /\ (e \in outdated' <=> e \in outdated)
  <1>1. PICK S \in SUBSET Machines : a \in [S -> Told \cup {None}]
    BY DEF Messages
  <1>2. DOMAIN a = S
    BY <1>1
  <1>3. shown' \in [Machines -> Told \cup {None}]
    BY <1>1, <1>2 DEF Deliver, TypeOK
  <1>4. outdated' \subseteq Machines
    BY <1>2 DEF Deliver, TypeOK
  <1>5. \A e \in DOMAIN a : e \notin outdated' => shown'[e] = Current(e)
    BY <1>2 DEF Deliver
  <1>6. \A e \in Machines \ DOMAIN a :
          shown'[e] = shown[e] /\ (e \in outdated' <=> e \in outdated)
    BY DEF Deliver
  <1>7. QED
    BY <1>2, <1>3, <1>4, <1>5, <1>6
-----------------------------------------------------------------------------
(* A walk through the machines, up to the first that has to wait.            *)

LEMMA RunFacts ==
  ASSUME NEW todo \in SUBSET Machines, NEW R, NEW run \in Runs(todo, R)
  PROVE  /\ run.done \subseteq todo /\ run.done \subseteq R
         /\ run.at # None => run.at \in todo
         /\ run.at = None => run.done = todo /\ Rest(todo, run) = None
         /\ run.at # None => /\ Rest(todo, run) \in Stopped
                             /\ Rest(todo, run) # None
                             /\ Rest(todo, run).at = run.at
                             /\ Rest(todo, run).todo = todo \ (run.done \cup {run.at})
  <1>1. run \in [done : SUBSET todo, at : (todo \ R) \cup {None}]
    BY DEF Runs
  <1>2. run.done \subseteq R /\ (run.at = None => run.done = todo)
    BY DEF Runs
  <1>3. run.done \subseteq todo /\ (run.at # None => run.at \in todo)
    BY <1>1
  <1>4. ASSUME run.at # None
        PROVE  Rest(todo, run) = [at |-> run.at, todo |-> todo \ (run.done \cup {run.at})]
    BY <1>4 DEF Rest
  <1>5. ASSUME run.at # None
        PROVE  Rest(todo, run) \in Stopped /\ Rest(todo, run) # None
    <2>1. Rest(todo, run) \in Stopped
      BY <1>3, <1>4, <1>5 DEF Stopped
    <2>2. QED
      BY <2>1, NoneAssumption
  <1>6. QED
    BY <1>2, <1>3, <1>4, <1>5 DEF Rest

LEMMA PlusFacts ==
  ASSUME NEW f \in Messages, NEW S \in SUBSET Machines,
         NEW g \in [S -> Told \cup {None}]
  PROVE  /\ Plus(f, g) \in Messages
         /\ DOMAIN Plus(f, g) = DOMAIN f \cup S
  <1>1. PICK D \in SUBSET Machines : f \in [D -> Told \cup {None}]
    BY DEF Messages
  <1>2. DOMAIN f = D /\ DOMAIN g = S
    BY <1>1
  <1>3. Plus(f, g) \in [D \cup S -> Told \cup {None}]
    BY <1>1, <1>2 DEF Plus
  <1>4. D \cup S \in SUBSET Machines
    OBVIOUS
  <1>5. QED
    BY <1>2, <1>3, <1>4 DEF Messages, Plus

LEMMA PutFacts ==
  ASSUME NEW f \in Messages, NEW e \in Machines, NEW v \in Told \cup {None}
  PROVE  Put(f, e, v) \in Messages /\ DOMAIN Put(f, e, v) = DOMAIN f \cup {e}
  <1>1. PICK D \in SUBSET Machines : f \in [D -> Told \cup {None}]
    BY DEF Messages
  <1>2. DOMAIN f = D
    BY <1>1
  <1>3. Put(f, e, v) \in [D \cup {e} -> Told \cup {None}]
    BY <1>1, <1>2 DEF Put
  <1>4. D \cup {e} \in SUBSET Machines
    OBVIOUS
  <1>5. QED
    BY <1>2, <1>3, <1>4 DEF Messages, Put

\* The answer with everything goes on to wait, or is given for every machine.
LEMMA AnswerFacts ==
  ASSUME TypeOK, EntriesOK, NEW got \in Messages, NEW todo \in SUBSET Machines, NEW seen,
         Answer(got, todo, seen)
  PROVE  /\ \E R : Draw(R, seen)
         /\ \/ load' \in Answering /\ UNCHANGED <<shown, settings, outdated>>
            \/ /\ load' = None /\ settings' = PageState(store)
               /\ \E a \in [Machines -> Told \cup {None}] : Deliver(a)
  <1> DEFINE R0 == {e \in todo : Ready(e)}
             all(run) == Plus(got, [e \in run.done |-> Machine(e)])
             deliver(run) == [e \in Machines |-> IF e \in DOMAIN all(run) THEN all(run)[e] ELSE None]
  <1>1. PICK run \in Runs(todo, R0) :
          /\ Draw(run.done, seen)
          /\ \/ /\ run.at # None
                /\ load' = [at |-> run.at, got |-> all(run), todo |-> todo \ (run.done \cup {run.at})]
                /\ UNCHANGED <<shown, settings, outdated>>
             \/ /\ run.at = None /\ load' = None /\ settings' = PageState(store)
                /\ Deliver(deliver(run))
    BY DEF Answer
  <1>2. run.done \subseteq todo /\ (run.at # None => run.at \in todo)
    BY RunFacts
  <1>3. [e \in run.done |-> Machine(e)] \in [run.done -> Told \cup {None}]
    BY <1>2, CurrentFacts DEF EntriesOK
  <1>4. all(run) \in Messages
    BY <1>2, <1>3, PlusFacts
  <1>5. deliver(run) \in [Machines -> Told \cup {None}]
    BY <1>4 DEF Messages
  <1> HIDE DEF all, deliver
  <1>6. CASE run.at # None
    <2>1. load' = [at |-> run.at, got |-> all(run), todo |-> todo \ (run.done \cup {run.at})]
      BY <1>1, <1>6
    <2>2. load' \in Answering
      BY <1>2, <1>4, <1>6, <2>1 DEF Answering, Messages
    <2>3. QED
      BY <1>1, <1>6, <2>2
  <1>7. CASE run.at = None
    BY <1>1, <1>5, <1>7
  <1>8. QED
    BY <1>6, <1>7

\* Of a push, each machine it had to tell of is told of or still to be.
LEMMA GoFacts ==
  ASSUME TypeOK, EntriesOK, NEW t \in Pushes, NEW a \in Messages,
         NEW todo \in SUBSET Machines, NEW seen, Go(t, a, todo, seen)
  PROVE  /\ \E R : Draw(R, seen)
         /\ push' \in [Pushes -> Stopped \cup {None}]
         /\ \A s \in Pushes \ {t} : push'[s] = push[s]
         /\ \E b \in Messages :
              /\ Deliver(b) /\ DOMAIN a \subseteq DOMAIN b
              /\ \A e \in todo : \/ e \in DOMAIN b
                                 \/ push'[t] # None /\ e \in push'[t].todo \cup {push'[t].at}
  <1> DEFINE R0 == {e \in todo : e \notin known \/ Ready(e)}
             b(run) == Plus(a, [e \in run.done |-> Current(e)])
  <1>1. PICK run \in Runs(todo, R0) :
          /\ Draw(run.done \cap known, seen)
          /\ push' = [push EXCEPT ![t] = Rest(todo, run)]
          /\ Deliver(b(run))
    BY DEF Go
  <1>2. run.done \subseteq todo
    BY RunFacts
  <1>3. [e \in run.done |-> Current(e)] \in [run.done -> Told \cup {None}]
    BY <1>2, CurrentFacts DEF EntriesOK
  <1>4. b(run) \in Messages /\ DOMAIN b(run) = DOMAIN a \cup run.done
    BY <1>2, <1>3, PlusFacts
  <1> HIDE DEF b
  <1>5. Rest(todo, run) \in Stopped \cup {None}
    BY RunFacts
  <1>6. push'[t] = Rest(todo, run) /\ \A s \in Pushes \ {t} : push'[s] = push[s]
    BY <1>1 DEF TypeOK
  <1>7. push' \in [Pushes -> Stopped \cup {None}]
    BY <1>1, <1>5 DEF TypeOK
  <1>8. ASSUME NEW e \in todo
        PROVE  \/ e \in DOMAIN b(run)
               \/ push'[t] # None /\ e \in push'[t].todo \cup {push'[t].at}
    <2>1. CASE run.at = None
      <3>1. run.done = todo
        BY <2>1, RunFacts
      <3>2. QED
        BY <1>4, <3>1
    <2>2. CASE run.at # None
      <3>1. /\ Rest(todo, run) # None /\ Rest(todo, run).at = run.at
            /\ Rest(todo, run).todo = todo \ (run.done \cup {run.at})
        BY <2>2, RunFacts
      <3>2. QED
        BY <1>4, <1>6, <3>1
    <2>3. QED
      BY <2>1, <2>2
  <1>9. QED
    BY <1>1, <1>4, <1>6, <1>7, <1>8
-----------------------------------------------------------------------------
(* A user's call.                                                            *)

CallStep ==
    \/ \E i \in Calls, op \in Ops, c \in Cards : Begin(i, op, c)
    \/ \E i \in Calls : StoreRead(i) \/ ViewRead(i)

\* What a call that goes through does beside its change of the Store.
Beside(op, c) ==
    \/ UNCHANGED <<leaving, trashed>>
    \/ /\ op \in {"trash", "delete"} /\ ~readOnly /\ c \notin store.removed
       /\ trashed' = IF Interferes(c[1]) THEN trashed ELSE trashed \cup {c}
       /\ \/ leaving' = leaving
          \/ /\ leaving[c[1]] = "no" /\ c[1] \in known
             /\ leaving' = [leaving EXCEPT ![c[1]] = "asked"]

\* It does nothing to what is kept, or it marks a card.
Untouched == UNCHANGED <<panel, sub, leaving, trashed, touched>>
Marking ==
    /\ store # Unread
    /\ \E op \in Ops, c \in Cards, kn \in SUBSET Machines : Change(op, c, kn) /\ Beside(op, c)

LEMMA CardParts == \A c \in Cards : c[1] \in Machines /\ c[2] \in Keys /\ c = <<c[1], c[2]>>
  BY DEF Cards

LEMMA LookedFacts ==
  ASSUME TypeOK, store # Unread, NEW op \in Ops, NEW c \in Cards, NEW kn \in SUBSET Machines,
         NEW r \in Told, Looked(op, c, kn, Shown(c[1], r))
  PROVE  Untouched \/ Marking
  <1> DEFINE m == Shown(c[1], r)
  <1>1. m # None => m.cards = r.cards \ Removed(c[1])
    BY ShownFacts, CardParts
  <1> HIDE DEF m
  <1>2. Looked(op, c, kn, m)
    BY DEF m
  <1>3. CASE op \notin {"trash", "delete"}
    BY <1>2, <1>3 DEF Looked, Marking, Beside
  <1>4. CASE op \in {"trash", "delete"}
    <2>1. Trash(op, c, kn, m)
      BY <1>2, <1>4 DEF Looked
    <2>2. CASE readOnly \/ m = None \/ (m # None /\ c[2] \notin m.cards)
      BY <2>1, <2>2 DEF Trash, Untouched
    <2>3. CASE ~(readOnly \/ m = None \/ (m # None /\ c[2] \notin m.cards))
      <3>1. c \notin store.removed
        BY <1>1, <2>3, CardParts DEF Removed, Of
      <3>2. Change(op, c, kn)
        BY <2>1, <2>3 DEF Trash
      <3>3. trashed' = IF Interferes(c[1]) THEN trashed ELSE trashed \cup {c}
        BY <2>1, <2>3 DEF Trash
      <3>4. \/ leaving' = leaving
            \/ /\ leaving[c[1]] = "no" /\ c[1] \in known
               /\ leaving' = [leaving EXCEPT ![c[1]] = "asked"]
        BY <2>1, <2>3 DEF Trash
      <3>5. Beside(op, c)
        BY <1>4, <2>3, <3>1, <3>3, <3>4 DEF Beside
      <3>6. QED
        BY <3>2, <3>5 DEF Marking
    <2>4. QED
      BY <2>2, <2>3
  <1>5. QED
    BY <1>3, <1>4

LEMMA StillDrawn == ASSUME TypeOK, UNCHANGED <<cache, views>> PROVE Draw({}, {})
  <1>1. Drawn({}) = {}
    BY DEF Drawn
  <1>2. /\ built' = built /\ fits' = fits /\ view' = view /\ vfile' = vfile /\ vdue' = vdue
    BY DEF cache, views
  <1>3. \A e \in Machines : vdue[e] \in BOOLEAN
    BY DEF TypeOK
  <1>4. vdue' = [e \in Machines |-> vdue[e] \/ (e \in Drawn({}) /\ view[e] # Fresh(e))]
    BY <1>1, <1>2, <1>3 DEF TypeOK
  <1>5. QED
    BY <1>1, <1>2, <1>4 DEF Draw, TypeOK

\* It is over, or waits; for a view only when the Store is there.
CallKept(i) ==
    \/ call' = [call EXCEPT ![i] = None]
    \/ \E w \in Held : /\ call' = [call EXCEPT ![i] = w]
                       /\ w.at = "view" => store # Unread

LEMMA ProceedFacts ==
  ASSUME TypeOK, EntriesOK, store # Unread,
         NEW i \in Calls, NEW op \in Ops, NEW c \in Cards, NEW kn \in SUBSET Machines,
         Proceed(i, op, c, kn)
  PROVE  /\ Untouched \/ Marking
         /\ \E R, seen : Draw(R, seen)
         /\ CallKept(i)
  <1>1. CASE Plain(op)
    <2>1. Change(op, c, kn) /\ UNCHANGED <<leaving, cache, views, trashed>> /\ Over(i)
      BY <1>1 DEF Proceed
    <2>2. Marking
      BY <2>1 DEF Marking, Beside
    <2>3. QED
      BY <2>1, <2>2, StillDrawn DEF Over, CallKept
  <1>2. CASE ~Plain(op) /\ Ready(c[1])
    <2>1. Looked(op, c, kn, Machine(c[1])) /\ Draw({c[1]}, {}) /\ Over(i)
      BY <1>2 DEF Proceed
    <2>2. Response(c[1]) \in Told
      BY ResponseType, CardParts DEF EntriesOK
    <2>3. QED
      BY <2>1, <2>2, LookedFacts DEF Machine, Over, CallKept
  <1>3. CASE ~Plain(op) /\ ~Ready(c[1])
    <2>1. Wait(i, op, c, kn, "view") /\ UNCHANGED <<cache, views>> /\ Untouched
      BY <1>3 DEF Proceed, Untouched
    <2>2. [op |-> op, card |-> c, kn |-> kn, at |-> "view"] \in Held
      BY DEF Held
    <2>3. QED
      BY <2>1, <2>2, StillDrawn DEF Wait, CallKept
  <1>4. QED
    BY <1>1, <1>2, <1>3

LEMMA CallFacts ==
  ASSUME TypeOK, EntriesOK, CallsOK, CallStep
  PROVE  /\ Untouched \/ Marking
         /\ \E R, seen : Draw(R, seen)
         /\ \E i \in Calls : CallKept(i)
         /\ ops' \in 0..MaxOps
         /\ UNCHANGED <<known, ever, coord, page, push, load, outdated>>
  <1>1. ASSUME NEW i \in Calls, NEW op \in Ops, NEW c \in Cards, Begin(i, op, c)
        PROVE  /\ Untouched \/ Marking
               /\ \E R, seen : Draw(R, seen)
               /\ CallKept(i)
               /\ ops' \in 0..MaxOps
    <2>1. ops' \in 0..MaxOps
      BY <1>1, OpsAssumption DEF Begin, Acts, TypeOK
    <2>2. known \in SUBSET Machines
      BY DEF TypeOK
    <2>3. CASE store = Unread
      <3>1. Wait(i, op, c, known, "store") /\ UNCHANGED <<cache, views>> /\ Untouched
        BY <1>1, <2>3 DEF Begin, Untouched
      <3>2. [op |-> op, card |-> c, kn |-> known, at |-> "store"] \in Held
        BY <2>2 DEF Held
      <3>3. QED
        BY <2>1, <3>1, <3>2, StillDrawn DEF Wait, CallKept
    <2>4. CASE store # Unread
      BY <1>1, <2>1, <2>2, <2>4, ProceedFacts DEF Begin
    <2>5. QED
      BY <2>3, <2>4
  <1>2. ASSUME NEW i \in Calls, StoreRead(i)
        PROVE  /\ Untouched \/ Marking
               /\ \E R, seen : Draw(R, seen)
               /\ CallKept(i)
               /\ ops' \in 0..MaxOps
    <2>1. call[i] \in Held
      BY <1>2 DEF StoreRead, TypeOK
    <2>2. call[i].op \in Ops /\ call[i].card \in Cards /\ call[i].kn \in SUBSET Machines
      BY <2>1 DEF Held
    <2>3. ops' \in 0..MaxOps
      BY <1>2 DEF StoreRead, TypeOK
    <2>4. QED
      BY <1>2, <2>2, <2>3, ProceedFacts DEF StoreRead
  <1>3. ASSUME NEW i \in Calls, ViewRead(i)
        PROVE  /\ Untouched \/ Marking
               /\ \E R, seen : Draw(R, seen)
               /\ CallKept(i)
               /\ ops' \in 0..MaxOps
    <2>1. call[i] \in Held /\ store # Unread
      BY <1>3 DEF ViewRead, TypeOK, CallsOK
    <2>2. call[i].op \in Ops /\ call[i].card \in Cards /\ call[i].kn \in SUBSET Machines
      BY <2>1 DEF Held
    <2>3. ops' \in 0..MaxOps
      BY <1>3 DEF ViewRead, TypeOK
    <2>4. OfView(LastView(call[i].card[1])) \in Told
      BY <2>2, LastViewType, CardParts
    <2>5. QED
      BY <1>3, <2>1, <2>2, <2>3, <2>4, LookedFacts DEF ViewRead, Over, CallKept
  <1>4. UNCHANGED <<known, ever, coord, page, push, load, outdated>>
    BY DEF CallStep, Begin, StoreRead, ViewRead
  <1>5. QED
    BY <1>1, <1>2, <1>3, <1>4 DEF CallStep
-----------------------------------------------------------------------------
(* A change of the Store.                                                    *)

\* Whoever changes the Store has it saved and told.
Announced ==
    /\ store' = store => UNCHANGED <<due, sub>>
    /\ store' # store => /\ due' = TRUE /\ ~readOnly
                         /\ pending' = IF open THEN pending \cup known ELSE pending
                         /\ stateDue' = (open \/ stateDue)

LEMMA ChangeFacts ==
  ASSUME TypeOK, store # Unread, NEW s \in Marks, ChangeStore(s)
  PROVE  /\ store' \in Marks /\ store' \in {s, store}
         /\ ~readOnly => store' = s
         /\ Announced
  BY DEF ChangeStore, Tell, Announced, TypeOK, sub

LEMMA AnnouncedFacts ==
  ASSUME TypeOK, Announced
  PROVE  /\ pending \subseteq pending' /\ pending' \subseteq Machines
         /\ stateDue' \in BOOLEAN /\ due' \in BOOLEAN
  BY DEF TypeOK, Announced, sub

\* Marks that a call makes are kept and told, and are another machine's than
\* those it may interfere with.
LEMMA MarkingFacts ==
  ASSUME TypeOK, Untouched \/ Marking
  PROVE  /\ UNCHANGED <<readOnly, file>> /\ Announced
         /\ store' \in Marks \cup {Unread} /\ (store' = Unread <=> store = Unread)
         /\ leaving' \in [Machines -> {"no", "asked", "unloaded", "dropped", "forgotten"}]
         /\ \A e \in Machines :
              \/ leaving'[e] = leaving[e]
              \/ leaving[e] = "no" /\ leaving'[e] = "asked" /\ e \in known
         /\ trashed \subseteq trashed' /\ trashed' \subseteq Cards
         /\ touched \subseteq touched' /\ touched' \subseteq Machines
         /\ store # Unread => store.removed \subseteq store'.removed
         /\ \A c \in trashed' \ trashed :
              /\ store # Unread /\ store' # store
              /\ c \in store'.removed /\ c[1] \in known
         /\ \A e \in Machines \ touched' :
              store # Unread /\ Forgot(e) /\ Traces(store', e) => Traces(store, e)
  <1>1. CASE Untouched
    BY <1>1 DEF Untouched, panel, sub, Announced, TypeOK
  <1>2. CASE Marking
    <2>1. PICK op \in Ops, c \in Cards, kn \in SUBSET Machines : Change(op, c, kn) /\ Beside(op, c)
      BY <1>2 DEF Marking
    <2> DEFINE s == After(op, store, c, kn)
    <2>2. store # Unread /\ store \in Marks /\ c[1] \in Machines
      BY <1>2, CardParts DEF Marking, TypeOK
    <2>3. /\ s \in Marks /\ store.removed \subseteq s.removed
          /\ op \in {"trash", "delete"} => c \in s.removed
          /\ \A e : e # c[1] /\ Traces(s, e) => Traces(store, e)
      BY <2>2, AfterFacts
    <2>4. /\ ChangeStore(s) /\ UNCHANGED <<readOnly, file>>
          /\ touched' = IF Interferes(c[1]) THEN touched \cup {c[1]} ELSE touched
      BY <2>1 DEF Change
    <2> HIDE DEF s
    <2>5. /\ store' \in Marks /\ store' \in {s, store} /\ Announced
          /\ ~readOnly => store' = s
      BY <2>2, <2>3, <2>4, ChangeFacts
    <2>6. store' # Unread
      BY <2>5, StoreAssumption
    <2>7. /\ leaving' \in [Machines -> {"no", "asked", "unloaded", "dropped", "forgotten"}]
          /\ \A e \in Machines :
               \/ leaving'[e] = leaving[e]
               \/ leaving[e] = "no" /\ leaving'[e] = "asked" /\ e \in known
      BY <2>1, <2>2 DEF Beside, TypeOK
    <2>8. /\ trashed \subseteq trashed' /\ trashed' \subseteq Cards
          /\ \A d \in trashed' \ trashed :
               /\ d = c /\ op \in {"trash", "delete"} /\ ~readOnly
               /\ c \notin store.removed /\ c[1] \in known
      BY <2>1 DEF Beside, TypeOK, Interferes
    <2>9. touched \subseteq touched' /\ touched' \subseteq Machines
      BY <2>2, <2>4 DEF TypeOK
    <2>10. store.removed \subseteq store'.removed
      BY <2>3, <2>5
    <2>11. ASSUME NEW d \in trashed' \ trashed
           PROVE  store' # store /\ d \in store'.removed /\ d[1] \in known
      BY <2>3, <2>5, <2>8
    <2>12. ASSUME NEW e \in Machines \ touched', Forgot(e), Traces(store', e)
           PROVE  Traces(store, e)
      <3>1. Interferes(e)
        BY <2>12 DEF Forgot, Interferes
      <3>2. e # c[1]
        BY <2>4, <2>12, <3>1
      <3>3. QED
        BY <2>3, <2>5, <2>12, <3>2
    <2>13. QED
      BY <2>2, <2>4, <2>5, <2>6, <2>7, <2>8, <2>9, <2>10, <2>11, <2>12
  <1>3. QED
    BY <1>1, <1>2
-----------------------------------------------------------------------------
(* The first state, and the types.                                           *)

LEMMA InitIInv == Init => IInv
  <1> SUFFICES ASSUME Init PROVE IInv
    OBVIOUS
  <1> USE DEF Init
  <1>1. TypeOK
    <2>1. coord \in [Machines -> Told \cup {None}]
      BY DEF Told
    <2>2. file \in Marks \cup {Newer}
      BY EmptyFacts
    <2>3. 0 \in 0..MaxOps
      BY OpsAssumption
    <2>4. known \subseteq ever /\ ever \subseteq Machines
      OBVIOUS
    <2>5. vfile \in [Machines -> {None} \cup SUBSET Keys]
      OBVIOUS
    <2>6. QED
      BY <2>1, <2>2, <2>3, <2>4, <2>5 DEF TypeOK
  <1>2. EntriesOK
    BY NoneAssumption DEF EntriesOK, EntryOK
  <1>3. StoreOK /\ CallsOK
    BY DEF StoreOK, CallsOK
  <1>4. ForgottenOK
    BY EmptyFacts DEF ForgottenOK, Forgot
  <1>5. PageOK /\ TrashOK /\ SettingsOK /\ ShownOK
    BY DEF PageOK, TrashOK, SettingsOK, ShownOK
  <1>6. QED
    BY <1>1, <1>2, <1>3, <1>4, <1>5 DEF IInv

USE DEF ha, cache, panel, views, sub, page, waits, hist

LEMMA AnswerStep ==
  ASSUME TypeOK, EntriesOK, PageOK, StartAnswer \/ AnswerRead
  PROVE  /\ \E R, seen : Draw(R, seen)
         /\ open /\ store # Unread
         /\ \/ load' \in Answering /\ UNCHANGED <<shown, settings, outdated>>
            \/ /\ load' = None /\ settings' = PageState(store)
               /\ \E a \in [Machines -> Told \cup {None}] : Deliver(a)
         /\ UNCHANGED <<ha, panel, sub, open, push, call, ops, trashed, touched>>
  <1>1. CASE StartAnswer
    <2>1. Answer(<<>>, known, {})
      BY <1>1 DEF StartAnswer
    <2>2. known \in SUBSET Machines
      BY DEF TypeOK
    <2>3. open /\ store # Unread
      BY <1>1, NoneAssumption DEF StartAnswer, PageOK
    <2>4. UNCHANGED <<ha, panel, sub, open, push, call, ops, trashed, touched>>
      BY <1>1 DEF StartAnswer
    <2>5. QED
      BY <2>1, <2>2, <2>3, <2>4, EmptyMap, AnswerFacts
  <1>2. CASE AnswerRead
    <2>1. load \in Answering
      BY <1>2 DEF AnswerRead, TypeOK
    <2>2. load.at \in Machines /\ load.todo \in SUBSET Machines /\ load.got \in Messages
      BY <2>1 DEF Answering, Messages
    <2>3. open /\ store # Unread
      BY <1>2 DEF AnswerRead, PageOK
    <2> DEFINE m == Shown(load.at, OfView(LastView(load.at)))
               g == Put(load.got, load.at, m)
    <2>4. m \in Told \cup {None}
      BY <2>2, LastViewType, ShownFacts
    <2>5. g \in Messages
      BY <2>2, <2>4, PutFacts
    <2>6. Answer(g, load.todo, {load.at})
      BY <1>2 DEF AnswerRead
    <2>7. UNCHANGED <<ha, panel, sub, open, push, call, ops, trashed, touched>>
      BY <1>2 DEF AnswerRead
    <2> HIDE DEF m, g
    <2>8. QED
      BY <2>2, <2>3, <2>5, <2>6, <2>7, AnswerFacts
  <1>3. QED
    BY <1>1, <1>2

\* After a flush or a push that goes on, t has told of what it waited for and
\* of what was pending, or still has to.
PushStep(t) ==
    /\ \E R, seen : Draw(R, seen)
    /\ open /\ store # Unread
    /\ push' \in [Pushes -> Stopped \cup {None}]
    /\ \A s \in Pushes \ {t} : push'[s] = push[s]
    /\ pending' = {} \/ pending' = pending
    /\ \E b \in Messages :
         /\ Deliver(b)
         /\ \A e \in Machines :
              \/ e \in pending \ pending'
              \/ push[t] # None /\ e \in push[t].todo \cup {push[t].at}
              => \/ e \in DOMAIN b
                 \/ push'[t] # None /\ e \in push'[t].todo \cup {push'[t].at}
    /\ \/ UNCHANGED <<stateDue, settings>>
       \/ stateDue /\ stateDue' = FALSE /\ settings' = PageState(store)
    /\ UNCHANGED <<ha, panel, open, load, call, ops, trashed, touched>>

LEMMA PushFacts ==
  ASSUME TypeOK, EntriesOK, PageOK, NEW t \in Pushes, Flush(t) \/ PushRead(t)
  PROVE  PushStep(t)
  <1>1. CASE Flush(t)
    <2>1. Go(t, <<>>, pending, {}) /\ push[t] = None /\ pending' = {}
      BY <1>1 DEF Flush
    <2>2. pending \in SUBSET Machines
      BY DEF TypeOK
    <2>3. /\ \E R : Draw(R, {})
          /\ push' \in [Pushes -> Stopped \cup {None}]
          /\ \A s \in Pushes \ {t} : push'[s] = push[s]
          /\ \E b \in Messages :
               /\ Deliver(b)
               /\ \A e \in pending : \/ e \in DOMAIN b
                                     \/ push'[t] # None /\ e \in push'[t].todo \cup {push'[t].at}
      BY <2>1, <2>2, EmptyMap, GoFacts
    <2>4. open /\ store # Unread
      BY <1>1 DEF Flush, PageOK
    <2>5. \/ UNCHANGED <<stateDue, settings>>
          \/ stateDue /\ stateDue' = FALSE /\ settings' = PageState(store)
      BY <1>1 DEF Flush, TypeOK
    <2>6. UNCHANGED <<ha, panel, open, load, call, ops, trashed, touched>>
      BY <1>1 DEF Flush
    <2>7. QED
      BY <2>1, <2>3, <2>4, <2>5, <2>6 DEF PushStep
  <1>2. CASE PushRead(t)
    <2>1. push[t] \in Stopped /\ push[t] # None
      BY <1>2 DEF PushRead, TypeOK
    <2>2. push[t].at \in Machines /\ push[t].todo \in SUBSET Machines
      BY <2>1 DEF Stopped
    <2> DEFINE m == Shown(push[t].at, OfView(LastView(push[t].at)))
               a == Put(<<>>, push[t].at, m)
    <2>3. m \in Told \cup {None}
      BY <2>2, LastViewType, ShownFacts
    <2>4. a \in Messages /\ DOMAIN a = {push[t].at}
      BY <2>2, <2>3, EmptyMap, PutFacts
    <2>5. Go(t, a, push[t].todo, {push[t].at})
      BY <1>2 DEF PushRead
    <2>6. UNCHANGED <<ha, panel, sub, open, settings, load, call, ops, trashed, touched>>
      BY <1>2 DEF PushRead
    <2> HIDE DEF m, a
    <2>7. /\ \E R : Draw(R, {push[t].at})
          /\ push' \in [Pushes -> Stopped \cup {None}]
          /\ \A s \in Pushes \ {t} : push'[s] = push[s]
          /\ \E b \in Messages :
               /\ Deliver(b) /\ DOMAIN a \subseteq DOMAIN b
               /\ \A e \in push[t].todo :
                    \/ e \in DOMAIN b
                    \/ push'[t] # None /\ e \in push'[t].todo \cup {push'[t].at}
      BY <2>2, <2>4, <2>5, GoFacts
    <2>8. open /\ store # Unread
      BY <2>1 DEF PageOK
    <2>9. QED
      BY <2>4, <2>6, <2>7, <2>8 DEF PushStep
  <1>3. QED
    BY <1>1, <1>2
\* A step of one entry, which leaves the Store alone.
EntryStep(e) ==
    \/ AddEntry(e) \/ HealthPolled(e) \/ Unload(e) \/ PollFails(e) \/ Delete(e)
    \/ \E cs \in SUBSET Keys : SetUp(e, cs) \/ Poll(e, cs)
    \/ LeaveUnload(e) \/ LeaveDrop(e) \/ Leave(e)

\* It is told of, unless its deletion goes on and is told of at the end.
LEMMA EntryStepFacts ==
  ASSUME TypeOK, NEW e \in Machines, EntryStep(e)
  PROVE  /\ UNCHANGED <<panel, stateDue, page, waits, hist>>
         /\ \/ pending' = IF open THEN pending \cup {e} ELSE pending
            \/ pending' = pending /\ leaving'[e] \in {"asked", "dropped"}
         /\ known \ {e} = known' \ {e} /\ ever \subseteq ever'
         /\ ever' \ known' \subseteq (ever \ known) \cup {e}
         /\ \A f \in Machines \ {e} :
              /\ leaving'[f] = leaving[f] /\ coord'[f] = coord[f]
              /\ built'[f] = built[f] /\ fits'[f] = fits[f]
              /\ view'[f] = view[f] /\ vfile'[f] = vfile[f] /\ vdue'[f] = vdue[f]
  <1>1. ASSUME AddEntry(e) \/ HealthPolled(e) \/ PollFails(e)
               \/ (\E cs \in SUBSET Keys : SetUp(e, cs) \/ Poll(e, cs))
        PROVE  /\ UNCHANGED <<panel, stateDue, page, waits, hist, leaving, views, built>>
               /\ pending' = IF open THEN pending \cup {e} ELSE pending
               /\ known \ {e} = known' \ {e} /\ ever \subseteq ever'
               /\ ever' \ known' \subseteq (ever \ known) \cup {e}
               /\ \A f \in Machines \ {e} : coord'[f] = coord[f] /\ fits'[f] = fits[f]
    BY <1>1 DEF TypeOK, AddEntry, HealthPolled, PollFails, SetUp, Poll, Tell
  <1>2. ASSUME Unload(e) \/ Delete(e) \/ LeaveUnload(e) \/ LeaveDrop(e) \/ Leave(e)
        PROVE  /\ UNCHANGED <<panel, stateDue, page, waits, hist, ever>>
               /\ \/ pending' = IF open THEN pending \cup {e} ELSE pending
                  \/ pending' = pending /\ leaving'[e] \in {"asked", "dropped"}
               /\ known \ {e} = known' \ {e}
               /\ ever' \ known' \subseteq (ever \ known) \cup {e}
               /\ \A f \in Machines \ {e} :
                    /\ leaving'[f] = leaving[f] /\ coord'[f] = coord[f]
                    /\ built'[f] = built[f] /\ fits'[f] = fits[f]
                    /\ view'[f] = view[f] /\ vfile'[f] = vfile[f] /\ vdue'[f] = vdue[f]
    BY <1>2 DEF TypeOK, Unload, Delete, LeaveUnload, LeaveDrop, Leave, Tell
  <1>3. QED
    BY <1>1, <1>2 DEF EntryStep

LEMMA ActsType == ASSUME TypeOK, Acts \/ ops' = ops PROVE ops' \in 0..MaxOps
  BY OpsAssumption DEF TypeOK, Acts

LEMMA EntryStepType ==
  ASSUME TypeOK, NEW e \in Machines, EntryStep(e)
  PROVE  TypeOK'
  <1>1. /\ UNCHANGED <<panel, stateDue, page, waits, hist>>
        /\ pending' \subseteq Machines
    BY EntryStepFacts DEF TypeOK
  <1>2. ops' \in 0..MaxOps
    <2>1. Acts \/ ops' = ops
      BY DEF EntryStep, AddEntry, HealthPolled, Unload, PollFails, Delete, SetUp, Poll,
         LeaveUnload, LeaveDrop, Leave
    <2>2. QED
      BY <2>1, ActsType
  <1>3. /\ known' \subseteq ever' /\ ever' \subseteq Machines
        /\ leaving' \in [Machines -> {"no", "asked", "unloaded", "dropped", "forgotten"}]
    BY DEF TypeOK, EntryStep, AddEntry, HealthPolled, Unload, PollFails, Delete,
       SetUp, Poll, LeaveUnload, LeaveDrop, Leave
  <1>4. coord' \in [Machines -> Told \cup {None}]
    <2>1. CASE PollFails(e)
      <3>1. coord[e] \in Told
        BY <2>1 DEF PollFails, TypeOK
      <3>2. [coord[e] EXCEPT !.ok = FALSE] \in Told
        BY <3>1 DEF Told
      <3>3. coord' = [coord EXCEPT ![e] = [coord[e] EXCEPT !.ok = FALSE]]
        BY <2>1 DEF PollFails
      <3>4. QED
        BY <3>2, <3>3 DEF TypeOK
    <2>2. ASSUME NEW cs \in SUBSET Keys, SetUp(e, cs) \/ Poll(e, cs)
          PROVE  coord' \in [Machines -> Told \cup {None}]
      <3>1. [ok |-> TRUE, cards |-> cs] \in Told
        BY DEF Told
      <3>2. coord' = [coord EXCEPT ![e] = [ok |-> TRUE, cards |-> cs]]
        BY <2>2 DEF SetUp, Poll
      <3>3. QED
        BY <3>1, <3>2 DEF TypeOK
    <2>3. CASE AddEntry(e) \/ HealthPolled(e) \/ Unload(e) \/ Delete(e) \/ LeaveUnload(e)
               \/ LeaveDrop(e) \/ Leave(e)
      BY <2>3 DEF AddEntry, HealthPolled, Unload, Delete, LeaveUnload, LeaveDrop, Leave, TypeOK
    <2>4. QED
      BY <2>1, <2>2, <2>3 DEF EntryStep
  <1>5. fits' \in [Machines -> {"no", "yes", "chance"}]
    BY DEF TypeOK, EntryStep, AddEntry, HealthPolled, Unload, PollFails, Delete,
       SetUp, Poll, LeaveUnload, LeaveDrop, Leave, NewKey
  <1>6. /\ built' \in [Machines -> {None} \cup SUBSET Keys]
        /\ view' \in [Machines -> {None, Unread} \cup SUBSET Keys]
        /\ vfile' \in [Machines -> {None} \cup SUBSET Keys]
        /\ vdue' \in [Machines -> BOOLEAN]
    BY DEF TypeOK, EntryStep, AddEntry, HealthPolled, Unload, PollFails, Delete,
       SetUp, Poll, LeaveUnload, LeaveDrop, Leave
  <1>7. QED
    BY <1>1, <1>2, <1>3, <1>4, <1>5, <1>6 DEF TypeOK

LEMMA RestartedType ==
  ASSUME TypeOK, EntriesOK, StoreOK, Stop \/ Crash
  PROVE  TypeOK'
  <1>1. file' \in Marks \cup {Newer}
    BY DEF Crash, Stop, TypeOK, StoreOK
  <1>2. vfile' \in [Machines -> {None} \cup SUBSET Keys]
    <2>1. CASE Crash
      BY <2>1 DEF Crash, TypeOK
    <2>2. CASE Stop
      <3>1. \A e \in Machines : vdue[e] => view[e] \in {None} \cup SUBSET Keys
        BY DEF TypeOK, EntriesOK, EntryOK
      <3>2. vfile' = [e \in Machines |-> IF vdue[e] THEN view[e] ELSE vfile[e]]
        BY <2>2 DEF Stop
      <3>3. QED
        BY <3>1, <3>2 DEF TypeOK
    <2>3. QED
      BY <2>1, <2>2
  <1>3. Restarted /\ Acts
    BY DEF Stop, Crash
  <1>4. ops' \in 0..MaxOps
    BY <1>3, ActsType
  <1>5. trashed' \subseteq Cards /\ touched' \subseteq Machines
    BY DEF Stop, Crash, TypeOK
  <1>6. QED
    BY <1>1, <1>2, <1>3, <1>4, <1>5 DEF Restarted, Closed, TypeOK
\* Forgetting marks, restoring them, reading and writing the files.
StoreStep ==
    \/ \E e \in Machines : AddAgain(e) \/ LeaveForget(e) \/ SaveView(e)
    \/ LoadStore \/ Save

LEMMA StoreStepType ==
  ASSUME TypeOK, EntriesOK, StoreOK, StoreStep
  PROVE  TypeOK'
  <1>1. ASSUME NEW e \in Machines, AddAgain(e) PROVE TypeOK'
    <2>1. store \in Marks /\ store # Unread
      BY <1>1 DEF AddAgain, TypeOK
    <2>2. store' \in Marks /\ Announced
      BY <1>1, <2>1, RestoredFacts, ChangeFacts DEF AddAgain
    <2>3. ops' \in 0..MaxOps
      BY <1>1, ActsType DEF AddAgain
    <2>4. /\ UNCHANGED <<ha, cache, readOnly, file, views, page, waits, outdated, touched>>
          /\ trashed' \subseteq Cards
      BY <1>1 DEF AddAgain, TypeOK
    <2>5. pending' \subseteq Machines /\ stateDue' \in BOOLEAN /\ due' \in BOOLEAN
      BY <2>2, AnnouncedFacts
    <2>6. QED
      BY <2>2, <2>3, <2>4, <2>5 DEF TypeOK
  <1>2. ASSUME NEW e \in Machines, LeaveForget(e) PROVE TypeOK'
    <2>1. store \in Marks /\ store # Unread
      BY <1>2 DEF LeaveForget, TypeOK
    <2>2. store' \in Marks /\ Announced
      BY <1>2, <2>1, ForgottenFacts, ChangeFacts DEF LeaveForget
    <2>3. /\ UNCHANGED <<known, ever, coord, cache, readOnly, file, views, page, waits, ops, outdated, touched>>
          /\ trashed' \subseteq Cards
          /\ leaving' \in [Machines -> {"no", "asked", "unloaded", "dropped", "forgotten"}]
      BY <1>2 DEF LeaveForget, TypeOK
    <2>4. pending' \subseteq Machines /\ stateDue' \in BOOLEAN /\ due' \in BOOLEAN
      BY <2>2, AnnouncedFacts
    <2>5. QED
      BY <2>2, <2>3, <2>4 DEF TypeOK
  <1>3. ASSUME NEW e \in Machines, SaveView(e) PROVE TypeOK'
    <2>1. view[e] \in {None} \cup SUBSET Keys
      BY <1>3 DEF SaveView, TypeOK, EntriesOK, EntryOK
    <2>2. QED
      BY <1>3, <2>1 DEF SaveView, TypeOK
  <1>4. CASE LoadStore
    <2>1. store' \in Marks /\ readOnly' \in BOOLEAN
      BY <1>4, EmptyFacts DEF LoadStore, TypeOK
    <2>2. QED
      BY <1>4, <2>1 DEF LoadStore, TypeOK
  <1>5. CASE Save
    <2>1. file' \in Marks
      BY <1>5 DEF Save, StoreOK, TypeOK
    <2>2. QED
      BY <1>5, <2>1 DEF Save, TypeOK
  <1>6. QED
    BY <1>1, <1>2, <1>3, <1>4, <1>5 DEF StoreStep

PageStep == OpenPage \/ ClosePage \/ Refresh

LEMMA PageStepType ==
  ASSUME TypeOK, PageStep
  PROVE  TypeOK'
  <1>1. ops' \in 0..MaxOps
    BY ActsType DEF PageStep, OpenPage, ClosePage, Refresh
  <1>2. CASE OpenPage \/ Refresh
    BY <1>1, <1>2 DEF OpenPage, Refresh, TypeOK
  <1>3. CASE ClosePage
    BY <1>1, <1>3 DEF ClosePage, Closed, TypeOK
  <1>4. QED
    BY <1>2, <1>3 DEF PageStep

LEMMA AnswerStepType ==
  ASSUME TypeOK, EntriesOK, PageOK, StartAnswer \/ AnswerRead
  PROVE  TypeOK'
  <1>1. PICK R, seen : Draw(R, seen)
    BY AnswerStep
  <1>2. UNCHANGED <<ha, panel, sub, open, push, call, ops, trashed, touched>>
    BY AnswerStep
  <1>3. /\ load' \in Answering \cup {None, Asked}
        /\ shown' \in [Machines -> Told \cup {None}] /\ outdated' \subseteq Machines
    <2>1. CASE load' \in Answering /\ UNCHANGED <<shown, settings, outdated>>
      BY <2>1 DEF TypeOK
    <2>2. ASSUME load' = None, NEW a \in [Machines -> Told \cup {None}], Deliver(a)
          PROVE  /\ load' \in Answering \cup {None, Asked}
                 /\ shown' \in [Machines -> Told \cup {None}] /\ outdated' \subseteq Machines
      <3>1. a \in Messages
        BY DEF Messages
      <3>2. QED
        BY <2>2, <3>1, DeliverFacts
    <2>3. QED
      BY <2>1, <2>2, AnswerStep
  <1>4. /\ built' \in [Machines -> {None} \cup SUBSET Keys]
        /\ fits' \in [Machines -> {"no", "yes", "chance"}]
        /\ view' \in [Machines -> {None, Unread} \cup SUBSET Keys]
        /\ vdue' \in [Machines -> BOOLEAN]
        /\ vfile' = vfile
    BY <1>1, DrawFacts
  <1>5. QED
    BY <1>2, <1>3, <1>4 DEF TypeOK

LEMMA PushStepType ==
  ASSUME TypeOK, EntriesOK, NEW t \in Pushes, PushStep(t)
  PROVE  TypeOK'
  <1>1. PICK R, seen : Draw(R, seen)
    BY DEF PushStep
  <1>2. PICK b \in Messages : Deliver(b)
    BY DEF PushStep
  <1>3. shown' \in [Machines -> Told \cup {None}] /\ outdated' \subseteq Machines
    BY <1>2, DeliverFacts
  <1>4. /\ UNCHANGED <<ha, panel, open, load, call, ops, trashed, touched>>
        /\ push' \in [Pushes -> Stopped \cup {None}]
        /\ pending' \subseteq Machines /\ stateDue' \in BOOLEAN
    BY DEF PushStep, TypeOK
  <1>5. /\ built' \in [Machines -> {None} \cup SUBSET Keys]
        /\ fits' \in [Machines -> {"no", "yes", "chance"}]
        /\ view' \in [Machines -> {None, Unread} \cup SUBSET Keys]
        /\ vdue' \in [Machines -> BOOLEAN]
        /\ vfile' = vfile
    BY <1>1, DrawFacts
  <1>6. QED
    BY <1>3, <1>4, <1>5 DEF TypeOK

LEMMA CallStepType ==
  ASSUME TypeOK, EntriesOK, CallsOK, CallStep
  PROVE  TypeOK'
  <1>1. PICK R, seen : Draw(R, seen)
    BY CallFacts
  <1>2. PICK i \in Calls : CallKept(i)
    BY CallFacts
  <1>3. /\ ops' \in 0..MaxOps
        /\ UNCHANGED <<known, ever, coord, page, push, load, outdated>>
        /\ Untouched \/ Marking
    BY CallFacts
  <1>4. call' \in [Calls -> Held \cup {None}]
    BY <1>2 DEF CallKept, TypeOK
  <1>5. /\ built' \in [Machines -> {None} \cup SUBSET Keys]
        /\ fits' \in [Machines -> {"no", "yes", "chance"}]
        /\ view' \in [Machines -> {None, Unread} \cup SUBSET Keys]
        /\ vdue' \in [Machines -> BOOLEAN]
        /\ vfile' = vfile
    BY <1>1, DrawFacts
  <1>6. /\ UNCHANGED <<readOnly, file>> /\ Announced
        /\ store' \in Marks \cup {Unread}
        /\ leaving' \in [Machines -> {"no", "asked", "unloaded", "dropped", "forgotten"}]
        /\ trashed' \subseteq Cards /\ touched' \subseteq Machines
    BY <1>3, MarkingFacts
  <1>7. pending' \subseteq Machines /\ stateDue' \in BOOLEAN /\ due' \in BOOLEAN
    BY <1>6, AnnouncedFacts
  <1>8. QED
    BY <1>3, <1>4, <1>5, <1>6, <1>7 DEF TypeOK
-----------------------------------------------------------------------------
(* The kinds of step, and what is kept of an entry.                          *)

LEMMA NextKinds ==
  ASSUME Next
  PROVE  \/ PageStep \/ StartAnswer \/ AnswerRead
         \/ \E t \in Pushes : Flush(t) \/ PushRead(t)
         \/ CallStep \/ StoreStep
         \/ \E e \in Machines : EntryStep(e)
         \/ Stop \/ Crash
  <1>1. CASE \E i \in Calls, op \in Ops, c \in Cards : Begin(i, op, c)
    BY <1>1 DEF CallStep
  <1>2. CASE \E i \in Calls : StoreRead(i) \/ ViewRead(i)
    BY <1>2 DEF CallStep
  <1>3. CASE \/ LoadStore \/ Save
             \/ \E e \in Machines : AddAgain(e) \/ SaveView(e) \/ LeaveForget(e)
    BY <1>3 DEF StoreStep
  <1>4. CASE \E e \in Machines : AddEntry(e) \/ HealthPolled(e) \/ Unload(e) \/ PollFails(e)
                                 \/ Delete(e) \/ LeaveUnload(e) \/ LeaveDrop(e) \/ Leave(e)
    BY <1>4 DEF EntryStep
  <1>5. CASE \E e \in Machines, cs \in SUBSET Keys : SetUp(e, cs) \/ Poll(e, cs)
    BY <1>5 DEF EntryStep
  <1>6. CASE OpenPage \/ ClosePage \/ Refresh
    BY <1>6 DEF PageStep
  <1>7. QED
    BY <1>1, <1>2, <1>3, <1>4, <1>5, <1>6 DEF Next

LEMMA TypeStep == IInv /\ [Next]_vars => TypeOK'
  <1> SUFFICES ASSUME IInv, [Next]_vars PROVE TypeOK'
    OBVIOUS
  <1>0. TypeOK /\ EntriesOK /\ StoreOK /\ CallsOK /\ PageOK
    BY DEF IInv
  <1>1. CASE UNCHANGED vars
    BY <1>0, <1>1 DEF vars, TypeOK
  <1>2. CASE Next
    BY <1>0, <1>2, NextKinds, PageStepType, AnswerStepType, PushFacts, PushStepType,
       CallStepType, StoreStepType, EntryStepType, RestartedType
  <1>3. QED
    BY <1>1, <1>2

\* Answers that are computed, and calls, keep what is known of every entry.
LEMMA DrawEntries ==
  ASSUME TypeOK, EntriesOK, NEW R, NEW seen, Draw(R, seen), UNCHANGED <<known, coord>>,
         store' = Unread <=> store = Unread,
         \A e \in Machines : \/ leaving'[e] = leaving[e]
                             \/ leaving[e] = "no" /\ leaving'[e] = "asked" /\ e \in known
  PROVE  EntriesOK'
  <1> SUFFICES ASSUME NEW e \in Machines PROVE EntryOK(e)'
    BY DEF EntriesOK
  <1>1. EntryOK(e)
    BY DEF EntriesOK
  <1>2. /\ fits'[e] # "no" => coord[e] # None /\ built'[e] # None
        /\ fits'[e] = "yes" => built'[e] = coord[e].cards
        /\ vdue'[e] => view'[e] # Unread
        /\ coord[e] = None => vdue'[e] = vdue[e]
        /\ vfile' = vfile
    BY DrawFacts
  <1>3. \/ leaving'[e] = leaving[e]
        \/ leaving[e] = "no" /\ leaving'[e] = "asked" /\ e \in known
    OBVIOUS
  <1>4. QED
    BY <1>1, <1>2, <1>3 DEF EntryOK

LEMMA EntryStepEntries ==
  ASSUME TypeOK, EntriesOK, NEW e \in Machines, EntryStep(e)
  PROVE  EntriesOK'
  <1> SUFFICES ASSUME NEW f \in Machines PROVE EntryOK(f)'
    BY DEF EntriesOK
  <1>1. EntryOK(f) /\ EntryOK(e)
    BY DEF EntriesOK
  <1>2. CASE f # e
    <2>1. /\ f \in known' <=> f \in known
          /\ store' = store
          /\ leaving'[f] = leaving[f] /\ coord'[f] = coord[f]
          /\ built'[f] = built[f] /\ fits'[f] = fits[f]
          /\ view'[f] = view[f] /\ vfile'[f] = vfile[f] /\ vdue'[f] = vdue[f]
      BY <1>2, EntryStepFacts
    <2>2. QED
      BY <1>1, <2>1 DEF EntryOK
  <1>3. EntryOK(e)'
    <2>0. store' = store
      BY EntryStepFacts
    <2>1. CASE AddEntry(e)
      BY <1>1, <2>0, <2>1 DEF AddEntry, EntryOK, TypeOK
    <2>2. CASE HealthPolled(e) \/ Unload(e) \/ Delete(e)
      BY <1>1, <2>0, <2>2 DEF HealthPolled, Unload, Delete, EntryOK, TypeOK
    <2>3. ASSUME NEW cs \in SUBSET Keys, SetUp(e, cs) \/ Poll(e, cs)
          PROVE  EntryOK(e)'
      <3>1. /\ coord' = [coord EXCEPT ![e] = [ok |-> TRUE, cards |-> cs]]
            /\ \E b \in {"no", "chance"} :
                 /\ fits' = [fits EXCEPT ![e] = b]
                 /\ b = "chance" => built[e] # None
            /\ UNCHANGED <<known, ever, leaving, built, panel, views>>
            /\ e \in known /\ leaving[e] \in {"no", "asked"}
        BY <1>1, <2>3 DEF SetUp, Poll, NewKey, EntryOK
      <3>2. coord'[e] # None
        <4>1. [ok |-> TRUE, cards |-> cs] \in Told
          BY DEF Told
        <4>2. coord'[e] = [ok |-> TRUE, cards |-> cs]
          BY <3>1 DEF TypeOK
        <4>3. QED
          BY <4>1, <4>2, ToldIsSome
      <3>3. fits'[e] = "no" \/ (fits'[e] = "chance" /\ built[e] # None)
        BY <3>1 DEF TypeOK
      <3>4. QED
        BY <1>1, <3>1, <3>2, <3>3 DEF EntryOK
    <2>4. CASE PollFails(e)
      <3>1. coord'[e] = [coord[e] EXCEPT !.ok = FALSE] /\ coord[e] \in Told
        BY <2>4 DEF PollFails, TypeOK
      <3>2. coord'[e].cards = coord[e].cards /\ coord'[e] # None
        <4>1. coord'[e] \in Told
          BY <3>1 DEF Told
        <4>2. QED
          BY <3>1, <4>1, ToldIsSome DEF Told
      <3>3. /\ UNCHANGED <<known, ever, leaving, cache, panel, views>>
            /\ coord[e] # None
        BY <2>4 DEF PollFails
      <3>4. QED
        BY <1>1, <3>2, <3>3 DEF EntryOK
    <2>5. CASE LeaveUnload(e) \/ LeaveDrop(e) \/ Leave(e)
      BY <1>1, <2>0, <2>5 DEF LeaveUnload, LeaveDrop, Leave, EntryOK, TypeOK
    <2>6. QED
      BY <2>1, <2>2, <2>3, <2>4, <2>5 DEF EntryStep
  <1>4. QED
    BY <1>2, <1>3

LEMMA StoreStepEntries ==
  ASSUME TypeOK, EntriesOK, StoreStep
  PROVE  EntriesOK'
  <1> SUFFICES ASSUME NEW f \in Machines PROVE EntryOK(f)'
    BY DEF EntriesOK
  <1>0. EntryOK(f)
    BY DEF EntriesOK
  <1>1. ASSUME NEW e \in Machines, AddAgain(e) PROVE EntryOK(f)'
    <2>1. store \in Marks /\ store # Unread
      BY <1>1 DEF AddAgain, TypeOK
    <2>2. store' \in Marks
      BY <1>1, <2>1, RestoredFacts, ChangeFacts DEF AddAgain
    <2>3. store' # Unread /\ UNCHANGED <<ha, cache, views>>
      BY <1>1, <2>2, StoreAssumption DEF AddAgain
    <2>4. QED
      BY <1>0, <2>3 DEF EntryOK
  <1>2. ASSUME NEW e \in Machines, LeaveForget(e) PROVE EntryOK(f)'
    <2>1. store \in Marks /\ store # Unread
      BY <1>2 DEF LeaveForget, TypeOK
    <2>2. store' \in Marks
      BY <1>2, <2>1, ForgottenFacts, ChangeFacts DEF LeaveForget
    <2>3. store' # Unread /\ UNCHANGED <<known, coord, cache, views>>
      BY <1>2, <2>2, StoreAssumption DEF LeaveForget
    <2>4. /\ leaving[e] = "dropped"
          /\ leaving'[f] = IF f = e THEN "forgotten" ELSE leaving[f]
      BY <1>2 DEF LeaveForget, TypeOK
    <2>5. QED
      BY <1>0, <2>3, <2>4 DEF EntryOK
  <1>3. ASSUME NEW e \in Machines, SaveView(e) PROVE EntryOK(f)'
    BY <1>0, <1>3 DEF SaveView, EntryOK, TypeOK
  <1>4. CASE LoadStore
    <2>1. store' # Unread
      BY <1>4, EmptyFacts, StoreAssumption DEF LoadStore, TypeOK
    <2>2. QED
      BY <1>0, <1>4, <2>1 DEF LoadStore, EntryOK
  <1>5. CASE Save
    BY <1>0, <1>5 DEF Save, EntryOK
  <1>6. QED
    BY <1>1, <1>2, <1>3, <1>4, <1>5 DEF StoreStep

LEMMA EntriesStep == IInv /\ [Next]_vars => EntriesOK'
  <1> SUFFICES ASSUME IInv, [Next]_vars PROVE EntriesOK'
    OBVIOUS
  <1>0. TypeOK /\ EntriesOK /\ StoreOK /\ CallsOK /\ PageOK
    BY DEF IInv
  <1>1. CASE UNCHANGED vars
    BY <1>0, <1>1 DEF vars, EntriesOK, EntryOK
  <1>2. CASE PageStep
    BY <1>0, <1>2 DEF PageStep, OpenPage, ClosePage, Refresh, EntriesOK, EntryOK
  <1>3. CASE StartAnswer \/ AnswerRead
    <2>1. PICK R, seen : Draw(R, seen)
      BY <1>0, <1>3, AnswerStep
    <2>2. UNCHANGED <<ha, panel>>
      BY <1>0, <1>3, AnswerStep
    <2>3. QED
      BY <1>0, <2>1, <2>2, DrawEntries
  <1>4. ASSUME NEW t \in Pushes, Flush(t) \/ PushRead(t) PROVE EntriesOK'
    <2>1. PICK R, seen : Draw(R, seen)
      BY <1>0, <1>4, PushFacts DEF PushStep
    <2>2. UNCHANGED <<ha, panel>>
      BY <1>0, <1>4, PushFacts DEF PushStep
    <2>3. QED
      BY <1>0, <2>1, <2>2, DrawEntries
  <1>5. CASE CallStep
    <2>1. PICK R, seen : Draw(R, seen)
      BY <1>0, <1>5, CallFacts
    <2>2. UNCHANGED <<known, coord>> /\ (Untouched \/ Marking)
      BY <1>0, <1>5, CallFacts
    <2>3. /\ store' = Unread <=> store = Unread
          /\ \A e \in Machines : \/ leaving'[e] = leaving[e]
                                 \/ leaving[e] = "no" /\ leaving'[e] = "asked" /\ e \in known
      BY <1>0, <2>2, MarkingFacts
    <2>4. QED
      BY <1>0, <2>1, <2>2, <2>3, DrawEntries
  <1>6. CASE StoreStep
    BY <1>0, <1>6, StoreStepEntries
  <1>7. ASSUME NEW e \in Machines, EntryStep(e) PROVE EntriesOK'
    BY <1>0, <1>7, EntryStepEntries
  <1>8. CASE Crash
    BY <1>0, <1>8, NoneAssumption DEF Crash, Restarted, EntriesOK, EntryOK
  <1>9. CASE Stop
    <2>1. \A e \in Machines : vfile'[e] = IF vdue[e] THEN view[e] ELSE vfile[e]
      BY <1>9 DEF Stop
    <2>2. QED
      BY <1>0, <1>9, <2>1 DEF Stop, Restarted, EntriesOK, EntryOK
  <1>10. QED
    BY <1>1, <1>2, <1>3, <1>4, <1>5, <1>6, <1>7, <1>8, <1>9, NextKinds
-----------------------------------------------------------------------------
(* What is kept of an entry that is deleted.                                 *)

MemoryOK == StoreOK /\ CallsOK /\ ForgottenOK

\* A change of the Store that nothing but its own machine is left with.
LEMMA ChangedMemory ==
  ASSUME TypeOK, StoreOK, ForgottenOK, store # Unread, store' \in Marks, Announced,
         UNCHANGED <<readOnly, file>>,
         \A e \in Machines \ touched' :
            Forgot(e)' => \/ e \notin touched /\ Forgot(e) /\ (Traces(store', e) => Traces(store, e))
                          \/ ~Traces(store', e)
  PROVE  StoreOK' /\ ForgottenOK'
  <1>1. store' # Unread
    BY StoreAssumption
  <1>2. StoreOK'
    BY <1>1 DEF StoreOK, Announced
  <1>3. ASSUME NEW e \in Machines \ touched', Forgot(e)'
        PROVE  /\ ~Traces(store', e)
               /\ ~due' /\ file' # Newer => ~Traces(file', e)
    <2>1. ~Traces(store', e)
      BY <1>3 DEF ForgottenOK
    <2>2. ASSUME ~due', file' # Newer PROVE file' = store'
      <3>1. ~readOnly'
        BY <2>2 DEF StoreOK
      <3>2. QED
        BY <1>1, <1>2, <2>2, <3>1 DEF StoreOK
    <2>3. QED
      BY <2>1, <2>2
  <1>4. QED
    BY <1>2, <1>3 DEF ForgottenOK

LEMMA MemoryStep == IInv /\ [Next]_vars => MemoryOK'
  <1> SUFFICES ASSUME IInv, [Next]_vars PROVE MemoryOK'
    OBVIOUS
  <1>0. TypeOK /\ EntriesOK /\ StoreOK /\ CallsOK /\ ForgottenOK /\ PageOK /\ TypeOK'
    BY TypeStep DEF IInv
  <1>a. ASSUME UNCHANGED <<ha, panel, call, touched>> PROVE MemoryOK'
    BY <1>0, <1>a DEF MemoryOK, StoreOK, CallsOK, ForgottenOK, Forgot, Traces, Of
  <1>1. CASE UNCHANGED vars
    BY <1>a, <1>1 DEF vars
  <1>2. CASE PageStep
    BY <1>a, <1>2 DEF PageStep, OpenPage, ClosePage, Refresh
  <1>3. CASE StartAnswer \/ AnswerRead
    BY <1>0, <1>a, <1>3, AnswerStep
  <1>4. ASSUME NEW t \in Pushes, Flush(t) \/ PushRead(t) PROVE MemoryOK'
    BY <1>0, <1>a, <1>4, PushFacts DEF PushStep
  <1>5. CASE CallStep
    <2>1. UNCHANGED <<known, ever>> /\ (Untouched \/ Marking)
      BY <1>0, <1>5, CallFacts
    <2>2. /\ UNCHANGED <<readOnly, file>> /\ Announced
          /\ store' \in Marks \cup {Unread} /\ (store' = Unread <=> store = Unread)
          /\ \A e \in Machines :
               \/ leaving'[e] = leaving[e]
               \/ leaving[e] = "no" /\ leaving'[e] = "asked" /\ e \in known
          /\ touched \subseteq touched'
          /\ \A e \in Machines \ touched' :
               store # Unread /\ Forgot(e) /\ Traces(store', e) => Traces(store, e)
      BY <1>0, <2>1, MarkingFacts
    <2>3. CallsOK'
      <3>1. PICK i \in Calls : CallKept(i)
        BY <1>0, <1>5, CallFacts
      <3>2. ASSUME NEW j \in Calls, call'[j] # None, call'[j].at = "view" PROVE store # Unread
        <4>1. CASE j # i
          <5>1. call'[j] = call[j]
            BY <1>0, <3>1, <4>1 DEF CallKept, TypeOK
          <5>2. QED
            BY <1>0, <3>2, <5>1 DEF CallsOK
        <4>2. CASE j = i
          <5>1. call[i] \in Held \cup {None} /\ call \in [Calls -> Held \cup {None}]
            BY <1>0 DEF TypeOK
          <5>2. PICK w \in Held : call' = [call EXCEPT ![i] = w] /\ (w.at = "view" => store # Unread)
            BY <3>1, <3>2, <4>2, <5>1 DEF CallKept
          <5>3. call'[i] = w
            BY <5>1, <5>2
          <5>4. QED
            BY <3>2, <4>2, <5>2, <5>3
        <4>3. QED
          BY <4>1, <4>2
      <3>3. QED
        BY <2>2, <3>2 DEF CallsOK
    <2>4. \A e \in Machines : Forgot(e)' => Forgot(e)
      BY <2>1, <2>2 DEF Forgot
    <2>5. StoreOK' /\ ForgottenOK'
      <3>1. CASE store = Unread
        <4>1. store' = store /\ due' = due
          BY <2>2, <3>1 DEF Announced
        <4>2. QED
          BY <1>0, <2>2, <2>4, <3>1, <4>1 DEF StoreOK, ForgottenOK
      <3>2. CASE store # Unread
        <4>1. store' \in Marks
          BY <2>2, <3>2
        <4>2. \A e \in Machines \ touched' :
                 Forgot(e)' => e \notin touched /\ Forgot(e) /\ (Traces(store', e) => Traces(store, e))
          BY <2>2, <2>4, <3>2
        <4>3. QED
          BY <1>0, <2>2, <3>2, <4>1, <4>2, ChangedMemory
      <3>3. QED
        BY <3>1, <3>2
    <2>6. QED
      BY <2>3, <2>5 DEF MemoryOK
  <1>6. CASE StoreStep
    <2>1. ASSUME NEW e \in Machines, AddAgain(e) PROVE MemoryOK'
      <3>1. store \in Marks /\ store # Unread
        BY <1>0, <2>1 DEF AddAgain, TypeOK
      <3>2. /\ store' \in Marks /\ Announced
            /\ \A f : Traces(store', f) => Traces(store, f)
        BY <1>0, <2>1, <3>1, RestoredFacts, ChangeFacts DEF AddAgain
      <3>3. UNCHANGED <<ha, readOnly, file, waits, touched>>
        BY <2>1 DEF AddAgain
      <3>4. StoreOK' /\ ForgottenOK'
        BY <1>0, <3>1, <3>2, <3>3, ChangedMemory DEF Forgot
      <3>5. CallsOK'
        BY <1>0, <3>2, <3>3, StoreAssumption DEF CallsOK
      <3>6. QED
        BY <3>4, <3>5 DEF MemoryOK
    <2>2. ASSUME NEW e \in Machines, LeaveForget(e) PROVE MemoryOK'
      <3>1. store \in Marks /\ store # Unread
        BY <1>0, <2>2 DEF LeaveForget, TypeOK
      <3>2. /\ store' \in Marks /\ Announced
            /\ \A f : Traces(store', f) => Traces(store, f)
            /\ ~readOnly => ~Traces(store', e)
        BY <1>0, <2>2, <3>1, ForgottenFacts, ChangeFacts DEF LeaveForget
      <3>3. /\ UNCHANGED <<known, ever, readOnly, file, waits, touched>>
            /\ \A f \in Machines \ {e} : leaving'[f] = leaving[f]
        BY <1>0, <2>2 DEF LeaveForget, TypeOK
      <3>4. ~Traces(store', e)
        <4>1. CASE readOnly
          <5>1. store = EmptyMarks
            BY <1>0, <4>1 DEF StoreOK
          <5>2. QED
            BY <3>2, <5>1, EmptyFacts
        <4>2. QED
          BY <3>2, <4>1
      <3>5. \A f \in Machines \ {e} : Forgot(f)' => Forgot(f)
        BY <3>3 DEF Forgot
      <3>6. StoreOK' /\ ForgottenOK'
        BY <1>0, <3>1, <3>2, <3>3, <3>4, <3>5, ChangedMemory
      <3>7. CallsOK'
        BY <1>0, <3>2, <3>3, StoreAssumption DEF CallsOK
      <3>8. QED
        BY <3>6, <3>7 DEF MemoryOK
    <2>3. ASSUME NEW e \in Machines, SaveView(e) PROVE MemoryOK'
      BY <1>a, <2>3 DEF SaveView
    <2>4. CASE LoadStore
      <3>1. /\ store = Unread /\ ~due /\ ~readOnly
            /\ store' = IF file = Newer THEN EmptyMarks ELSE file
            /\ readOnly' = (file = Newer)
            /\ UNCHANGED <<ha, file, due, waits, hist>>
        BY <1>0, <2>4 DEF LoadStore, StoreOK
      <3>2. store' \in Marks /\ store' # Unread
        BY <1>0, <3>1, EmptyFacts, StoreAssumption DEF TypeOK
      <3>3. StoreOK'
        BY <3>1, <3>2 DEF StoreOK
      <3>4. ForgottenOK'
        BY <1>0, <3>1, EmptyFacts DEF ForgottenOK, Forgot
      <3>5. QED
        BY <3>1, <3>2, <3>3, <3>4 DEF MemoryOK, CallsOK
    <2>5. CASE Save
      <3>1. store # Unread /\ ~readOnly
        BY <1>0, <2>5 DEF Save, StoreOK
      <3>2. /\ file' = store /\ due' = FALSE
            /\ UNCHANGED <<ha, store, readOnly, waits, hist>>
        BY <2>5 DEF Save
      <3>3. StoreOK' /\ CallsOK'
        BY <1>0, <3>1, <3>2 DEF StoreOK, CallsOK
      <3>4. ForgottenOK'
        BY <1>0, <3>1, <3>2 DEF ForgottenOK, Forgot
      <3>5. QED
        BY <3>3, <3>4 DEF MemoryOK
    <2>6. QED
      BY <1>6, <2>1, <2>2, <2>3, <2>4, <2>5 DEF StoreStep
  <1>7. ASSUME NEW e \in Machines, EntryStep(e) PROVE MemoryOK'
    <2>1. /\ UNCHANGED <<panel, waits, hist>>
          /\ known \ {e} = known' \ {e} /\ ever' \ known' \subseteq (ever \ known) \cup {e}
          /\ \A f \in Machines \ {e} : leaving'[f] = leaving[f]
      BY <1>0, <1>7, EntryStepFacts
    <2>2. Forgot(e)' => Forgot(e)
      BY <1>0, <1>7 DEF Forgot, EntryStep, AddEntry, HealthPolled, Unload, PollFails, Delete,
         SetUp, Poll, LeaveUnload, LeaveDrop, Leave, TypeOK
    <2>3. \A f \in Machines : Forgot(f)' => Forgot(f)
      BY <2>1, <2>2 DEF Forgot
    <2>4. StoreOK' /\ CallsOK'
      BY <1>0, <2>1 DEF StoreOK, CallsOK
    <2>5. ForgottenOK'
      BY <1>0, <2>1, <2>3 DEF ForgottenOK
    <2>6. QED
      BY <2>4, <2>5 DEF MemoryOK
  <1>8. CASE Stop \/ Crash
    <2>1. Restarted
      BY <1>8 DEF Stop, Crash
    <2>2. store' = Unread /\ ~readOnly' /\ ~due' /\ \A i \in Calls : call'[i] = None
      BY <2>1 DEF Restarted
    <2>3. StoreOK' /\ CallsOK'
      BY <2>2 DEF StoreOK, CallsOK
    <2>4. ASSUME NEW e \in Machines \ touched', Forgot(e)', file' # Newer
          PROVE  ~Traces(file', e)
      <3>1. e \in ever \ known
        BY <2>1, <2>4 DEF Forgot, Restarted
      <3>2. CASE Stop
        <4>1. /\ store # Unread => ~Traces(store, e)
              /\ ~due /\ file # Newer => ~Traces(file, e)
          BY <1>0, <2>4, <3>1, <3>2 DEF Stop, ForgottenOK, Forgot
        <4>2. file' = IF due THEN store ELSE file
          BY <3>2 DEF Stop
        <4>3. due => store # Unread
          BY <1>0 DEF StoreOK
        <4>4. QED
          BY <2>4, <4>1, <4>2, <4>3
      <3>3. CASE Crash
        <4>1. file' = file /\ ~due /\ e \notin touched
          BY <2>4, <3>1, <3>3 DEF Crash
        <4>2. QED
          BY <1>0, <2>4, <3>1, <4>1 DEF ForgottenOK, Forgot
      <3>4. QED
        BY <1>8, <3>2, <3>3
    <2>5. QED
      BY <2>2, <2>3, <2>4 DEF MemoryOK, ForgottenOK
  <1>9. QED
    BY <1>1, <1>2, <1>3, <1>4, <1>5, <1>6, <1>7, <1>8, NextKinds
-----------------------------------------------------------------------------
(* What the page shows.                                                      *)

ScreenOK == PageOK /\ SettingsOK /\ TrashOK /\ ShownOK

\* A message that is current names no card that was put in the trash.
LEMMA CurrentHidesTrash ==
  ASSUME TypeOK, EntriesOK, NEW c \in Cards, store # Unread, c \in store.removed
  PROVE  Current(c[1]) = None \/ c[2] \notin Current(c[1]).cards
  <1>1. c[1] \in Machines /\ EntryOK(c[1])
    BY CardParts DEF EntriesOK
  <1>2. c[2] \in Removed(c[1])
    BY DEF Removed, Of
  <1>3. QED
    BY <1>1, <1>2, CurrentFacts

\* A step that sends nothing, where what changed for the page is owed to it.
LEMMA SilentStep ==
  ASSUME TypeOK, PageOK, SettingsOK, TrashOK, ShownOK,
         UNCHANGED <<page, push, load, outdated>>,
         pending \subseteq pending', ~open => UNCHANGED sub,
         store # Unread => store' # Unread,
         open /\ store' # store /\ store # Unread => stateDue',
         stateDue => stateDue',
         \A c \in trashed' : /\ c \in Cards /\ Kept(c)'
                             /\ c \in trashed \/ (open => c[1] \in pending'),
         \A e \in Machines :
            open /\ load = None /\ leaving'[e] = "no" /\ fits'[e] # "chance" =>
               \/ e \in pending'
               \/ leaving[e] = "no" /\ fits[e] # "chance" /\ Latest(e)' = Latest(e)
  PROVE  ScreenOK'
  <1>1. PageOK'
    BY DEF PageOK
  <1>2. SettingsOK'
    <2>1. SUFFICES ASSUME open, load = None, ~stateDue' PROVE settings = PageState(store')
      BY DEF SettingsOK
    <2>2. store' = store /\ ~stateDue
      BY <2>1, NoneAssumption DEF PageOK
    <2>3. QED
      BY <2>1, <2>2 DEF SettingsOK
  <1>3. \A e : Owed(e) => Owed(e)'
    BY DEF Owed
  <1>4. \A e : e \in pending' => Owed(e)'
    BY DEF Owed
  <1>5. TrashOK'
    <2>1. SUFFICES ASSUME NEW c \in trashed', c[1] \notin outdated, ~Owed(c[1])'
                   PROVE  shown[c[1]] = None \/ c[2] \notin shown[c[1]].cards
      BY DEF TrashOK
    <2>2. CASE c \in trashed
      BY <1>3, <2>1, <2>2 DEF TrashOK
    <2>3. CASE ~open
      BY <2>3, CardParts DEF PageOK
    <2>4. QED
      BY <1>4, <2>1, <2>2, <2>3
  <1>6. ShownOK'
    <2>1. SUFFICES ASSUME open, load = None, NEW e \in Machines, e \notin outdated, ~Owed(e)',
                          leaving'[e] = "no", fits'[e] # "chance"
                   PROVE  shown[e] = Latest(e)'
      BY DEF ShownOK
    <2>2. leaving[e] = "no" /\ fits[e] # "chance" /\ Latest(e)' = Latest(e)
      BY <1>4, <2>1
    <2>3. QED
      BY <1>3, <2>1, <2>2 DEF ShownOK
  <1>7. QED
    BY <1>1, <1>2, <1>5, <1>6 DEF ScreenOK

LEMMA AnswerStepPage ==
  ASSUME IInv, StartAnswer \/ AnswerRead
  PROVE  ScreenOK'
  <1>0. TypeOK /\ EntriesOK /\ PageOK /\ SettingsOK /\ TrashOK /\ ShownOK
    BY DEF IInv
  <1>1. /\ open /\ store # Unread
        /\ UNCHANGED <<ha, panel, sub, open, push, call, ops, trashed, touched>>
    BY <1>0, AnswerStep
  <1>2. PageOK'
    BY <1>0, <1>1 DEF PageOK
  <1>3. \A e : Owed(e)' <=> Owed(e)
    BY <1>1 DEF Owed
  <1>4. \A c : Kept(c)' <=> Kept(c)
    BY <1>1 DEF Kept
  <1>5. CASE load' \in Answering /\ UNCHANGED <<shown, settings, outdated>>
    <2>1. load' # None
      BY <1>5, NoneAssumption
    <2>2. TrashOK'
      BY <1>0, <1>1, <1>3, <1>4, <1>5 DEF TrashOK
    <2>3. SettingsOK' /\ ShownOK'
      BY <2>1 DEF SettingsOK, ShownOK
    <2>4. QED
      BY <1>2, <2>2, <2>3 DEF ScreenOK
  <1>6. ASSUME load' = None, settings' = PageState(store),
               NEW a \in [Machines -> Told \cup {None}], Deliver(a)
        PROVE  ScreenOK'
    <2>1. a \in Messages /\ DOMAIN a = Machines
      BY DEF Messages
    <2>2. \A e \in Machines : e \notin outdated' => shown'[e] = Current(e)
      BY <1>0, <1>6, <2>1, DeliverFacts
    <2>3. PICK R, seen : Draw(R, seen)
      BY <1>0, AnswerStep
    <2>4. SettingsOK'
      BY <1>1, <1>6 DEF SettingsOK
    <2>5. TrashOK'
      <3>1. SUFFICES ASSUME NEW c \in trashed, c[1] \notin outdated'
                     PROVE  shown'[c[1]] = None \/ c[2] \notin shown'[c[1]].cards
        BY <1>0, <1>1, <1>4 DEF TrashOK
      <3>2. c \in Cards /\ c[1] \in Machines /\ c \in store.removed
        BY <1>0, <1>1, CardParts DEF TypeOK, TrashOK, Kept
      <3>3. QED
        BY <1>0, <1>1, <2>2, <3>1, <3>2, CurrentHidesTrash
    <2>6. ShownOK'
      <3>1. SUFFICES ASSUME NEW e \in Machines, e \notin outdated', fits'[e] # "chance"
                     PROVE  shown'[e] = Latest(e)'
        BY DEF ShownOK
      <3>2. fits[e] # "chance" /\ (coord[e] = None => LastView(e)' = LastView(e))
        BY <1>0, <2>3, <3>1, DrawFacts
      <3>3. Latest(e)' = Latest(e)
        BY <1>1, <3>2, LatestKept
      <3>4. Current(e) = Latest(e)
        BY <1>0, <3>2, CurrentFacts DEF EntriesOK
      <3>5. QED
        BY <2>2, <3>1, <3>3, <3>4
    <2>7. QED
      BY <1>2, <2>4, <2>5, <2>6 DEF ScreenOK
  <1>7. QED
    BY <1>0, <1>5, <1>6, AnswerStep

LEMMA PushStepPage ==
  ASSUME IInv, NEW t \in Pushes, PushStep(t)
  PROVE  ScreenOK'
  <1>0. TypeOK /\ EntriesOK /\ PageOK /\ SettingsOK /\ TrashOK /\ ShownOK
    BY DEF IInv
  <1>1. /\ open /\ store # Unread
        /\ UNCHANGED <<ha, panel, open, load, call, ops, trashed, touched>>
        /\ pending' = {} \/ pending' = pending
        /\ \A s \in Pushes \ {t} : push'[s] = push[s]
    BY DEF PushStep
  <1>2. PICK R, seen : Draw(R, seen)
    BY DEF PushStep
  <1>3. PICK b \in Messages :
          /\ Deliver(b)
          /\ \A e \in Machines :
               \/ e \in pending \ pending'
               \/ push[t] # None /\ e \in push[t].todo \cup {push[t].at}
               => \/ e \in DOMAIN b
                  \/ push'[t] # None /\ e \in push'[t].todo \cup {push'[t].at}
    BY DEF PushStep
  <1>4. /\ \A e \in DOMAIN b : e \notin outdated' => shown'[e] = Current(e)
        /\ \A e \in Machines \ DOMAIN b :
             shown'[e] = shown[e] /\ (e \in outdated' <=> e \in outdated)
    BY <1>0, <1>3, DeliverFacts
  <1>5. ASSUME NEW e \in Machines \ DOMAIN b, Owed(e) PROVE Owed(e)'
    <2>1. CASE e \in pending
      BY <1>3, <2>1 DEF Owed
    <2>2. ASSUME NEW s \in Pushes, push[s] # None, e \in push[s].todo \cup {push[s].at}
          PROVE  Owed(e)'
      BY <1>1, <1>3, <2>2 DEF Owed
    <2>3. QED
      BY <1>5, <2>1, <2>2 DEF Owed
  <1>6. PageOK'
    BY <1>0, <1>1 DEF PageOK
  <1>7. SettingsOK'
    <2>1. CASE UNCHANGED <<stateDue, settings>>
      BY <1>0, <1>1, <2>1 DEF SettingsOK
    <2>2. CASE settings' = PageState(store)
      BY <1>1, <2>2 DEF SettingsOK
    <2>3. QED
      BY <2>1, <2>2 DEF PushStep
  <1>8. TrashOK'
    <2>1. SUFFICES ASSUME NEW c \in trashed, c[1] \notin outdated', ~Owed(c[1])'
                   PROVE  shown'[c[1]] = None \/ c[2] \notin shown'[c[1]].cards
      BY <1>0, <1>1 DEF TrashOK, Kept
    <2>2. c \in Cards /\ c[1] \in Machines /\ c \in store.removed
      BY <1>0, <1>1, CardParts DEF TypeOK, TrashOK, Kept
    <2>3. CASE c[1] \in DOMAIN b
      BY <1>0, <1>1, <1>4, <2>1, <2>2, <2>3, CurrentHidesTrash
    <2>4. CASE c[1] \notin DOMAIN b
      BY <1>0, <1>4, <1>5, <2>1, <2>2, <2>4 DEF TrashOK
    <2>5. QED
      BY <2>3, <2>4
  <1>9. ShownOK'
    <2>1. SUFFICES ASSUME load = None, NEW e \in Machines, e \notin outdated', ~Owed(e)',
                          leaving[e] = "no", fits'[e] # "chance"
                   PROVE  shown'[e] = Latest(e)'
      BY <1>1 DEF ShownOK
    <2>2. fits[e] # "chance" /\ (coord[e] = None => LastView(e)' = LastView(e))
      BY <1>0, <1>2, <2>1, DrawFacts
    <2>3. Latest(e)' = Latest(e)
      BY <1>1, <2>2, LatestKept
    <2>4. Current(e) = Latest(e)
      BY <1>0, <2>2, CurrentFacts DEF EntriesOK
    <2>5. CASE e \in DOMAIN b
      BY <1>4, <2>1, <2>3, <2>4, <2>5
    <2>6. CASE e \notin DOMAIN b
      BY <1>0, <1>1, <1>4, <1>5, <2>1, <2>2, <2>3, <2>6 DEF ShownOK
    <2>7. QED
      BY <2>5, <2>6
  <1>10. QED
    BY <1>6, <1>7, <1>8, <1>9 DEF ScreenOK
LEMMA CallStepPage ==
  ASSUME IInv, CallStep
  PROVE  ScreenOK'
  <1>0. TypeOK /\ EntriesOK /\ CallsOK /\ PageOK /\ SettingsOK /\ TrashOK /\ ShownOK
    BY DEF IInv
  <1>1. /\ UNCHANGED <<known, ever, coord, page, push, load, outdated>>
        /\ Untouched \/ Marking
    BY <1>0, CallFacts
  <1>2. PICK R, seen : Draw(R, seen)
    BY <1>0, CallFacts
  <1>3. /\ UNCHANGED <<readOnly, file>> /\ Announced
        /\ (store' = Unread <=> store = Unread)
        /\ \A e \in Machines :
             \/ leaving'[e] = leaving[e]
             \/ leaving[e] = "no" /\ leaving'[e] = "asked" /\ e \in known
        /\ trashed \subseteq trashed' /\ trashed' \subseteq Cards
        /\ store # Unread => store.removed \subseteq store'.removed
        /\ \A c \in trashed' \ trashed :
             /\ store # Unread /\ store' # store
             /\ c \in store'.removed /\ c[1] \in known
    BY <1>0, <1>1, MarkingFacts
  <1>4. pending \subseteq pending'
    BY <1>0, <1>3, AnnouncedFacts
  <1>5. ~open => UNCHANGED sub
    BY <1>0, <1>3 DEF Announced, TypeOK
  <1>6. /\ open /\ store' # store => stateDue' = TRUE /\ known \subseteq pending'
        /\ stateDue => stateDue'
    BY <1>0, <1>3 DEF Announced, TypeOK
  <1>7. ASSUME NEW c \in trashed'
        PROVE  /\ c \in Cards /\ Kept(c)'
               /\ c \in trashed \/ (open => c[1] \in pending')
    <2>1. c \in Cards
      BY <1>3
    <2>2. CASE c \in trashed
      <3>1. Kept(c)
        BY <1>0, <2>2 DEF TrashOK
      <3>2. Kept(c)'
        BY <1>3, <3>1 DEF Kept
      <3>3. QED
        BY <2>1, <2>2, <3>2
    <2>3. CASE c \notin trashed
      BY <1>3, <1>6, <2>1, <2>3 DEF Kept
    <2>4. QED
      BY <2>2, <2>3
  <1>8. ASSUME NEW e \in Machines, open, load = None, leaving'[e] = "no", fits'[e] # "chance"
        PROVE  \/ e \in pending'
               \/ leaving[e] = "no" /\ fits[e] # "chance" /\ Latest(e)' = Latest(e)
    <2>1. leaving[e] = "no"
      BY <1>3, <1>8
    <2>2. fits[e] # "chance" /\ (coord[e] = None => LastView(e)' = LastView(e))
      BY <1>0, <1>2, <1>8, DrawFacts
    <2>3. CASE store' = store
      BY <1>1, <2>1, <2>2, <2>3, LatestKept
    <2>4. CASE e \in known /\ store' # store
      BY <1>6, <1>8, <2>4
    <2>5. CASE e \notin known
      BY <1>1, <2>1, <2>2, <2>5 DEF Latest
    <2>6. QED
      BY <2>3, <2>4, <2>5
  <1>9. QED
    BY <1>0, <1>1, <1>3, <1>4, <1>5, <1>6, <1>7, <1>8, SilentStep

LEMMA EntryStepPage ==
  ASSUME IInv, NEW e \in Machines, EntryStep(e)
  PROVE  ScreenOK'
  <1>0. TypeOK /\ EntriesOK /\ PageOK /\ SettingsOK /\ TrashOK /\ ShownOK
    BY DEF IInv
  <1>1. /\ UNCHANGED <<panel, stateDue, page, waits, hist>>
        /\ \/ pending' = IF open THEN pending \cup {e} ELSE pending
           \/ pending' = pending /\ leaving'[e] \in {"asked", "dropped"}
        /\ known \ {e} = known' \ {e}
        /\ \A f \in Machines \ {e} :
             /\ leaving'[f] = leaving[f] /\ coord'[f] = coord[f]
             /\ fits'[f] = fits[f] /\ view'[f] = view[f] /\ vfile'[f] = vfile[f]
    BY <1>0, EntryStepFacts
  <1>2. ASSUME NEW c \in trashed'
        PROVE  c \in Cards /\ Kept(c)' /\ c \in trashed
    BY <1>0, <1>1, <1>2 DEF TypeOK, TrashOK, Kept
  <1>3. ASSUME NEW f \in Machines, open, load = None, leaving'[f] = "no", fits'[f] # "chance"
        PROVE  \/ f \in pending'
               \/ leaving[f] = "no" /\ fits[f] # "chance" /\ Latest(f)' = Latest(f)
    <2>1. CASE f = e
      BY <1>1, <1>3, <2>1
    <2>2. CASE f # e
      <3>1. /\ f \in known' <=> f \in known
            /\ leaving[f] = "no" /\ fits[f] # "chance" /\ coord'[f] = coord[f]
            /\ view'[f] = view[f] /\ vfile'[f] = vfile[f] /\ store' = store
        BY <1>1, <1>3, <2>2
      <3>2. Latest(f)' = Latest(f)
        BY <3>1 DEF Latest, LastView, Shown, Removed
      <3>3. QED
        BY <3>1, <3>2
    <2>3. QED
      BY <2>1, <2>2
  <1>4. QED
    BY <1>0, <1>1, <1>2, <1>3, SilentStep

LEMMA StoreStepPage ==
  ASSUME IInv, StoreStep
  PROVE  ScreenOK'
  <1>0. TypeOK /\ EntriesOK /\ StoreOK /\ PageOK /\ SettingsOK /\ TrashOK /\ ShownOK
    BY DEF IInv
  \* A change of the Store, in which only e's cards leave the trash.
  <1>a. ASSUME NEW e \in Machines, store # Unread, store' \in Marks, Announced,
               UNCHANGED <<known, ever, coord, cache, views, page, waits, outdated>>,
               trashed' = trashed \ Of(trashed, e),
               \A c \in store.removed : c[1] # e => c \in store'.removed,
               \A f \in Machines : leaving'[f] = "no" => leaving[f] = "no"
        PROVE  ScreenOK'
    <2>1. pending \subseteq pending'
      BY <1>0, <1>a, AnnouncedFacts
    <2>2. store' # Unread
      BY <1>a, StoreAssumption
    <2>3. ~open => UNCHANGED sub
      BY <1>0, <1>a DEF Announced, TypeOK
    <2>4. /\ open /\ store' # store => stateDue' = TRUE /\ known \subseteq pending'
          /\ stateDue => stateDue'
      BY <1>0, <1>a DEF Announced, TypeOK
    <2>5. ASSUME NEW c \in trashed' PROVE c \in Cards /\ Kept(c)' /\ c \in trashed
      <3>1. c \in trashed /\ c[1] # e /\ c \in store.removed
        BY <1>0, <1>a, <2>5 DEF Of, TrashOK, Kept
      <3>2. QED
        BY <1>0, <1>a, <2>2, <3>1 DEF Kept, TypeOK
    <2>6. ASSUME NEW f \in Machines, open, load = None, leaving'[f] = "no", fits'[f] # "chance"
          PROVE  \/ f \in pending'
                 \/ leaving[f] = "no" /\ fits[f] # "chance" /\ Latest(f)' = Latest(f)
      <3>1. leaving[f] = "no" /\ fits[f] # "chance" /\ LastView(f)' = LastView(f)
        BY <1>a, <2>6 DEF LastView
      <3>2. CASE store' = store
        BY <1>a, <3>1, <3>2, LatestKept
      <3>3. CASE f \in known /\ store' # store
        BY <2>4, <2>6, <3>3
      <3>4. CASE f \notin known
        BY <1>a, <3>1, <3>4 DEF Latest
      <3>5. QED
        BY <3>2, <3>3, <3>4
    <2>7. QED
      BY <1>0, <1>a, <2>1, <2>2, <2>3, <2>4, <2>5, <2>6, SilentStep
  <1>1. ASSUME NEW e \in Machines, AddAgain(e) PROVE ScreenOK'
    <2>1. store \in Marks /\ store # Unread
      BY <1>0, <1>1 DEF AddAgain, TypeOK
    <2>2. /\ store' \in Marks /\ Announced
          /\ \A c \in store.removed : c[1] # e => c \in store'.removed
      BY <1>0, <1>1, <2>1, RestoredFacts, ChangeFacts DEF AddAgain
    <2>3. /\ UNCHANGED <<ha, cache, views, page, waits, outdated>>
          /\ trashed' = trashed \ Of(trashed, e)
      BY <1>1 DEF AddAgain
    <2>4. QED
      BY <1>a, <2>1, <2>2, <2>3
  <1>2. ASSUME NEW e \in Machines, LeaveForget(e) PROVE ScreenOK'
    <2>1. store \in Marks /\ store # Unread
      BY <1>0, <1>2 DEF LeaveForget, TypeOK
    <2>2. /\ store' \in Marks /\ Announced
          /\ \A c \in store.removed : c[1] # e => c \in store'.removed
      BY <1>0, <1>2, <2>1, ForgottenFacts, ChangeFacts DEF LeaveForget
    <2>3. /\ UNCHANGED <<known, ever, coord, cache, views, page, waits, outdated>>
          /\ trashed' = trashed \ Of(trashed, e)
          /\ \A f \in Machines : leaving'[f] = "no" => leaving[f] = "no"
      BY <1>0, <1>2 DEF LeaveForget, TypeOK
    <2>4. QED
      BY <1>a, <2>1, <2>2, <2>3
  <1>b. ASSUME UNCHANGED <<ha, cache, store, sub, page, waits, hist>>,
               \A e \in Machines : LastView(e)' = LastView(e),
               \A c : Kept(c) => Kept(c)'
        PROVE  ScreenOK'
    <2>1. ASSUME NEW c \in trashed' PROVE c \in Cards /\ Kept(c)' /\ c \in trashed
      BY <1>0, <1>b, <2>1 DEF TypeOK, TrashOK
    <2>2. ASSUME NEW f \in Machines, open, load = None, leaving'[f] = "no", fits'[f] # "chance"
          PROVE  leaving[f] = "no" /\ fits[f] # "chance" /\ Latest(f)' = Latest(f)
      BY <1>b, <2>2, LatestKept
    <2>3. QED
      BY <1>0, <1>b, <2>1, <2>2, SilentStep
  <1>3. ASSUME NEW e \in Machines, SaveView(e) PROVE ScreenOK'
    <2>1. view[e] # Unread
      BY <1>0, <1>3 DEF SaveView, EntriesOK, EntryOK
    <2>2. \A f \in Machines : LastView(f)' = LastView(f)
      BY <1>0, <1>3, <2>1 DEF SaveView, LastView, TypeOK
    <2>3. QED
      BY <1>b, <1>3, <2>2 DEF SaveView, Kept
  <1>4. CASE Save
    <2>1. store # Unread
      BY <1>0, <1>4 DEF Save, StoreOK
    <2>2. QED
      BY <1>b, <1>4, <2>1 DEF Save, Kept, LastView
  <1>5. CASE LoadStore
    <2>1. /\ store = Unread
          /\ store' = IF file = Newer THEN EmptyMarks ELSE file
          /\ UNCHANGED <<ha, cache, file, due, views, sub, page, waits, ops, hist>>
      BY <1>5 DEF LoadStore
    <2>2. store' # Unread
      BY <1>0, <2>1, EmptyFacts, StoreAssumption DEF TypeOK
    <2>3. open => load = Asked /\ load # None
      BY <1>0, <2>1, NoneAssumption DEF PageOK
    <2>4. ASSUME NEW c \in trashed' PROVE c \in Cards /\ Kept(c)' /\ c \in trashed
      BY <1>0, <2>1, <2>2, <2>4 DEF TypeOK, TrashOK, Kept
    <2>5. QED
      BY <1>0, <2>1, <2>2, <2>3, <2>4, SilentStep
  <1>6. QED
    BY <1>1, <1>2, <1>3, <1>4, <1>5 DEF StoreStep

LEMMA PageStepPage ==
  ASSUME IInv, PageStep
  PROVE  ScreenOK'
  <1>0. TypeOK /\ PageOK /\ TrashOK
    BY DEF IInv
  <1>1. CASE OpenPage \/ Refresh
    <2>1. /\ open' /\ load' = Asked /\ load' # None
          /\ UNCHANGED <<panel, sub, shown, push, outdated, trashed>>
      BY <1>1, NoneAssumption DEF OpenPage, Refresh
    <2>2. PageOK'
      BY <1>0, <2>1 DEF PageOK
    <2>3. TrashOK'
      BY <1>0, <2>1 DEF TrashOK, Kept, Owed
    <2>4. QED
      BY <2>1, <2>2, <2>3 DEF ScreenOK, SettingsOK, ShownOK
  <1>2. CASE ClosePage
    <2>1. Closed /\ UNCHANGED <<panel, trashed>>
      BY <1>2 DEF ClosePage
    <2>2. PageOK'
      BY <2>1 DEF Closed, PageOK
    <2>3. TrashOK'
      BY <1>0, <2>1, CardParts DEF TypeOK, Closed, TrashOK, Kept
    <2>4. QED
      BY <2>1, <2>2, <2>3 DEF Closed, ScreenOK, SettingsOK, ShownOK
  <1>3. QED
    BY <1>1, <1>2 DEF PageStep

LEMMA RestartedPage ==
  ASSUME IInv, Stop \/ Crash
  PROVE  ScreenOK'
  <1>0. TypeOK /\ StoreOK /\ TrashOK
    BY DEF IInv
  <1>1. Restarted
    BY DEF Stop, Crash
  <1>2. PageOK' /\ SettingsOK' /\ ShownOK'
    BY <1>1 DEF Restarted, Closed, PageOK, SettingsOK, ShownOK
  <1>3. ASSUME NEW c \in trashed'
        PROVE  c \in Cards /\ file' # Newer /\ c \in file'.removed
    <2>1. CASE Crash
      <3>1. c \in trashed /\ file' = file /\ file # Newer /\ c \in file.removed
        BY <1>3, <2>1 DEF Crash
      <3>2. QED
        BY <1>0, <3>1 DEF TypeOK
    <2>2. CASE Stop
      <3>1. c \in trashed /\ c \in Cards /\ Kept(c)
        BY <1>0, <1>3, <2>2 DEF Stop, TrashOK, TypeOK
      <3>2. file' = IF due THEN store ELSE file
        BY <2>2 DEF Stop
      <3>3. CASE due
        BY <1>0, <3>1, <3>2, <3>3, StoreAssumption DEF Kept, StoreOK, TypeOK
      <3>4. CASE ~due /\ store = Unread
        BY <3>1, <3>2, <3>4 DEF Kept
      <3>5. CASE ~due /\ store # Unread
        <4>1. ~readOnly
          BY <1>0, <3>1, <3>5, EmptyFacts DEF Kept, StoreOK
        <4>2. file = store /\ store # Newer
          BY <1>0, <3>5, <4>1, StoreAssumption DEF StoreOK, TypeOK
        <4>3. QED
          BY <3>1, <3>2, <3>5, <4>2 DEF Kept
      <3>6. QED
        BY <3>3, <3>4, <3>5
    <2>3. QED
      BY <2>1, <2>2
  <1>4. TrashOK'
    <2>1. store' = Unread /\ \A e \in Machines : shown'[e] = None
      BY <1>1 DEF Restarted, Closed
    <2>2. QED
      BY <1>3, <2>1, CardParts DEF TrashOK, Kept
  <1>5. QED
    BY <1>2, <1>4 DEF ScreenOK
-----------------------------------------------------------------------------
(* The invariant is kept, and what follows from it.                          *)

LEMMA ScreenStep == IInv /\ [Next]_vars => ScreenOK'
  <1> SUFFICES ASSUME IInv, [Next]_vars PROVE ScreenOK'
    OBVIOUS
  <1>1. CASE UNCHANGED vars
    BY <1>1 DEF IInv, vars, ScreenOK, PageOK, SettingsOK, TrashOK, ShownOK, Owed, Kept,
       Latest, LastView, Shown, Removed
  <1>2. ASSUME NEW t \in Pushes, Flush(t) \/ PushRead(t) PROVE ScreenOK'
    <2>1. TypeOK /\ EntriesOK /\ PageOK
      BY DEF IInv
    <2>2. QED
      BY <1>2, <2>1, PushFacts, PushStepPage
  <1>3. CASE Next
    BY <1>2, <1>3, NextKinds, PageStepPage, AnswerStepPage, CallStepPage, StoreStepPage,
       EntryStepPage, RestartedPage
  <1>4. QED
    BY <1>1, <1>3

LEMMA IInvStep == IInv /\ [Next]_vars => IInv'
  BY TypeStep, EntriesStep, MemoryStep, ScreenStep DEF IInv, MemoryOK, ScreenOK

LEMMA SpecIInv == Spec => []IInv
  BY InitIInv, IInvStep, PTL DEF Spec

(* Every variable keeps its type, for any machines, cards, pushes and calls. *)
THEOREM TypeCorrect == Spec => []TypeOK
  <1>1. IInv => TypeOK
    BY DEF IInv
  <1>2. QED
    BY <1>1, SpecIInv, PTL

(* Of an entry that is gone nothing is left, in memory or in a file, unless  *)
(* a call on it was still going on or a crash came before the file was       *)
(* written (async_remove_entry).                                             *)
THEOREM TheGoneLeaveNothing == Spec => []GoneLeavesNothing
  <1>1. IInv => GoneLeavesNothing
    <2> SUFFICES ASSUME IInv, NEW e \in ever \ (known \cup touched)
                 PROVE  /\ vfile[e] = None /\ ~vdue[e]
                        /\ store # Unread => ~Traces(store, e)
                        /\ ~due /\ file # Newer => ~Traces(file, e)
      BY DEF GoneLeavesNothing
    <2>1. e \in Machines /\ EntryOK(e) /\ Forgot(e)
      BY DEF IInv, TypeOK, EntriesOK, Forgot
    <2>2. QED
      BY <2>1 DEF IInv, EntryOK, ForgottenOK
  <1>2. QED
    BY <1>1, SpecIInv, PTL

(* A card that was answered as removed does not come back to a page at rest, *)
(* after a poll, a reload or a restart, unless its agent is added again, its *)
(* machine is deleted or a crash came before the mark was written            *)
(* (ws_card_remove).                                                         *)
THEOREM TheTrashedStayAway == Spec => []TrashedStaysAway
  <1>1. IInv => TrashedStaysAway
    <2>1. AtRest => \A e : ~Owed(e)
      BY DEF AtRest, Owed
    <2>2. QED
      BY <2>1 DEF IInv, TrashOK, TrashedStaysAway
  <1>2. QED
    BY <1>1, SpecIInv, PTL

(* An open page with nothing on its way shows the machines there are, each   *)
(* as its last poll left it, and the marks that the Store has (ws_subscribe, *)
(* fresh_response): every change is owed to the page until it was told.      *)
THEOREM ThePageIsCurrent == Spec => []PageIsCurrent
  <1>1. IInv => PageIsCurrent
    <2>1. AtRest => open /\ load = None /\ ~stateDue /\ \A e : ~Owed(e)
      BY DEF AtRest, Owed
    <2>2. QED
      BY <2>1 DEF IInv, SettingsOK, ShownOK, PageIsCurrent
  <1>2. QED
    BY <1>1, SpecIInv, PTL
=============================================================================
