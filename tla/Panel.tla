------------------------------- MODULE Panel -------------------------------
(* The Control Center's page and what is kept for it (panel_state.py,        *)
(* panel_data.py, panel_ws.py, panel_net.py). A page has one answer with     *)
(* everything and then a push for each machine that changed. An answer is    *)
(* computed from what the machine's entry last polled, or from its last view *)
(* when it has not polled in this run, without the cards that were put in    *)
(* the trash.                                                                *)
(*                                                                           *)
(* Everything runs in one event loop, so an action is what runs from one     *)
(* await that waits to the next. Those are few: the panel's Store and a      *)
(* machine's view are each read from a file once in a run, and whoever comes *)
(* first waits, in the middle of a push, an answer or a call.                *)
(*                                                                           *)
(* One page is modelled: subscriptions share nothing. A machine here is one  *)
(* whose cards may be removed, neither the App's own nor the Replica. Why a  *)
(* machine does not answer is left out, and so are the readings of a card.   *)
EXTENDS Naturals, FiniteSets, Functions

CONSTANTS
    Machines, Keys,     \* entry ids that Home Assistant may give; cards' keys
    Pushes, Calls,      \* pushes and calls that may wait at once
    None, Unread, Newer,
    MaxOps              \* bound: set-ups, polls, calls, pages, restarts

Cards == Machines \X Keys
Ops   == {"hide", "show", "place", "name", "unname", "label", "unlabel", "trash", "delete"}

\* What the Store may hold, what a poll or a message may say of a machine, and
\* what a push, an answer and a call carry while they wait.
Marks ==
    [labels : SUBSET Machines, names : SUBSET Cards, order : SUBSET Cards, removed : SUBSET Cards,
     hidden : UNION {[S -> BOOLEAN] : S \in SUBSET Cards}]
Told      == [ok : BOOLEAN, cards : SUBSET Keys]
Stopped   == [at : Machines, todo : SUBSET Machines]
Answering == [at : Machines, todo : SUBSET Machines,
              got : UNION {[S -> Told \cup {None}] : S \in SUBSET Machines}]
Asked     == [at |-> Unread, got |-> <<>>, todo |-> {}]
Held      == [op : Ops, card : Cards, kn : SUBSET Machines, at : {"store", "view"}]

ASSUME NoneAssumption ==
    /\ None # Unread /\ {None, Unread} \cap Machines = {}
    /\ \A cs \in SUBSET Keys : cs \notin {None, Unread}
    /\ None \notin Told \cup Stopped \cup Answering \cup Held \cup {Asked}
ASSUME StoreAssumption == {Unread, Newer} \cap Marks = {}
ASSUME OpsAssumption == MaxOps \in Nat

VARIABLES
    known, ever,        \* the entries there are; those there ever were
    leaving,            \* [Machines -> "no", or how far its deletion is: "asked",
                        \*  "unloaded", "dropped" or "forgotten"]
    coord,              \* [Machines -> [ok, cards] of its last poll, or None]
    built, fits,        \* [Machines -> the cards of the last build; "no", "yes" or
                        \*  "chance": whether its key fits]
    store, readOnly,    \* the panel Store in memory, or Unread
    file, due,          \* its file, or Newer; a save is due
    view, vfile, vdue,  \* the last views, the same way, one Store each
    open, shown,        \* a page is open; [Machines -> [ok, cards] it shows, or None]
    settings,           \* the page's copy of what the Store says
    pending, stateDue,  \* its subscription: machines to push, the Store to push
    push,               \* [Pushes -> a flush that waits for a view, or None]
    load,               \* the page's call for everything, or None
    call,               \* [Calls -> a call that waits, or None]
    ops,
    trashed,            \* history: cards that were answered as removed
    outdated,           \* history: machines whose last message was old when sent
    touched             \* history: deleted entries a call or a crash interfered with

ha     == <<known, ever, leaving, coord>>
cache  == <<built, fits>>
panel  == <<store, readOnly, file, due>>
views  == <<view, vfile, vdue>>
sub    == <<pending, stateDue>>
page   == <<open, shown, settings>>
waits  == <<push, load, call>>
hist   == <<trashed, outdated, touched>>
vars   == <<ha, cache, panel, views, sub, page, waits, ops, hist>>

-----------------------------------------------------------------------------
(* What the Store holds. What a name or a label says, and the place of a     *)
(* card in the order, are left out: they are there or not.                   *)

EmptyMarks == [labels |-> {}, names |-> {}, hidden |-> <<>>, order |-> {}, removed |-> {}]

Put(f, x, v) == [y \in DOMAIN f \cup {x} |-> IF y = x THEN v ELSE f[y]]
Plus(f, g) == [y \in DOMAIN f \cup DOMAIN g |-> IF y \in DOMAIN f THEN f[y] ELSE g[y]]
Of(S, e) == {c \in S : c[1] = e}

\* The Store after a call: kn are the entries there were when it began.
After(op, s, c, kn) ==
    CASE op = "hide"    -> [s EXCEPT !.hidden = Put(@, c, TRUE)]
      [] op = "show"    -> [s EXCEPT !.hidden = Put(@, c, FALSE)]
      [] op = "place"   -> [s EXCEPT !.order = {c} \cup {d \in @ : d[1] \in kn}]
      [] op = "name"    -> [s EXCEPT !.names = @ \cup {c}]
      [] op = "unname"  -> [s EXCEPT !.names = @ \ {c}]
      [] op = "label"   -> [s EXCEPT !.labels = @ \cup {c[1]}]
      [] op = "unlabel" -> [s EXCEPT !.labels = @ \ {c[1]}]
      [] op \in {"trash", "delete"} ->
            [s EXCEPT !.removed = @ \cup {c}, !.order = @ \ {c}, !.names = @ \ {c},
                      !.hidden = Restrict(@, DOMAIN @ \ {c})]

Restored(s, e) == [s EXCEPT !.removed = @ \ Of(@, e)]

Forgotten_KeepsHidden(s, e) ==
    [s EXCEPT !.labels = @ \ {e}, !.names = @ \ Of(@, e), !.order = @ \ Of(@, e),
              !.removed = @ \ Of(@, e)]

Forgotten(s, e) ==
    [labels  |-> s.labels \ {e},
     names   |-> s.names \ Of(s.names, e),
     hidden  |-> Restrict(s.hidden, DOMAIN s.hidden \ Of(DOMAIN s.hidden, e)),
     order   |-> s.order \ Of(s.order, e),
     removed |-> s.removed \ Of(s.removed, e)]

\* What a page is told of it.
PageState(s) ==
    [labels |-> s.labels, names |-> s.names, order |-> s.order,
     hidden |-> {c \in DOMAIN s.hidden : s.hidden[c]}]

-----------------------------------------------------------------------------
(* Signals                                                                   *)

Tell(S) == pending' = IF open THEN pending \cup S ELSE pending

ChangeStore_Untold(s) ==
    IF readOnly \/ s = store THEN UNCHANGED <<store, due, sub>>
    ELSE /\ store' = s /\ due' = TRUE
         /\ stateDue' = (open \/ stateDue)
         /\ UNCHANGED pending

\* PanelState.async_change: refused when the file was not read; nothing is saved
\* or said when nothing changed.
ChangeStore(s) ==
    IF readOnly \/ s = store THEN UNCHANGED <<store, due, sub>>
    ELSE /\ store' = s /\ due' = TRUE
         /\ Tell(known)
         /\ stateDue' = (open \/ stateDue)

-----------------------------------------------------------------------------
(* What async_machine answers                                                *)

\* fresh_response: the build of a poll is used again while its key is the same.
Fresh(e) == IF fits[e] = "no" THEN coord[e].cards ELSE built[e]

LastView(e) == IF view[e] = Unread THEN vfile[e] ELSE view[e]
OfView(v) == [ok |-> FALSE, cards |-> IF v = None THEN {} ELSE v]

Response(e) ==
    IF coord[e] # None THEN [ok |-> coord[e].ok, cards |-> Fresh(e)]
    ELSE OfView(LastView(e))

Removed(e) == {c[2] : c \in Of(store.removed, e)}

\* Nothing when every card of it is in the trash.
Shown(e, r) ==
    IF r.cards # {} /\ r.cards \subseteq Removed(e) THEN None
    ELSE [ok |-> r.ok, cards |-> r.cards \ Removed(e)]

Machine(e) == Shown(e, Response(e))
Current(e) == IF e \in known THEN Machine(e) ELSE None

\* An answer for e need not wait.
Ready(e) == coord[e] # None \/ view[e] # Unread

\* The views and builds after answers for R were computed.
Drawn(R) == {e \in R : coord[e] # None}
Draw(R, seen) ==
    /\ built' = [e \in Machines |-> IF e \in Drawn(R) THEN Fresh(e) ELSE built[e]]
    /\ fits' = [e \in Machines |-> IF e \in Drawn(R) /\ fits[e] = "no" THEN "yes" ELSE fits[e]]
    /\ view' = [e \in Machines |-> IF e \in Drawn(R) THEN Fresh(e)
                                   ELSE IF e \in seen /\ view[e] = Unread THEN vfile[e]
                                   ELSE view[e]]
    /\ vdue' = [e \in Machines |-> vdue[e] \/ (e \in Drawn(R) /\ view[e] # Fresh(e))]
    /\ UNCHANGED vfile

\* The page gets messages a, one for each machine of their domain.
Deliver(a) ==
    /\ shown' = [e \in Machines |-> IF e \in DOMAIN a THEN a[e] ELSE shown[e]]
    /\ outdated' = (outdated \ DOMAIN a) \cup {e \in DOMAIN a : a[e] # Current(e)}

\* The ways to go through todo up to the first one that has to wait.
Runs(todo, R) ==
    {run \in [done : SUBSET todo, at : (todo \ R) \cup {None}] :
        /\ run.done \subseteq R
        /\ run.at = None => run.done = todo}
Rest(todo, run) ==
    IF run.at = None THEN None ELSE [at |-> run.at, todo |-> todo \ (run.done \cup {run.at})]

-----------------------------------------------------------------------------
(* The page                                                                  *)

Acts == ops < MaxOps /\ ops' = ops + 1

\* A page asks for everything and subscribes at once.
OpenPage ==
    /\ Acts /\ ~open
    /\ open' = TRUE
    /\ load' = Asked
    /\ UNCHANGED <<ha, cache, panel, views, sub, shown, settings, push, call, hist>>

Closed ==
    /\ open' = FALSE /\ load' = None /\ push' = [t \in Pushes |-> None]
    /\ pending' = {} /\ stateDue' = FALSE
    /\ shown' = [e \in Machines |-> None] /\ settings' = None
    /\ outdated' = {}

ClosePage ==
    /\ Acts /\ open
    /\ Closed
    /\ UNCHANGED <<ha, cache, panel, views, call, trashed, touched>>

\* The page's Refresh, which lets every loaded machine poll first (Poll).
Refresh ==
    /\ Acts /\ open /\ load = None
    /\ load' = Asked
    /\ UNCHANGED <<ha, cache, panel, views, sub, page, push, call, hist>>

\* async_cards, once got has the answers up to here: goes on to the next wait.
Answer(got, todo, seen) ==
    \E run \in Runs(todo, {e \in todo : Ready(e)}) :
        LET all == Plus(got, [e \in run.done |-> Machine(e)])
        IN  /\ Draw(run.done, seen)
            /\ IF run.at # None
               THEN /\ load' = [at |-> run.at, got |-> all,
                                todo |-> todo \ (run.done \cup {run.at})]
                    /\ UNCHANGED <<shown, settings, outdated>>
               ELSE /\ load' = None
                    /\ settings' = PageState(store)
                    /\ Deliver([e \in Machines |-> IF e \in DOMAIN all THEN all[e] ELSE None])

StartAnswer ==
    /\ load = Asked /\ store # Unread
    /\ Answer(<<>>, known, {})
    /\ UNCHANGED <<ha, panel, sub, open, push, call, ops, trashed, touched>>

AnswerRead ==
    /\ load \notin {None, Asked}
    /\ LET e == load.at
       IN Answer(Put(load.got, e, Shown(e, OfView(LastView(e)))), load.todo, {e})
    /\ UNCHANGED <<ha, panel, sub, open, push, call, ops, trashed, touched>>

\* ws_subscribe's flush, from a: what it has to send at once.
Go(t, a, todo, seen) ==
    \E run \in Runs(todo, {e \in todo : e \notin known \/ Ready(e)}) :
        /\ Draw(run.done \cap known, seen)
        /\ push' = [push EXCEPT ![t] = Rest(todo, run)]
        /\ Deliver(Plus(a, [e \in run.done |-> Current(e)]))

\* The timer fires. A push that waits for the Store is one that begins later.
Flush(t) ==
    /\ push[t] = None /\ store # Unread
    /\ pending # {} \/ stateDue
    /\ pending' = {} /\ stateDue' = FALSE
    /\ settings' = IF stateDue THEN PageState(store) ELSE settings
    /\ Go(t, <<>>, pending, {})
    /\ UNCHANGED <<ha, panel, open, load, call, ops, trashed, touched>>

PushRead(t) ==
    /\ push[t] # None
    /\ LET e == push[t].at
       IN Go(t, Put(<<>>, e, Shown(e, OfView(LastView(e)))), push[t].todo, {e})
    /\ UNCHANGED <<ha, panel, sub, open, settings, load, call, ops, trashed, touched>>

-----------------------------------------------------------------------------
(* The user's calls                                                          *)

Wait(i, op, c, kn, at) == call' = [call EXCEPT ![i] = [op |-> op, card |-> c, kn |-> kn, at |-> at]]
Over(i) == call' = [call EXCEPT ![i] = None]

Interferes(e) == e \notin known \/ leaving[e] = "forgotten"

Change(op, c, kn) ==
    /\ ChangeStore(After(op, store, c, kn))
    /\ touched' = IF Interferes(c[1]) THEN touched \cup {c[1]} ELSE touched
    /\ UNCHANGED <<readOnly, file>>

\* A call that needs no look at the machine.
Plain(op) == op \notin {"name", "unname", "trash", "delete"}

\* ws_card_remove once it knows what is shown of the machine (m).
Trash(op, c, kn, m) ==
    IF readOnly \/ m = None \/ (m # None /\ c[2] \notin m.cards)
    THEN UNCHANGED <<panel, sub, leaving, trashed, touched>>
    ELSE /\ Change(op, c, kn)
         /\ trashed' = IF Interferes(c[1]) THEN trashed ELSE trashed \cup {c}
         /\ leaving' = IF op = "delete" /\ m.cards = {c[2]} /\ leaving[c[1]] = "no" /\ c[1] \in known
                       THEN [leaving EXCEPT ![c[1]] = "asked"] ELSE leaving

\* ws_card_name and ws_card_remove, with what async_machine answered.
Looked(op, c, kn, m) ==
    IF op \in {"trash", "delete"} THEN Trash(op, c, kn, m)
    ELSE Change(op, c, kn) /\ UNCHANGED <<leaving, trashed>>

\* A call goes on from where the Store is there.
Proceed(i, op, c, kn) ==
    IF Plain(op)
    THEN /\ Change(op, c, kn)
         /\ Over(i)
         /\ UNCHANGED <<leaving, cache, views, trashed>>
    ELSE IF Ready(c[1])
    THEN /\ Looked(op, c, kn, Machine(c[1]))
         /\ Draw({c[1]}, {})
         /\ Over(i)
    ELSE /\ Wait(i, op, c, kn, "view")
         /\ UNCHANGED <<panel, sub, leaving, cache, views, trashed, touched>>

Begin(i, op, c) ==
    /\ Acts /\ call[i] = None
    /\ c[1] \in known
    /\ IF store = Unread
       THEN /\ Wait(i, op, c, known, "store")
            /\ UNCHANGED <<panel, sub, leaving, cache, views, trashed, touched>>
       ELSE Proceed(i, op, c, known)
    /\ UNCHANGED <<known, ever, coord, page, push, load, outdated>>

StoreRead(i) ==
    /\ call[i] # None /\ call[i].at = "store" /\ store # Unread
    /\ Proceed(i, call[i].op, call[i].card, call[i].kn)
    /\ UNCHANGED <<known, ever, coord, page, push, load, ops, outdated>>

ViewRead(i) ==
    /\ call[i] # None /\ call[i].at = "view"
    /\ LET c == call[i].card
       IN /\ Looked(call[i].op, c, call[i].kn, Shown(c[1], OfView(LastView(c[1]))))
          /\ Draw({}, {c[1]})
    /\ Over(i)
    /\ UNCHANGED <<known, ever, coord, page, push, load, ops, outdated>>

\* An agent that is added again: the cards come back. Before the Store is read
\* nothing seems removed.
AddAgain(e) ==
    /\ Acts /\ e \in known
    /\ store # Unread /\ Of(store.removed, e) # {}
    /\ ChangeStore(Restored(store, e))
    /\ trashed' = trashed \ Of(trashed, e)
    /\ UNCHANGED <<ha, cache, readOnly, file, views, page, waits, outdated, touched>>

\* The panel Store is read when it is first needed.
LoadStore ==
    /\ store = Unread
    /\ \/ load = Asked
       \/ \E i \in Calls : call[i] # None
       \/ \E e \in Machines : leaving[e] = "dropped"
    /\ store' = IF file = Newer THEN EmptyMarks ELSE file
    /\ readOnly' = (file = Newer)
    /\ UNCHANGED <<ha, cache, file, due, views, sub, page, waits, ops, hist>>

-----------------------------------------------------------------------------
(* Home Assistant and its entries                                            *)

AddEntry(e) ==
    /\ Acts /\ e \notin ever
    /\ known' = known \cup {e} /\ ever' = ever \cup {e}
    /\ Tell({e})
    /\ UNCHANGED <<leaving, coord, cache, panel, views, stateDue, page, waits, hist>>

\* The key of the last build is the identity of objects that are gone by then:
\* what another poll made may have it by chance.
NewKey(e, dead) == {"no"} \cup (IF built[e] # None /\ dead THEN {"chance"} ELSE {})

SetUp(e, cs) ==
    /\ Acts /\ e \in known /\ leaving[e] = "no" /\ coord[e] = None
    /\ coord' = [coord EXCEPT ![e] = [ok |-> TRUE, cards |-> cs]]
    /\ \E b \in NewKey(e, TRUE) : fits' = [fits EXCEPT ![e] = b]
    /\ Tell({e})
    /\ UNCHANGED <<known, ever, leaving, built, panel, views, stateDue, page, waits, hist>>

Poll_KeepsKey(e, cs) ==
    /\ Acts /\ coord[e] # None
    /\ coord' = [coord EXCEPT ![e] = [ok |-> TRUE, cards |-> cs]]
    /\ Tell({e})
    /\ UNCHANGED <<known, ever, leaving, cache, panel, views, stateDue, page, waits, hist>>

Poll(e, cs) ==
    /\ Acts /\ coord[e] # None
    /\ coord' = [coord EXCEPT ![e] = [ok |-> TRUE, cards |-> cs]]
    /\ \E b \in NewKey(e, fits[e] = "no") : fits' = [fits EXCEPT ![e] = b]
    /\ Tell({e})
    /\ UNCHANGED <<known, ever, leaving, built, panel, views, stateDue, page, waits, hist>>

\* Home Assistant tells of the first failed poll only.
PollFails(e) ==
    /\ Acts /\ coord[e] # None /\ coord[e].ok
    /\ coord' = [coord EXCEPT ![e].ok = FALSE]
    /\ Tell({e})
    /\ UNCHANGED <<known, ever, leaving, cache, panel, views, stateDue, page, waits, hist>>

\* The health poll, or new thresholds: the key changes.
HealthPolled(e) ==
    /\ Acts /\ coord[e] # None /\ fits[e] # "no"
    /\ fits' = [fits EXCEPT ![e] = "no"]
    /\ Tell({e})
    /\ UNCHANGED <<ha, built, panel, views, stateDue, page, waits, hist>>

Unload(e) ==
    /\ Acts /\ leaving[e] = "no" /\ coord[e] # None
    /\ coord' = [coord EXCEPT ![e] = None]
    /\ fits' = [fits EXCEPT ![e] = "no"]
    /\ Tell({e})
    /\ UNCHANGED <<known, ever, leaving, built, panel, views, stateDue, page, waits, hist>>

\* The user deletes the entry in Home Assistant.
Delete(e) ==
    /\ Acts /\ e \in known /\ leaving[e] = "no"
    /\ leaving' = [leaving EXCEPT ![e] = "asked"]
    /\ UNCHANGED <<known, ever, coord, cache, panel, views, sub, page, waits, hist>>

LeaveUnload(e) ==
    /\ leaving[e] = "asked"
    /\ leaving' = [leaving EXCEPT ![e] = "unloaded"]
    /\ coord' = [coord EXCEPT ![e] = None]
    /\ fits' = [fits EXCEPT ![e] = "no"]
    /\ Tell({e})
    /\ UNCHANGED <<known, ever, built, panel, views, stateDue, page, waits, ops, hist>>

\* async_remove_entry: the build and the view first,
LeaveDrop(e) ==
    /\ leaving[e] = "unloaded"
    /\ leaving' = [leaving EXCEPT ![e] = "dropped"]
    /\ built' = [built EXCEPT ![e] = None]
    /\ view' = [view EXCEPT ![e] = Unread]
    /\ vfile' = [vfile EXCEPT ![e] = None]
    /\ vdue' = [vdue EXCEPT ![e] = FALSE]
    /\ UNCHANGED <<known, ever, coord, fits, panel, sub, page, waits, ops, hist>>

\* then what the panel Store has of it,
LeaveForget(e) ==
    /\ leaving[e] = "dropped" /\ store # Unread
    /\ leaving' = [leaving EXCEPT ![e] = "forgotten"]
    /\ ChangeStore(Forgotten(store, e))
    /\ trashed' = trashed \ Of(trashed, e)
    /\ UNCHANGED <<known, ever, coord, cache, readOnly, file, views, page, waits, ops, outdated, touched>>

\* and the entry is gone.
Leave(e) ==
    /\ leaving[e] = "forgotten"
    /\ leaving' = [leaving EXCEPT ![e] = "no"]
    /\ known' = known \ {e}
    /\ Tell({e})
    /\ UNCHANGED <<ever, coord, cache, panel, views, stateDue, page, waits, ops, hist>>

Save ==
    /\ due
    /\ file' = store /\ due' = FALSE
    /\ UNCHANGED <<ha, cache, store, readOnly, views, sub, page, waits, ops, hist>>

SaveView(e) ==
    /\ vdue[e]
    /\ vfile' = [vfile EXCEPT ![e] = view[e]]
    /\ vdue' = [vdue EXCEPT ![e] = FALSE]
    /\ UNCHANGED <<ha, cache, panel, view, sub, page, waits, ops, hist>>

\* Home Assistant starts again; a deletion that was under way is not done.
Restarted ==
    /\ coord' = [e \in Machines |-> None]
    /\ leaving' = [e \in Machines |-> "no"]
    /\ built' = [e \in Machines |-> None] /\ fits' = [e \in Machines |-> "no"]
    /\ store' = Unread /\ readOnly' = FALSE /\ due' = FALSE
    /\ view' = [e \in Machines |-> Unread] /\ vdue' = [e \in Machines |-> FALSE]
    /\ call' = [i \in Calls |-> None]
    /\ Closed
    /\ UNCHANGED <<known, ever>>

Stop ==
    /\ Acts
    /\ file' = IF due THEN store ELSE file
    /\ vfile' = [e \in Machines |-> IF vdue[e] THEN view[e] ELSE vfile[e]]
    /\ Restarted
    /\ UNCHANGED <<trashed, touched>>

Crash ==
    /\ Acts
    /\ UNCHANGED <<file, vfile>>
    /\ Restarted
    /\ trashed' = IF file = Newer THEN {} ELSE trashed \cap file.removed
    /\ touched' = IF due THEN touched \cup (ever \ known) ELSE touched

-----------------------------------------------------------------------------
Init ==
    /\ known \in SUBSET Machines /\ ever = known
    /\ leaving = [e \in Machines |-> "no"]
    /\ coord \in [Machines -> {None} \cup [ok : {TRUE}, cards : SUBSET Keys]]
    /\ \A e \in Machines \ known : coord[e] = None
    /\ built = [e \in Machines |-> None] /\ fits = [e \in Machines |-> "no"]
    /\ store = Unread /\ readOnly = FALSE /\ due = FALSE
    /\ file \in {EmptyMarks, Newer}
    /\ view = [e \in Machines |-> Unread] /\ vdue = [e \in Machines |-> FALSE]
    /\ vfile \in [Machines -> {None} \cup SUBSET Keys]
    /\ \A e \in Machines \ known : vfile[e] = None
    /\ open = FALSE /\ shown = [e \in Machines |-> None] /\ settings = None
    /\ pending = {} /\ stateDue = FALSE
    /\ push = [t \in Pushes |-> None] /\ load = None
    /\ call = [i \in Calls |-> None]
    /\ ops = 0
    /\ trashed = {} /\ outdated = {} /\ touched = {}

Next ==
    \/ OpenPage \/ ClosePage \/ Refresh
    \/ StartAnswer \/ AnswerRead
    \/ \E t \in Pushes : Flush(t) \/ PushRead(t)
    \/ \E i \in Calls, op \in Ops, c \in Cards : Begin(i, op, c)
    \/ \E i \in Calls : StoreRead(i) \/ ViewRead(i)
    \/ LoadStore
    \/ \E e \in Machines : AddAgain(e) \/ AddEntry(e) \/ HealthPolled(e) \/ Unload(e)
    \/ \E e \in Machines, cs \in SUBSET Keys : SetUp(e, cs) \/ Poll(e, cs)
    \/ \E e \in Machines : PollFails(e) \/ Delete(e)
    \/ \E e \in Machines : LeaveUnload(e) \/ LeaveDrop(e) \/ LeaveForget(e) \/ Leave(e)
    \/ Save
    \/ \E e \in Machines : SaveView(e)
    \/ Stop \/ Crash

Spec == Init /\ [][Next]_vars

-----------------------------------------------------------------------------
(* Properties                                                                *)

\* Every variable keeps its type.
TypeOK ==
    /\ known \subseteq ever /\ ever \subseteq Machines
    /\ leaving \in [Machines -> {"no", "asked", "unloaded", "dropped", "forgotten"}]
    /\ coord \in [Machines -> Told \cup {None}]
    /\ built \in [Machines -> {None} \cup SUBSET Keys]
    /\ fits \in [Machines -> {"no", "yes", "chance"}]
    /\ store \in Marks \cup {Unread} /\ readOnly \in BOOLEAN
    /\ file \in Marks \cup {Newer} /\ due \in BOOLEAN
    /\ view \in [Machines -> {None, Unread} \cup SUBSET Keys]
    /\ vfile \in [Machines -> {None} \cup SUBSET Keys]
    /\ vdue \in [Machines -> BOOLEAN]
    /\ open \in BOOLEAN /\ shown \in [Machines -> Told \cup {None}]
    /\ pending \subseteq Machines /\ stateDue \in BOOLEAN
    /\ push \in [Pushes -> Stopped \cup {None}]
    /\ load \in Answering \cup {None, Asked}
    /\ call \in [Calls -> Held \cup {None}]
    /\ ops \in 0..MaxOps
    /\ trashed \subseteq Cards /\ outdated \subseteq Machines /\ touched \subseteq Machines

\* Nothing is on its way to the page.
AtRest == open /\ pending = {} /\ ~stateDue /\ load = None /\ \A t \in Pushes : push[t] = None

\* What there is to say of e now, whatever was built and kept of it.
Latest(e) ==
    IF e \notin known THEN None
    ELSE Shown(e, IF coord[e] # None THEN coord[e] ELSE OfView(LastView(e)))

\* Once nothing is on its way, an open page shows the machines there are, each
\* as its last poll left it, and the marks that the Store has: no order of
\* polls, calls, answers and pushes leaves a change untold (ws_subscribe,
\* fresh_response). Excepted are a machine whose last message had waited for a
\* file while it changed, and one whose build has another's key by chance.
PageIsCurrent ==
    AtRest =>
        /\ settings = PageState(store)
        /\ \A e \in Machines :
            e \notin outdated /\ leaving[e] = "no" /\ fits[e] # "chance" => shown[e] = Latest(e)

\* A card that was answered as removed does not come back to the page, after a
\* poll, a reload or a restart, unless its agent is added again, its machine is
\* deleted or a crash came before the mark was written (ws_card_remove).
TrashedStaysAway ==
    AtRest =>
        \A c \in trashed : c[1] \notin outdated =>
            shown[c[1]] = None \/ c[2] \notin shown[c[1]].cards

Traces(s, e) == e \in s.labels \/ Of(s.names \cup s.order \cup s.removed \cup DOMAIN s.hidden, e) # {}

\* Of an entry that is gone nothing is left, in memory or in a file, unless a
\* call on it was still going on or a crash came before the file was written
\* (async_remove_entry, "what the panel kept of it").
GoneLeavesNothing ==
    \A e \in ever \ (known \cup touched) :
        /\ vfile[e] = None /\ ~vdue[e]
        /\ store # Unread => ~Traces(store, e)
        /\ ~due /\ file # Newer => ~Traces(file, e)
=============================================================================
