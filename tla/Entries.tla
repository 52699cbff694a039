------------------------------- MODULE Entries -------------------------------
(***************************************************************************)
(* Which agent an entry is for.                                            *)
(*                                                                         *)
(* An agent may be added by hand (config_flow.py, async_step_user), from a *)
(* discovery card (async_step_zeroconf, async_step_hassio) or by the panel *)
(* (async_step_import), under any address it has. The flows ask whether    *)
(* that agent is an entry already, one network read at a time, and other   *)
(* flows, polls and the network itself go on in between. An entry keeps    *)
(* what it learns of its agent (agent_identity.py), and may be moved to an *)
(* advertised address only when the same agent is there.                   *)
(*                                                                         *)
(* A step is what runs between two awaits. The three reads that compare an *)
(* entry with a new address are one step. All agents use one port and      *)
(* report a host name (v0.8.3).                                            *)
(*                                                                         *)
(* A name with an underscore (Migrations_All) is a definition with a       *)
(* mistake the code could have; no behaviour uses it.                      *)
(***************************************************************************)
EXTENDS FiniteSets, Functions, Integers

CONSTANTS
    Agents,         \* the machines that run an agent
    NamesOf,        \* [Agents -> the host names each may have]
    FirstName,      \* [Agents -> the one it has at first]
    Ids,            \* what agents have for an agent_id
    Drives,         \* [Agents -> the serials of its drives]
    Wants,          \* [Agents -> the password it asks for, or None]
    AppNames,       \* host names that are those of the App's container
    Hosts,          \* what is typed or advertised as an address
    NetOf,          \* [Hosts -> the kind of network it is in]
    AddressOf,      \* [Hosts -> the address each resolves to]
    Tokens,         \* passwords
    Slots,          \* names for entries: bounds how many there are at once
    Flows,          \* names for flows: bounds how many are open at once
    MaxChanges,     \* bound: how often the network changes
    MaxBegun,       \* bound: how many flows begin
    Starts,         \* what there is at first: [at, id, entries], the entries
                    \* those an early release may have left
    None

Addresses == {AddressOf[h] : h \in Hosts}
Names     == UNION {NamesOf[a] : a \in Agents}

ASSUME NamesAssumption ==
    /\ None \notin Agents \cup Names \cup Hosts \cup Tokens \cup Slots
    /\ Names \cap Hosts = {}
    /\ FirstName \in [Agents -> Names] /\ \A a \in Agents : FirstName[a] \in NamesOf[a]

ASSUME NetsAssumption ==
    /\ Hosts # {} /\ IsFiniteSet(Hosts)
    /\ \A h \in Hosts : NetOf[h] \in {"lan", "container", "cgnat", "private", "v6", "public", "link"}

ASSUME DrivesAssumption == \A a \in Agents : IsFiniteSet(Drives[a])

ASSUME BoundsAssumption == MaxChanges \in Nat /\ MaxBegun \in Nat /\ IsFiniteSet(Slots) /\ IsFiniteSet(Flows)

VARIABLES
    at,        \* [Addresses -> the agent that answers there, or None]
    name,      \* [Agents -> its host name]
    id,        \* [Agents -> its agent_id, or None for a release without]
    entries,   \* [slots in use -> entry]
    polled,    \* [slots in use -> the drives its poll has read, or None]
    flow,      \* [Flows -> the flow under that name, or NoFlow]
    changes,   \* how often the network has changed
    begun,     \* how many flows have begun
    earlier,   \* history: [Flows -> the entries there are since its last button]
    steady,    \* history: [Flows -> the network has not changed since]
    doubled    \* history: an agent was added beside an entry that has it

network == <<at, name, id, changes>>
history == <<earlier, steady, doubled>>
vars    == <<at, name, id, entries, polled, flow, changes, begun, history>>

(***************************************************************************)
(* What an agent answers.                                                  *)
(***************************************************************************)

Answers(h) == at[AddressOf[h]]

Health(h) ==
    IF Answers(h) = None THEN None
    ELSE [name |-> name[Answers(h)], id |-> id[Answers(h)]]

Accepts(a, token) == Wants[a] \in {None, token}

\* None stands for no answer, and for an agent that asks for its password.
DrivesAt(h, token) ==
    IF Answers(h) # None /\ Accepts(Answers(h), token) THEN Drives[Answers(h)] ELSE None

Refuses(h, token) == Answers(h) # None /\ ~Accepts(Answers(h), token)

(***************************************************************************)
(* Unique ids: the address an entry was made with, or the name that was    *)
(* discovered.                                                             *)
(***************************************************************************)

ByHost(h) == << "host", h >>
ByName(n) == << "smartha", n >>

Uids      == {ByHost(h) : h \in Hosts} \cup {ByName(n) : n \in Names}
DriveSets == {Drives[a] : a \in Agents}
Kinds     == {"user", "zeroconf", "hassio", "import"}
Phases    == {"greet", "health", "claim", "own", "there", "theirs",
              "elsewhere", "card", "create", "ask", "try"}

Entry == [uid : Uids, source : Kinds, title : Hosts \cup Names \cup {None},
          host : Hosts, token : Tokens \cup {None},
          name : Names \cup {None}, drives : DriveSets \cup {None}, id : Ids \cup {None}]

HealthRead == [name : Names, id : Ids \cup {None}]

ASSUME NoneAssumption ==
    /\ None \notin Kinds \cup {"reauth"} \cup Phases
    /\ None \notin Uids /\ None \notin DriveSets /\ None \notin HealthRead

Flow == [kind : Kinds \cup {"reauth", None}, phase : Phases \cup {None},
         host : Hosts \cup {None}, token : Tokens \cup {None}, told : Tokens \cup {None},
         name : Names \cup {None}, count : Nat \cup {None}, uid : Uids \cup {None},
         health : HealthRead \cup {None}, slot : Slots \cup {None},
         was : Entry \cup {None}, confirmed : BOOLEAN]

NoFlow == [kind |-> None, phase |-> None, host |-> None, token |-> None, told |-> None,
           name |-> None, count |-> None, uid |-> None, health |-> None,
           slot |-> None, was |-> None, confirmed |-> FALSE]

Live == DOMAIN entries

TypeOK ==
    /\ at \in [Addresses -> Agents \cup {None}]
    /\ name \in [Agents -> Names] /\ id \in [Agents -> Ids \cup {None}]
    /\ Live \subseteq Slots
    /\ entries \in [Live -> Entry]
    /\ polled \in [Live -> DriveSets \cup {None}]
    /\ flow \in [Flows -> Flow]
    /\ changes \in 0..MaxChanges /\ begun \in 0..MaxBegun
    /\ earlier \in [Flows -> SUBSET Slots] /\ steady \in [Flows -> BOOLEAN]
    /\ doubled \in BOOLEAN

ASSUME StartsAssumption ==
    \A s \in Starts :
        /\ s.at \in [Addresses -> Agents \cup {None}]
        /\ s.id \in [Agents -> Ids \cup {None}]
        /\ DOMAIN s.entries \subseteq Slots
        /\ s.entries \in [DOMAIN s.entries -> Entry]
        /\ \A d, e \in DOMAIN s.entries : d # e => s.entries[d].uid # s.entries[e].uid
        /\ \A e \in DOMAIN s.entries : s.entries[e].id # None => s.entries[e].name # None

Init ==
    /\ \E s \in Starts : at = s.at /\ id = s.id /\ entries = s.entries
    /\ name = FirstName
    /\ polled = [e \in DOMAIN entries |-> None]
    /\ flow = [f \in Flows |-> NoFlow]
    /\ changes = 0 /\ begun = 0
    /\ earlier = [f \in Flows |-> {}] /\ steady = [f \in Flows |-> FALSE]
    /\ doubled = FALSE

(***************************************************************************)
(* Is it an entry already?                                                 *)
(***************************************************************************)

\* One address is one agent, whatever names it is written with (_entry_at).
EntryAt(h, except) ==
    \E e \in Live \ except : entries[e].host = h \/ AddressOf[entries[e].host] = AddressOf[h]

\* The entry's agent is shown to be the one at the new address: by host name
\* and drives, or by how many it advertises where they cannot be read.
ConfirmsSame(n, e, h, token, count) ==
    LET health   == Health(entries[e].host)
        existing == DrivesAt(entries[e].host, entries[e].token)
        new      == DrivesAt(h, token)
    IN  /\ health # None /\ health.name = n
        /\ existing \notin {None, {}}
        /\ IF new # None THEN new = existing ELSE count = Cardinality(existing)

ConfiguredElsewhere(n, h, token, count, without) ==
    \E e \in Live :
        /\ without = None \/ entries[e].uid # without
        /\ entries[e].host # h
        /\ ConfirmsSame(n, e, h, token, count)

Configured(uid) == \E e \in Live : entries[e].uid = uid

\* The names of the App's container that an entry has (app_names).
AppNamesOf(e) == {entries[e].name, entries[e].title, entries[e].host} \cap AppNames

IsAppEntry(e) == entries[e].source = "hassio" \/ AppNamesOf(e) # {}

\* The entry of the agent that the Supervisor tells of: by its id, or as the
\* App's own where an id is missing (_hassio_known_entry).
HassioKnown(live, n, h) ==
    {e \in Live :
        \/ live # None /\ entries[e].id = live
        \/ /\ IsAppEntry(e)
           /\ entries[e].id = None \/ live = None
           /\ AppNamesOf(e) \cap {n, h} # {}}

(***************************************************************************)
(* What an entry learns of its agent.                                      *)
(***************************************************************************)

\* By the ids alone where both have one, else by the drives.
SameAgent(known, health, drives) ==
    IF known.id # None /\ health.id # None THEN known.id = health.id
    ELSE known.drives # None /\ known.drives = drives

\* whatever answers there is taken for the entry's agent
Learned_AnyAgent(known, health, drives) ==
    IF health = None THEN known
    ELSE [known EXCEPT !.name = health.name,
                       !.id = IF health.id = None THEN known.id ELSE health.id,
                       !.drives = IF drives \in {None, {}} THEN known.drives ELSE drives]

\* What cannot be read replaces nothing, nor does another agent
\* (identity_changes).
Learned(known, health, drives) ==
    LET read == IF drives = {} THEN None ELSE drives
        or(new, old) == IF new = None THEN old ELSE new
    IN  IF \/ health = None
           \/ known.name \notin {None, health.name} /\ ~SameAgent(known, health, read)
        THEN known
        ELSE [known EXCEPT !.name = health.name, !.id = or(health.id, known.id),
                           !.drives = or(read, known.drives)]

(***************************************************************************)
(* Home Assistant's own part: one flow for a unique id, and an entry that  *)
(* takes the place of one with its unique id.                              *)
(***************************************************************************)

InProgress(f, uid) == \E g \in Flows \ {f} : flow[g].uid = uid

End(f) ==
    /\ flow' = [flow EXCEPT ![f] = NoFlow]
    /\ earlier' = [earlier EXCEPT ![f] = {}] /\ steady' = [steady EXCEPT ![f] = FALSE]

Goes(f, r) ==
    /\ flow' = [flow EXCEPT ![f] = r]
    /\ UNCHANGED <<earlier, steady>>

To(f, phase) == Goes(f, [flow[f] EXCEPT !.phase = phase])

Free(f) ==
    /\ flow[f] = NoFlow
    /\ begun < MaxBegun /\ begun' = begun + 1

\* A button is pressed, or an agent announces itself: the flow is to see what
\* there is from here on.
Begins(f, r) ==
    /\ flow' = [flow EXCEPT ![f] = r]
    /\ earlier' = [earlier EXCEPT ![f] = Live] /\ steady' = [steady EXCEPT ![f] = TRUE]

\* A form that asks for the password of an entry ends with the entry.
Without(gone) ==
    [g \in Flows |->
        CASE flow[g].slot \in gone /\ flow[g].kind = "reauth" -> NoFlow
          [] flow[g].slot \in gone /\ flow[g].kind # "reauth" -> [flow[g] EXCEPT !.slot = None]
          [] OTHER -> flow[g]]

\* An entry that is changed by others is not what a flow saw when it began.
Forgets(e) == earlier' = [f \in Flows |-> earlier[f] \ {e}]

unseen == <<network, polled, doubled>>
others == <<unseen, begun>>

(***************************************************************************)
(* Added by hand, from a card, or by the panel.                            *)
(***************************************************************************)

SubmitUser(f, h, t) ==
    /\ Free(f)
    /\ Begins(f, [NoFlow EXCEPT !.kind = "user", !.phase = "health", !.host = h, !.token = t])
    /\ UNCHANGED <<unseen, entries>>

\* The panel's Add, with the name and the drive count its scan or a discovery
\* has read.
Import(f, h, discovered) ==
    /\ Free(f)
    /\ Answers(h) # None
    /\ Begins(f, [NoFlow EXCEPT !.kind = "import", !.phase = "health", !.host = h,
                                !.name = IF discovered THEN name[Answers(h)] ELSE None,
                                !.count = Cardinality(Drives[Answers(h)])])
    /\ UNCHANGED <<unseen, entries>>

\* A card's button, with what is typed into its password field.
Confirm(f, t) ==
    /\ flow[f].phase = "card"
    /\ Begins(f, [flow[f] EXCEPT !.phase = "health", !.confirmed = TRUE,
                                 !.token = IF t = None THEN flow[f].told ELSE t])
    /\ UNCHANGED <<others, entries>>

Dismiss(f) ==
    /\ flow[f].phase = "card"
    /\ End(f) /\ UNCHANGED <<others, entries>>

\* Does the agent answer (_test_connection), and take the password? Anything
\* but a refusal is let pass (_drives_status), and the panel's Add does not ask.
Connect(f) ==
    LET health  == Health(flow[f].host)
        refused == flow[f].kind # "import" /\ Refuses(flow[f].host, flow[f].token)
    IN  /\ flow[f].phase = "health"
        /\ IF health = None \/ refused
           THEN IF flow[f].kind \in {"user", "import"} THEN End(f) ELSE To(f, "card")
           ELSE Goes(f, [flow[f] EXCEPT !.health = health, !.phase = "claim"])
        /\ UNCHANGED <<others, entries>>

UidOf(f) ==
    CASE flow[f].uid # None -> flow[f].uid
      [] flow[f].uid = None /\ flow[f].name # None -> ByName(flow[f].name)
      [] OTHER -> ByHost(flow[f].host)

\* the card's checks are taken for good
AddedSinceDiscovery_NotAsked(f) == FALSE

\* The App's card asks for the App's entries too.
HassioAdded(f) ==
    /\ flow[f].kind = "hassio"
    /\ HassioKnown(flow[f].health.id, flow[f].health.name, flow[f].host) # {}

\* The card may have waited: what is an entry by now?
AddedSinceDiscovery(f) ==
    \/ Configured(flow[f].uid)
    \/ EntryAt(flow[f].host, {})
    \/ HassioAdded(f)

\* async_set_unique_id, _abort_if_unique_id_configured and _entry_at.
Claim(f) ==
    /\ flow[f].phase = "claim"
    /\ IF \/ flow[f].confirmed /\ AddedSinceDiscovery(f)
          \/ /\ ~flow[f].confirmed
             /\ \/ InProgress(f, UidOf(f))
                \/ Configured(UidOf(f))
                \/ EntryAt(flow[f].host, {})
       THEN End(f)
       ELSE Goes(f, [flow[f] EXCEPT !.uid = UidOf(f),
                       !.phase = IF flow[f].kind = "hassio" THEN "create" ELSE "elsewhere"])
    /\ UNCHANGED <<others, entries>>

\* The name is the announced one, or what the agent itself has said. What a
\* card's own unique id has is asked before.
CheckElsewhere(f) ==
    LET card == flow[f].kind = "zeroconf"
    IN  /\ flow[f].phase = "elsewhere"
        /\ IF ConfiguredElsewhere(IF card THEN flow[f].name ELSE flow[f].health.name,
                                  flow[f].host, flow[f].token, flow[f].count,
                                  IF card THEN flow[f].uid ELSE None)
           THEN End(f)
           ELSE To(f, IF card /\ ~flow[f].confirmed THEN "card" ELSE "create")
        /\ UNCHANGED <<others, entries>>

Made(f) ==
    LET r == flow[f]
        new == [uid |-> r.uid, source |-> r.kind, host |-> r.host, token |-> r.token,
                title |-> CASE r.kind = "hassio" -> None
                            [] r.name # None -> r.name
                            [] OTHER -> r.host,
                name |-> None, drives |-> None, id |-> None]
    IN  Learned(new, r.health, DrivesAt(r.host, r.token))

\* An entry, there before the flow began and left alone since, has the agent
\* that the flow has made another one of: at its address, or where nothing but
\* reading them was needed to tell.
Twin(f, e) ==
    LET a == Answers(flow[f].host)
    IN  \/ AddressOf[entries[e].host] = AddressOf[flow[f].host]
        \/ /\ steady[f] /\ a # None /\ Drives[a] # {}
           /\ Answers(entries[e].host) = a /\ Accepts(a, entries[e].token)
           /\ Accepts(a, flow[f].token) \/ flow[f].count = Cardinality(Drives[a])
           /\ flow[f].kind = "zeroconf" => flow[f].name = name[a]
           /\ flow[f].kind = "hassio" => id[a] # None /\ entries[e].id = id[a]

\* _identity_at_creation, and the entry is made.
Create(f, e) ==
    LET same == {d \in Live : entries[d].uid = flow[f].uid}
        With(F, new) == [d \in (Live \ same) \cup {e} |-> IF d = e THEN new ELSE F[d]]
    IN  /\ flow[f].phase = "create"
        /\ e \notin Live
        /\ entries' = With(entries, Made(f))
        /\ polled' = With(polled, None)
        /\ doubled' = (doubled \/ \E d \in earlier[f] \ same : Twin(f, d))
        /\ flow' = [Without(same) EXCEPT ![f] = NoFlow]
        /\ earlier' = [[g \in Flows |-> earlier[g] \ same] EXCEPT ![f] = {}]
        /\ steady' = [steady EXCEPT ![f] = FALSE]
        /\ UNCHANGED <<network, begun>>

(***************************************************************************)
(* Discovered by zeroconf.                                                 *)
(***************************************************************************)

OfOldKind(e, n, h) ==
    /\ entries[e].source = "zeroconf" /\ entries[e].uid \notin {ByName(m) : m \in Names}
    /\ entries[e].uid = ByHost(h) \/ entries[e].host = h \/ entries[e].title = n

\* all of them are given it
Migrations_All(n, h) ==
    {[e \in Live |-> IF OfOldKind(e, n, h) THEN [entries[e] EXCEPT !.uid = ByName(n)]
                     ELSE entries[e]]}

\* An entry that discovery made under its address is given the name's unique
\* id, one at most (_migrate_legacy_unique_ids).
Migrations(n, h) ==
    LET old == {e \in Live : OfOldKind(e, n, h)}
    IN  IF old = {} \/ Configured(ByName(n)) THEN {entries}
        ELSE {[entries EXCEPT ![e].uid = ByName(n)] : e \in old}

\* A token is not sent to an address that was advertised: an entry with one
\* stays (_may_move).
MayMove(r, h) ==
    /\ r.source = "zeroconf" /\ r.host # h
    /\ r.name # None /\ r.drives # None /\ r.token = None

\* How much discovery likes an address: the lower the better (ip_score).
Score(h) ==
    [lan |-> 10, container |-> 50, cgnat |-> 70, private |-> 80, v6 |-> 85,
     public |-> 90, link |-> 95][NetOf[h]]

\* Of several advertised addresses it takes one (_pick_best_ip).
Best(told) == {h \in told : \A g \in told : Score(h) <= Score(g)}

\* Agent a is announced at addresses, which need not be its own.
Announce(f, a, told) ==
    LET n == name[a]
    IN \E h \in Best(told) :
        /\ Free(f)
        /\ \E m \in Migrations(n, h) :
             LET known == {e \in Live : m[e].uid = ByName(n)}
                 r     == [NoFlow EXCEPT !.kind = "zeroconf", !.host = h, !.name = n,
                             !.uid = ByName(n), !.count = Cardinality(Drives[a])]
             IN  /\ entries' = m
                 /\ IF \/ InProgress(f, ByName(n))
                       \/ known = {} /\ EntryAt(h, {})
                       \/ \E e \in known : ~MayMove(m[e], h)
                    THEN UNCHANGED <<flow, earlier, steady>>
                    ELSE \/ known = {} /\ Begins(f, [r EXCEPT !.phase = "elsewhere"])
                         \/ \E e \in known :
                               Begins(f, [r EXCEPT !.phase = "own", !.slot = e, !.was = m[e]])
        /\ UNCHANGED unseen

\* The entry stays where it is. One that is gone meanwhile is no longer known.
Stays(f) ==
    /\ IF Configured(flow[f].uid) \/ EntryAt(flow[f].host, {})
       THEN End(f)
       ELSE Goes(f, [flow[f] EXCEPT !.phase = "elsewhere", !.slot = None, !.was = None])
    /\ UNCHANGED <<others, entries>>

\* a. Its own address answers: nothing to move.
ProbeOwn(f) ==
    /\ flow[f].phase = "own"
    /\ IF Answers(flow[f].was.host) # None THEN Stays(f)
       ELSE To(f, "there") /\ UNCHANGED <<others, entries>>

MoveTo(f, e) ==
    /\ entries' = [entries EXCEPT ![e].host = flow[f].host]
    /\ polled' = [polled EXCEPT ![e] = None]
    /\ flow' = [flow EXCEPT ![f] = NoFlow]
    /\ earlier' = [[g \in Flows |-> earlier[g] \ {e}] EXCEPT ![f] = {}]
    /\ steady' = [steady EXCEPT ![f] = FALSE]
    /\ UNCHANGED <<network, begun, doubled>>

\* whatever answers there is taken for it
ProbeThere_AnyAgent(f) ==
    /\ flow[f].phase = "there"
    /\ IF Answers(flow[f].host) = None \/ ~Configured(flow[f].uid) THEN Stays(f)
       ELSE \E e \in Live : entries[e].uid = flow[f].uid /\ MoveTo(f, e)

\* b. and c. Does the agent that the entry knows answer at the advertised one?
ProbeThere(f) ==
    LET health == Health(flow[f].host)
    IN  /\ flow[f].phase = "there"
        /\ IF health = None \/ health.name # flow[f].was.name THEN Stays(f)
           ELSE To(f, "theirs") /\ UNCHANGED <<others, entries>>

\* c. and d. With its drives, and no entry of that address.
Move(f) ==
    LET h  == flow[f].host
        to == {e \in Live : entries[e].uid = flow[f].uid}
    IN  /\ flow[f].phase = "theirs"
        /\ IF DrivesAt(h, None) # flow[f].was.drives \/ EntryAt(h, {flow[f].slot}) \/ to = {}
           THEN Stays(f)
           ELSE \E e \in to : MoveTo(f, e)

(***************************************************************************)
(* The App's agent, which the Supervisor tells of.                         *)
(***************************************************************************)

Hassio(f, h, t) ==
    /\ Free(f)
    /\ Goes(f, [NoFlow EXCEPT !.kind = "hassio", !.phase = "greet", !.host = h, !.told = t])
    /\ UNCHANGED <<unseen, entries>>

\* An entry's password is kept as the App sends it, when it sends one.
KeepsToken(f, known) ==
    \E e \in known :
        /\ entries' = IF flow[f].told = None THEN entries
                      ELSE [entries EXCEPT ![e].token = flow[f].told]
        /\ flow' = [flow EXCEPT ![f] = NoFlow]
        /\ steady' = [steady EXCEPT ![f] = FALSE]
        /\ earlier' = [[g \in Flows |-> earlier[g] \ {e}] EXCEPT ![f] = {}]

Greet(f) ==
    LET h      == flow[f].host
        health == Health(h)
        known  == HassioKnown(health.id, health.name, h)
        same   == {e \in Live : entries[e].uid = ByHost(h)}
        there  == {e \in Live : AddressOf[entries[e].host] = AddressOf[h]}
    IN  /\ flow[f].phase = "greet"
        /\ CASE health = None                 -> End(f) /\ UNCHANGED entries
             [] health # None /\ known # {}   -> KeepsToken(f, known)
             [] health # None /\ known = {} /\ InProgress(f, ByHost(h)) ->
                  End(f) /\ UNCHANGED entries
             [] OTHER ->
                  IF same # {} THEN KeepsToken(f, same)
                  ELSE IF there # {} THEN KeepsToken(f, there)
                  ELSE /\ Goes(f, [flow[f] EXCEPT !.phase = "card", !.uid = ByHost(h)])
                       /\ UNCHANGED entries
        /\ UNCHANGED others

(***************************************************************************)
(* An entry's polls, and its settings.                                     *)
(***************************************************************************)

\* The drives are read first; an agent that wants a password has Home Assistant
\* ask for it.
PollDrives(e) ==
    LET r == entries[e]
    IN  /\ polled[e] = None
        /\ DrivesAt(r.host, r.token) # None
        /\ polled' = [polled EXCEPT ![e] = DrivesAt(r.host, r.token)]
        /\ UNCHANGED <<network, begun, entries, flow, history>>

PollHealth(e) ==
    LET health == Health(entries[e].host)
        stored == Learned(entries[e], health, polled[e])
    IN  /\ polled[e] # None
        /\ entries' = [entries EXCEPT ![e] = stored]
        /\ polled' = [polled EXCEPT ![e] = None]
        /\ IF stored = entries[e] THEN UNCHANGED earlier ELSE Forgets(e)
        /\ UNCHANGED <<network, begun, flow, steady, doubled>>

PollRefused(e, f) ==
    /\ polled[e] = None /\ Refuses(entries[e].host, entries[e].token)
    /\ Free(f)
    /\ \A g \in Flows : flow[g].kind = "reauth" => flow[g].slot # e
    /\ Goes(f, [NoFlow EXCEPT !.kind = "reauth", !.phase = "ask", !.slot = e,
                              !.uid = entries[e].uid])
    /\ UNCHANGED <<unseen, entries>>

GivePassword(f, t) ==
    /\ flow[f].phase = "ask"
    /\ Goes(f, [flow[f] EXCEPT !.phase = "try", !.token = t,
                               !.host = entries[flow[f].slot].host])
    /\ UNCHANGED <<others, entries>>

Reauth(f) ==
    LET e == flow[f].slot
    IN  /\ flow[f].phase = "try"
        /\ IF DrivesAt(flow[f].host, flow[f].token) = None
           THEN To(f, "ask") /\ UNCHANGED entries
           ELSE /\ entries' = [entries EXCEPT ![e].token = flow[f].token]
                /\ flow' = [flow EXCEPT ![f] = NoFlow]
                /\ Forgets(e)
                /\ UNCHANGED steady
        /\ UNCHANGED others

\* The options flow asks the health of the agent, which wants no password.
Settings(e, t) ==
    /\ Answers(entries[e].host) # None
    /\ entries' = [entries EXCEPT ![e].token = t]
    /\ Forgets(e)
    /\ UNCHANGED <<others, flow, steady>>

Delete(e) ==
    LET left == Live \ {e}
    IN  /\ entries' = Restrict(entries, left) /\ polled' = Restrict(polled, left)
        /\ Forgets(e)
        /\ flow' = Without({e})
        /\ UNCHANGED <<network, begun, steady, doubled>>

(***************************************************************************)
(* The network: an address is given to another agent, or to none, an agent *)
(* goes from one address to another, or its host is renamed.               *)
(***************************************************************************)

Change ==
    /\ changes < MaxChanges /\ changes' = changes + 1
    /\ steady' = [f \in Flows |-> FALSE]
    /\ \/ /\ \E x \in Addresses, a \in Agents \cup {None} : at' = [at EXCEPT ![x] = a]
          /\ UNCHANGED name
       \/ /\ \E x, y \in Addresses : at' = [at EXCEPT ![x] = None, ![y] = at[x]]
          /\ UNCHANGED name
       \/ /\ \E a \in Agents : \E n \in NamesOf[a] : name' = [name EXCEPT ![a] = n]
          /\ UNCHANGED at
    /\ UNCHANGED <<id, entries, polled, flow, begun, earlier, doubled>>

Next ==
    \/ \E f \in Flows :
         \/ \E h \in Hosts, t \in Tokens \cup {None} : SubmitUser(f, h, t) \/ Hassio(f, h, t)
         \/ \E told \in (SUBSET Hosts) \ {{}}, a \in Agents : Announce(f, a, told)
         \/ \E h \in Hosts, discovered \in BOOLEAN : Import(f, h, discovered)
         \/ \E t \in Tokens \cup {None} : Confirm(f, t) \/ GivePassword(f, t)
         \/ Dismiss(f) \/ Connect(f) \/ Claim(f)
         \/ CheckElsewhere(f) \/ ProbeOwn(f) \/ ProbeThere(f) \/ Move(f)
         \/ Greet(f) \/ Reauth(f)
         \/ \E e \in Slots : Create(f, e)
         \/ \E e \in Live : PollRefused(e, f)
    \/ \E e \in Live :
         \/ PollDrives(e) \/ PollHealth(e) \/ Delete(e)
         \/ \E t \in Tokens \cup {None} : Settings(e, t)
    \/ Change

Spec == Init /\ [][Next]_vars

(***************************************************************************)
(* Properties.                                                             *)
(***************************************************************************)

\* "two entries must not share a unique_id" (_migrate_legacy_unique_ids).
UidsDiffer == \A d, e \in Live : d # e => entries[d].uid # entries[e].uid

\* "A second entry for the same agent gives every drive entity a twin"
\* (agent_identity): none is made beside an entry that was there before the
\* last button was pressed, however long a card has waited.
NoTwin == ~doubled

\* "agent_id decides alone when both have it": another one's is stored only
\* where the host name is the same.
IdentityStays ==
    [][\A e \in Live \cap Live' :
         entries[e].id \notin {None, entries'[e].id} => entries'[e].name = entries[e].name]_entries

\* "Moving the entry to the advertised address only when the agent is shown to
\* have moved there" (_abort_for_known_entry): what three reads have found holds
\* together when the entry is moved. The agent there has the name and the drives
\* that it knew, and where it was nobody answers. An entry that was given the
\* unique id of one deleted meanwhile is moved in its place.
MovedToItsAgent ==
    [][\A f \in Flows, e \in Live \cap Live' :
         LET was == flow[f].was
             a   == Answers(entries'[e].host)
         IN  /\ entries'[e].host # entries[e].host
             /\ was # None /\ flow'[f] = NoFlow /\ steady[f]
             => /\ a # None /\ name[a] = was.name /\ Drives[a] = was.drives
                /\ flow[f].slot = e => /\ entries[e].host = was.host
                                      /\ Answers(was.host) = None]_vars
=============================================================================
