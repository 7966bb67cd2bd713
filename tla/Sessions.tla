------------------------------ MODULE Sessions ------------------------------
(***************************************************************************)
(* Sessions, the connections on them and what is kept under a session's    *)
(* name (src/server.py).                                                   *)
(*                                                                         *)
(* tmux sessions come and go while connections attach to them, switch,     *)
(* rename and kill them.  The write lock, the registry of live bridges and *)
(* the scroll queue are found by name, so that a name that changes hands   *)
(* while a handler waits is the danger here.  A session is a number given  *)
(* at birth, a name may stand for one session after another.               *)
(*                                                                         *)
(* The program gives tmux bare names (-t <name>), and tmux takes a name no *)
(* session has for the only longer one that begins with it.  What is done  *)
(* to a session under another name than its own is recorded in mistaken.   *)
(*                                                                         *)
(* The server has one tenant, who may rename sessions, or several, who see *)
(* only their own.  What is typed, sizes and rows are left out.            *)
(***************************************************************************)
EXTENDS Integers, Sequences, FiniteSets

CONSTANTS
    Conns,        \* connections
    Users,        \* tenants
    Owner,        \* the tenant who sees what nobody claims
    UserOf,       \* the user of a connection
    None,         \* no user, no connection, no name
    Numbers,      \* numbers that tell the sessions of one name space apart
    Longer,       \* the names tmux may take a name for: it begins or matches them
    Kept,         \* the name tmux makes of a new name (':' and '.' are replaced)
    Typed,        \* names given with a rename, whatever they look like
    Windows,      \* names tmux may take for a window or a pane of some session
    MaxBorn,      \* bound on the sessions created
    MaxCommands,  \* bound on the commands of the browsers
    MaxEvents,    \* bound on failures and on sessions that end by themselves
    MaxPerCall,   \* MAX_SCROLL_EVENTS_PER_CALL
    Deltas        \* wheel movements a browser sends

ASSUME UserAssumption == /\ Owner \in Users /\ None \notin Users \cup Conns
                         /\ UserOf \in [Conns -> Users]
ASSUME NumberAssumption == /\ MaxBorn \in Nat /\ MaxCommands \in Nat
                           /\ MaxEvents \in Nat
                           /\ 1 \in Numbers /\ Numbers \subseteq Nat \ {0}
ASSUME ScrollAssumption == MaxPerCall \in Nat \ {0} /\ Deltas \subseteq Int \ {0}

\* mt_<user>__<n>, or <n>: sessions of no tenant, and all of a lone one.
Names == (Users \cup {None}) \X Numbers
NoName == <<None, 0>>

ASSUME NameAssumption == /\ Longer \in [Names -> SUBSET Names]
                         /\ Kept \in [Names -> Names]
                         /\ Typed \subseteq Names /\ Windows \subseteq Names

VARIABLES
    tenants,   \* whether the server has several tenants
    tmux,      \* the session each name stands for, 0 if none
    born,      \* sessions created so far
    mistaken,  \* sessions that were reached under another name than their own
    owned,     \* the names each user has claimed
    locks,     \* terminal_write_locks: the lock kept under a name, 0 if none
    made,      \* locks made so far
    holder,    \* who holds each lock
    live,      \* live_terminal_connections: the bridges under a name
    scroll,    \* scroll_states: the queue kept under a name, 0 if none
    queues,    \* every scroll queue made
    conn,      \* what a connection is doing
    commands,  \* commands so far
    spent      \* disturbances so far

names == <<tmux, born, owned>>
writing == <<locks, made, holder>>
scrolling == <<scroll, queues>>
vars == <<tenants, names, mistaken, writing, live, scrolling, conn, commands, spent>>

-----------------------------------------------------------------------------
(* State *)

\* session is state["session"], name the session_name of the bridge, session
\* and bridge being one while the connection is ready; attached and pane are
\* the sessions its tmux client and its pane belong to, into the one that what
\* is being written goes to.
NewConn ==
    [at |-> "closed", session |-> NoName, name |-> NoName, attached |-> 0,
     pane |-> 0, into |-> 0, lock |-> 0, wants |-> 0, queue |-> 0, task |-> 0,
     target |-> NoName, later |-> FALSE, victim |-> NoName]

Init ==
    /\ tenants \in BOOLEAN
    /\ tmux = [n \in Names |-> 0]
    /\ born = 0
    /\ mistaken = {}
    /\ owned = [u \in Users |-> {}]
    /\ locks = [n \in Names |-> 0]
    /\ made = 0
    /\ holder = <<>>
    /\ live = [n \in Names |-> {}]
    /\ scroll = [n \in Names |-> 0]
    /\ queues = <<>>
    /\ conn = [c \in Conns |-> NewConn]
    /\ commands = 0
    /\ spent = 0

Alive(s) == s # 0 /\ \E n \in Names : tmux[n] = s
\* Nothing was ever done to it under another name.
Certain(s) == Alive(s) /\ s \notin mistaken
Free(l) == holder[l] = None
\* Where a connection has a bridge, which is registered.
HasBridge == {"opening", "ready", "renaming", "killing", "settling", "waiting",
              "writing"}
Becomes(c, s) == conn' = [conn EXCEPT ![c] = s]
\* The handler of a command is done with what it waited for.
Ready(s) ==
    [s EXCEPT !.at = "ready", !.into = 0, !.wants = 0, !.queue = 0, !.task = 0,
              !.target = NoName, !.victim = NoName]
Command == commands < MaxCommands /\ commands' = commands + 1
Disturb == spent < MaxEvents /\ spent' = spent + 1

-----------------------------------------------------------------------------
(* What tmux finds under a name *)

\* -t <name>: the session of that name, else the only one whose name begins
\* with it or is matched by it, 0 if there is none.
Found(n, m) ==
    LET others == {k \in Longer[n] : m[k] # 0}
    IN IF m[n] # 0 THEN m[n]
       ELSE IF \E k \in others : others = {k} THEN m[CHOOSE k \in others : TRUE]
       ELSE 0
\* The names for which session_exists answers yes.
Reached(m) == {n \in Names : Found(n, m) # 0}
Exists(n) == n \in Reached(tmux)

\* pane_metadata: where a pane is asked for, tmux takes a name for a window or a
\* pane of the session it thinks current before it looks for a session.
Panes(n, m) ==
    IF n \in Windows THEN {m[k] : k \in Names} \ {0} ELSE {Found(n, m)} \ {0}

\* s was found by the name n, mistaken unless that is its own.
Mistaken(n, s) == {s} \ {tmux[n]}

-----------------------------------------------------------------------------
(* What a user may see *)

\* These look at what tmux and the state files hold at a moment, m and o: a
\* command that kills a session goes on to look again.
Standing(m) == {n \in Names : m[n] # 0}
ClaimedByOthers(u, o) == UNION {o[v] : v \in Users \ {u}}
VisibleNames(u, m, o) ==
    IF ~tenants THEN Standing(m)
    ELSE IF u = Owner THEN Standing(m) \ ClaimedByOthers(u, o)
    ELSE Standing(m) \cap o[u]
Visible(c) == VisibleNames(UserOf[c], tmux, owned)

\* The first number that is free in the name space of the user.
NextName(u, m) ==
    LET space == IF tenants THEN u ELSE None
        free == {i \in Numbers : m[<<space, i>>] = 0}
    IN IF free = {} \/ born = MaxBorn THEN NoName
       ELSE <<space, CHOOSE i \in free : \A j \in free : i <= j>>

Birth(n, m) == tmux' = [m EXCEPT ![n] = born + 1] /\ born' = born + 1
Claim(u, n, o) == owned' = IF tenants THEN [o EXCEPT ![u] = @ \cup {n}] ELSE o
CreateUserSession(u, n, m, o) == n # NoName /\ Birth(n, m) /\ Claim(u, n, o)
Nothing(m, o) == tmux' = m /\ owned' = o /\ born' = born

\* What a request for a session comes to: a name tmux finds a session by, one
\* that is created at once, or, with one tenant, one the bridge creates when it
\* opens.
There(n) == [name |-> n, now |-> FALSE, later |-> FALSE]
DefaultSession == <<None, 1>>
\* Mutant: a request is not held against what the user may see.
ResolvedUnchecked(u, requested, m, o) ==
    IF requested \in Standing(m) THEN {There(requested)}
    ELSE {[name |-> NextName(u, m), now |-> TRUE, later |-> FALSE]}
Resolved(u, requested, m, o) ==
    IF requested \in (IF tenants THEN VisibleNames(u, m, o) ELSE Reached(m))
    THEN {There(requested)}
    ELSE IF tenants
    THEN IF o[u] \cap Reached(m) # {} THEN {There(n) : n \in o[u] \cap Reached(m)}
         ELSE {[name |-> NextName(u, m), now |-> TRUE, later |-> FALSE]}
    ELSE IF DefaultSession \in Reached(m) THEN {There(DefaultSession)}
    ELSE IF Standing(m) # {} THEN {There(n) : n \in Standing(m)}
    ELSE {[name |-> NextName(u, m), now |-> FALSE, later |-> TRUE]}

-----------------------------------------------------------------------------
(* Bridges *)

\* terminal_write_lock makes the lock of a name when it is asked for first.
LockOf(n) == IF locks[n] = 0 THEN made + 1 ELSE locks[n]
WithLock(n) ==
    /\ locks' = [locks EXCEPT ![n] = LockOf(n)]
    /\ made' = IF locks[n] = 0 THEN made + 1 ELSE made
    /\ holder' = IF locks[n] = 0 THEN Append(holder, None) ELSE holder

Register(registry, n, c) == [registry EXCEPT ![n] = @ \cup {c}]
Unregister(registry, n, c) == [registry EXCEPT ![n] = @ \ {c}]

\* A bridge is made, registered and attached without an await between; new is
\* whether its session is created on the way.
OpenBridge(c, n, new) ==
    LET s == IF new THEN born + 1 ELSE Found(n, tmux) IN
    /\ WithLock(n)
    /\ live' = Register(live, n, c)
    /\ Becomes(c, [NewConn EXCEPT !.at = "opening", !.session = n, !.name = n,
                                  !.attached = s, !.lock = LockOf(n)])
    /\ mistaken' = IF new THEN mistaken ELSE mistaken \cup Mistaken(n, s)

\* A new connection: resolve_user_session and open_live_terminal.
Connect(c) ==
    /\ conn[c].at = "closed" /\ Command
    /\ \E requested \in Names \cup {NoName} :
       \E r \in Resolved(UserOf[c], requested, tmux, owned) :
          /\ r.name # NoName
          /\ OpenBridge(c, r.name, r.now \/ r.later)
          /\ IF r.now THEN CreateUserSession(UserOf[c], r.name, tmux, owned)
             ELSE IF r.later THEN Birth(r.name, tmux) /\ owned' = owned
             ELSE UNCHANGED names
    /\ UNCHANGED <<tenants, scrolling, spent>>

\* The tmux client answers, the pane is looked up under the name the bridge has
\* by now, and the size is set under the write lock.
Opened(c) ==
    LET n == conn[c].name IN
    /\ conn[c].at = "opening"
    /\ Alive(conn[c].attached)
    /\ Free(conn[c].lock)
    /\ \E p \in Panes(n, tmux) :
          /\ Becomes(c, [conn[c] EXCEPT !.at = "ready", !.session = n, !.pane = p])
          /\ mistaken' = mistaken \cup Mistaken(n, p)
    /\ UNCHANGED <<tenants, names, writing, live, scrolling, commands, spent>>

\* The session or its name is gone, or tmux does not answer: the bridge is
\* unregistered and closed, and the connection with it.
OpenFails(c) ==
    /\ conn[c].at = "opening"
    /\ IF Alive(conn[c].attached) /\ Panes(conn[c].name, tmux) # {}
       THEN Disturb ELSE spent' = spent
    /\ live' = Unregister(live, conn[c].name, c)
    /\ Becomes(c, [conn[c] EXCEPT !.at = "ending"])
    /\ UNCHANGED <<tenants, names, mistaken, writing, scrolling, commands>>

\* watch_tabs: the bridge goes to the pane its name leads to by now.
FollowPane(c) ==
    LET n == conn[c].session IN
    /\ conn[c].at \in HasBridge \ {"opening"}
    /\ \E p \in Panes(n, tmux) \ {conn[c].pane} :
          /\ Becomes(c, [conn[c] EXCEPT !.pane = p])
          /\ mistaken' = mistaken \cup Mistaken(n, p)
    /\ UNCHANGED <<tenants, names, writing, live, scrolling, commands, spent>>

\* The connection is lost: whatever its handler waits for is finished first.
Leave(c) ==
    /\ conn[c].at = "ready" /\ Disturb
    /\ live' = Unregister(live, conn[c].session, c)
    /\ Becomes(c, [conn[c] EXCEPT !.at = "ending"])
    /\ UNCHANGED <<tenants, names, mistaken, writing, scrolling, commands>>

\* TmuxBridge.close waits for a write that another connection is in.
Closed(c) ==
    /\ conn[c].at = "ending"
    /\ Free(conn[c].lock)
    /\ Becomes(c, NewConn)
    /\ UNCHANGED <<tenants, names, mistaken, writing, live, scrolling, commands, spent>>

-----------------------------------------------------------------------------
(* Switching *)

\* switch_session up to the await of bridge.close: nothing if it is the same.
Switches(c, s, requested, m, o) ==
    \E r \in Resolved(UserOf[c], requested, m, o) :
       /\ r.name # NoName
       /\ IF r.now THEN CreateUserSession(UserOf[c], r.name, m, o) ELSE Nothing(m, o)
       /\ IF r.name = s.session
          THEN Becomes(c, Ready(s)) /\ live' = live
          ELSE /\ live' = Unregister(live, s.name, c)
               /\ Becomes(c, [s EXCEPT !.at = "closing", !.target = r.name,
                                       !.later = r.later])

SwitchSession(c) ==
    /\ conn[c].at = "ready" /\ Command
    /\ \E requested \in Names : Switches(c, conn[c], requested, tmux, owned)
    /\ UNCHANGED <<tenants, mistaken, writing, scrolling, spent>>

\* The old bridge is closed; the new one opens under the name found before.
SwitchCloses(c) ==
    LET n == conn[c].target
        new == conn[c].later /\ ~Exists(n)
    IN /\ conn[c].at = "closing"
       /\ Free(conn[c].lock)
       /\ new => born < MaxBorn
       /\ OpenBridge(c, n, new)
       /\ IF new THEN Birth(n, tmux) /\ owned' = owned ELSE UNCHANGED names
       /\ UNCHANGED <<tenants, scrolling, commands, spent>>

-----------------------------------------------------------------------------
(* Creating, renaming and killing *)

\* new-tab
NewTab(c) ==
    /\ conn[c].at = "ready" /\ Command
    /\ CreateUserSession(UserOf[c], NextName(UserOf[c], tmux), tmux, owned)
    /\ UNCHANGED <<tenants, mistaken, writing, live, scrolling, conn, spent>>

\* rename-tab with several tenants: the label goes to a claim of the user.
RenameLabel(c) ==
    /\ conn[c].at = "ready" /\ tenants /\ Command
    /\ \E n \in Visible(c) : Claim(UserOf[c], n, owned)
    /\ UNCHANGED <<tenants, tmux, born, mistaken, writing, live, scrolling, conn, spent>>

\* rename-tab with one: the lock kept under the old name is asked for.
RenameTab(c) ==
    /\ conn[c].at = "ready" /\ ~tenants /\ Command
    /\ \E victim, target \in Typed :
          /\ WithLock(victim)
          /\ Becomes(c, [conn[c] EXCEPT !.at = "renaming", !.victim = victim,
                                        !.target = target, !.wants = LockOf(victim)])
    /\ UNCHANGED <<tenants, names, mistaken, live, scrolling, spent>>

\* Mutant: what the old name kept stays there too.
MovedKeeps(mapping, old, new, nothing) ==
    IF mapping[old] = nothing THEN mapping ELSE [mapping EXCEPT ![new] = mapping[old]]

\* transfer_single_tenant_session_state: what the old name kept goes to the
\* new one, and every bridge registered under it learns the name and the lock.
Moved(mapping, old, new, nothing) ==
    IF mapping[old] = nothing THEN mapping
    ELSE [mapping EXCEPT ![new] = mapping[old], ![old] = nothing]
\* Mutant: the state of the connections is not told of the new name.
TransferBridges(old, new) ==
    [c \in Conns |->
        IF c \notin live[old] THEN conn[c]
        ELSE [conn[c] EXCEPT !.name = new,
                  !.lock = IF locks[old] = 0 THEN @ ELSE locks[old]]]
TransferConns(old, new) ==
    [c \in Conns |->
        IF c \notin live[old] THEN conn[c]
        ELSE [conn[c] EXCEPT !.session = new, !.name = new,
                  !.lock = IF locks[old] = 0 THEN @ ELSE locks[old]]]
\* Mutant: the lock of the old name is dropped.
TransferDropsLock(c, old, new) ==
    /\ locks' = [locks EXCEPT ![old] = 0]
    /\ scroll' = Moved(scroll, old, new, 0)
    /\ live' = [live EXCEPT ![new] = @ \cup live[old], ![old] = {}]
    /\ conn' = [TransferConns(old, new) EXCEPT ![c] = Ready(@)]
Transfer(c, old, new) ==
    /\ locks' = Moved(locks, old, new, 0)
    /\ scroll' = Moved(scroll, old, new, 0)
    /\ live' = [live EXCEPT ![new] = @ \cup live[old], ![old] = {}]
    /\ conn' = [TransferConns(old, new) EXCEPT ![c] = Ready(@)]

\* rename-session -t <old> <new>, on whichever session that is, under the name
\* tmux makes of the new one.
Renamed(s, kept) ==
    [n \in Names |-> IF n = kept THEN s ELSE IF tmux[n] = s THEN 0 ELSE tmux[n]]

\* Under the lock: refused if the new name leads to a session, if the old one
\* leads to none, or if tmux has the name it would keep.
RenameDone(c) ==
    LET old == conn[c].victim
        new == conn[c].target
        s == Found(old, tmux)
        kept == Kept[new]
    IN /\ conn[c].at = "renaming"
       /\ Free(conn[c].wants)
       /\ IF (old # new /\ Exists(new)) \/ s = 0 \/ tmux[kept] \notin {0, s}
          THEN /\ Becomes(c, Ready(conn[c]))
               /\ UNCHANGED <<tmux, mistaken, locks, scroll, live>>
          ELSE /\ tmux' = Renamed(s, kept)
               /\ mistaken' = mistaken \cup Mistaken(old, s)
                                \cup (IF kept = new THEN {} ELSE {s})
               /\ IF old # new THEN Transfer(c, old, new)
                  ELSE /\ Becomes(c, Ready(conn[c]))
                       /\ UNCHANGED <<locks, scroll, live>>
       /\ UNCHANGED <<tenants, born, owned, made, holder, queues, commands, spent>>

\* kill-session drops everything kept under the name but the live bridges.
Without(mapping, n) == [mapping EXCEPT ![n] = 0]
Released(u, n) == IF tenants THEN [owned EXCEPT ![u] = @ \ {n}] ELSE owned
Forget(n) == locks' = Without(locks, n) /\ scroll' = Without(scroll, n)
\* kill-session -t <name>, on whichever session that is.
Killed(n, m) == [k \in Names |-> IF m[k] = Found(n, m) THEN 0 ELSE m[k]]

KillOther(c) ==
    /\ conn[c].at = "ready" /\ Command
    /\ \E n \in Visible(c) \ {conn[c].session} :
          /\ Nothing(Killed(n, tmux), Released(UserOf[c], n))
          /\ Forget(n)
    /\ UNCHANGED <<tenants, mistaken, made, holder, live, queues, conn, spent>>

\* Its own session: where to go next is decided, and announced to the browser,
\* before the session is killed.
KillOwn(c) ==
    LET u == UserOf[c]
        others == Visible(c) \ {conn[c].session}
    IN /\ conn[c].at = "ready" /\ Command
       /\ conn[c].session \in Visible(c)
       /\ \E next \in IF others # {} THEN others ELSE {NextName(u, tmux)} :
             /\ IF others # {} THEN UNCHANGED names
                ELSE CreateUserSession(u, next, tmux, owned)
             /\ Becomes(c, [conn[c] EXCEPT !.at = "killing", !.target = next,
                                           !.victim = conn[c].session])
       /\ UNCHANGED <<tenants, mistaken, writing, live, scrolling, spent>>

\* session-closing is sent: whatever the name leads to by now is killed, and the
\* connection goes where it said, if that is still there.
KillSends(c) ==
    LET n == conn[c].victim IN
    /\ conn[c].at = "killing"
    /\ Forget(n)
    /\ Switches(c, conn[c], conn[c].target, Killed(n, tmux), Released(UserOf[c], n))
    /\ UNCHANGED <<tenants, mistaken, made, holder, queues, commands, spent>>

\* A shell ends, and its session; somebody starts one outside the server.
Exits ==
    /\ Disturb
    /\ \E n \in Standing(tmux) : tmux' = [tmux EXCEPT ![n] = 0]
    /\ UNCHANGED <<tenants, born, owned, mistaken, writing, live, scrolling, conn, commands>>
Started ==
    /\ Disturb /\ born < MaxBorn
    /\ \E n \in ({None} \X Numbers) \ Standing(tmux) : Birth(n, tmux)
    /\ UNCHANGED <<tenants, owned, mistaken, writing, live, scrolling, conn, commands>>

-----------------------------------------------------------------------------
(* Scrolling, and input that must not meet it *)

NewQueue(pane) ==
    [pending |-> 0, pane |-> pane, at |-> "idle", task |-> 0, into |-> 0, marks |-> {}]
\* Deltas for another pane replace the old ones; a drain task is started unless
\* one is there.
Queued(q, pane, lines) ==
    [q EXCEPT !.pending = (IF q.pane = pane THEN @ ELSE 0) + lines, !.pane = pane,
              !.at = IF @ = "idle" THEN "woken" ELSE @,
              !.task = IF q.at = "idle" THEN @ + 1 ELSE @]

ScrollHistory(c) ==
    LET n == conn[c].session IN
    /\ conn[c].at = "ready" /\ Command
    /\ \E lines \in Deltas :
          IF scroll[n] = 0
          THEN /\ queues' = Append(queues, Queued(NewQueue(conn[c].pane), conn[c].pane, lines))
               /\ scroll' = [scroll EXCEPT ![n] = Len(queues) + 1]
          ELSE /\ queues' = [queues EXCEPT ![scroll[n]] =
                                Queued(@, conn[c].pane, lines)]
               /\ scroll' = scroll
    /\ UNCHANGED <<tenants, names, mistaken, writing, live, conn, spent>>

\* One turn of drain_scroll_history: the tmux call before has returned.
Clamp(lines) ==
    IF lines > MaxPerCall THEN MaxPerCall ELSE IF lines < -MaxPerCall THEN -MaxPerCall ELSE lines
Turn(q) ==
    IF q.pending = 0 THEN [q EXCEPT !.at = "idle", !.marks = {}]
    ELSE [q EXCEPT !.at = "calling", !.into = q.pane, !.marks = {},
                   !.pending = @ - Clamp(@)]
Drain ==
    /\ \E i \in DOMAIN queues :
          /\ queues[i].at # "idle"
          /\ queues' = [queues EXCEPT ![i] = Turn(@)]
    /\ UNCHANGED <<tenants, names, mistaken, writing, live, scroll, conn, commands, spent>>
DrainFails ==
    /\ Disturb
    /\ \E i \in DOMAIN queues :
          /\ queues[i].at = "calling"
          /\ queues' = [queues EXCEPT ![i].at = "idle", ![i].marks = {}]
    /\ UNCHANGED <<tenants, names, mistaken, writing, live, scroll, conn, commands>>

\* Typed input drops what is pending and waits for the call in flight; marks
\* remembers who met that call.
Dropped(q, c) ==
    [q EXCEPT !.pending = 0,
              !.marks = IF q.at = "calling" THEN @ \cup {c} ELSE @]
Settle(c) ==
    LET i == scroll[conn[c].session] IN
    /\ conn[c].at = "ready" /\ Command
    /\ IF i = 0
       THEN /\ Becomes(c, [conn[c] EXCEPT !.at = "waiting", !.wants = conn[c].lock])
            /\ queues' = queues
       ELSE /\ queues' = [queues EXCEPT ![i] = Dropped(@, c)]
            /\ Becomes(c, IF queues[i].at = "idle"
                          THEN [conn[c] EXCEPT !.at = "waiting", !.wants = conn[c].lock]
                          ELSE [conn[c] EXCEPT !.at = "settling", !.queue = i,
                                               !.task = queues[i].task])
    /\ UNCHANGED <<tenants, names, mistaken, writing, live, scroll, spent>>
\* Mutant: the call in flight is not waited for.
SettledAtOnce(c) ==
    /\ conn[c].at = "settling"
    /\ Becomes(c, [conn[c] EXCEPT !.at = "waiting", !.wants = conn[c].lock])
    /\ UNCHANGED <<tenants, names, mistaken, writing, live, scrolling, commands, spent>>
Settled(c) ==
    /\ conn[c].at = "settling"
    /\ \/ queues[conn[c].queue].at = "idle"
       \/ queues[conn[c].queue].task # conn[c].task
    /\ Becomes(c, [conn[c] EXCEPT !.at = "waiting", !.wants = conn[c].lock])
    /\ UNCHANGED <<tenants, names, mistaken, writing, live, scrolling, commands, spent>>

WriteBegins(c) ==
    /\ conn[c].at = "waiting"
    /\ Free(conn[c].wants)
    /\ holder' = [holder EXCEPT ![conn[c].wants] = c]
    /\ Becomes(c, [conn[c] EXCEPT !.at = "writing", !.into = conn[c].pane])
    /\ UNCHANGED <<tenants, names, mistaken, locks, made, live, scrolling, commands, spent>>
WriteEnds(c) ==
    /\ conn[c].at = "writing"
    /\ holder' = [holder EXCEPT ![conn[c].wants] = None]
    /\ Becomes(c, Ready(conn[c]))
    /\ UNCHANGED <<tenants, names, mistaken, locks, made, live, scrolling, commands, spent>>

-----------------------------------------------------------------------------
Steps(c) ==
    \/ Opened(c) \/ OpenFails(c) \/ FollowPane(c) \/ Closed(c) \/ SwitchCloses(c)
    \/ RenameDone(c) \/ KillSends(c) \/ Settled(c) \/ WriteBegins(c)
    \/ WriteEnds(c)
Next ==
    \/ \E c \in Conns :
          \/ Connect(c) \/ Leave(c) \/ SwitchSession(c) \/ NewTab(c)
          \/ RenameLabel(c) \/ RenameTab(c) \/ KillOther(c) \/ KillOwn(c)
          \/ ScrollHistory(c) \/ Settle(c) \/ Steps(c)
    \/ Exits \/ Started \/ Drain \/ DrainFails

Spec == Init /\ [][Next]_vars

-----------------------------------------------------------------------------
(* Properties *)

ConnType ==
    [at: HasBridge \cup {"closed", "closing", "ending"},
     session: Names \cup {NoName}, name: Names \cup {NoName},
     attached: 0..born, pane: 0..born, into: 0..born, lock: 0..made, wants: 0..made,
     queue: 0..Len(queues), task: Nat, target: Names \cup {NoName},
     later: BOOLEAN, victim: Names \cup {NoName}]
QueueType ==
    [pending: Int, pane: 1..born, at: {"idle", "woken", "calling"}, task: Nat,
     into: 0..born, marks: SUBSET Conns]

\* The shape of the state: no session has two names, no lock and no queue is
\* kept under two.
Injective(mapping) ==
    \A m, n \in Names : mapping[m] = mapping[n] /\ mapping[m] # 0 => m = n
TypeOK ==
    /\ tenants \in BOOLEAN /\ born \in 0..MaxBorn /\ made \in Nat
    /\ mistaken \subseteq 1..born
    /\ tmux \in [Names -> 0..born] /\ Injective(tmux)
    /\ locks \in [Names -> 0..made] /\ Injective(locks)
    /\ scroll \in [Names -> 0..Len(queues)] /\ Injective(scroll)
    /\ owned \in [Users -> SUBSET Names]
    /\ holder \in [1..made -> Conns \cup {None}]
    /\ live \in [Names -> SUBSET Conns]
    /\ conn \in [Conns -> ConnType]
    /\ \A i \in DOMAIN queues : queues[i] \in QueueType
    /\ commands \in 0..MaxCommands /\ spent \in 0..MaxEvents

\* However names change hands, two connections that are on sessions no command
\* mistook for others never write to one of these at once: the lock kept under
\* a name follows its session through renames, and a new one is made only when
\* the session is gone.
OneWriter ==
    \A c, d \in Conns :
       /\ c # d /\ conn[c].at = "writing" /\ conn[d].at = "writing"
       /\ Certain(conn[c].attached) /\ Certain(conn[d].attached)
       /\ conn[c].into = conn[d].into
       => ~Certain(conn[c].into)

\* A bridge is registered under its own name and no other, from before its open
\* waits until it is closed, so that every rename reaches it.  As long as its
\* session lives and no command mistook it for another, name and
\* state["session"] stand for that session, and the pane last looked up by name
\* is its own, or that of a session the look-up mistook (open_live_terminal,
\* watch_tabs).
NameFollows ==
    \A c \in Conns :
       /\ \A n \in Names :
             c \in live[n] <=> (conn[c].at \in HasBridge /\ n = conn[c].name)
       /\ conn[c].at \in HasBridge => conn[c].session = conn[c].name
       /\ (conn[c].at \in HasBridge /\ Certain(conn[c].attached)) =>
             /\ tmux[conn[c].name] = conn[c].attached
             /\ conn[c].at # "opening" =>
                   conn[c].pane = conn[c].attached \/ conn[c].pane \in mistaken

\* With several tenants no connection is on a living session its user may not
\* see, whatever was killed, created and claimed again since it attached, unless
\* a command mistook that session for another.
TenantsApart ==
    tenants => \A c \in Conns :
       (conn[c].at \in HasBridge /\ Certain(conn[c].attached))
          => conn[c].name \in Visible(c)

\* "A user may only attach to a session in their visible set" (server.py 5342):
\* resolve_user_session asks tmux for the names its user has claimed, and a
\* claim whose session ended leads to a session of another with a longer name.
VisibleOnly ==
    tenants => \A c \in Conns :
       (conn[c].at \in HasBridge /\ Alive(conn[c].attached))
          => \E n \in Visible(c) : tmux[n] = conn[c].attached

\* Input is written after the scrolling it met: no tmux call that was in flight
\* when the input came is still in flight once it waits for the write lock.
InputAfterScroll ==
    \A i \in DOMAIN queues, c \in Conns :
       (queues[i].at = "calling" /\ c \in queues[i].marks)
          => conn[c].at \notin {"waiting", "writing"}
=============================================================================
