----------------------------- MODULE Providers -----------------------------
(***************************************************************************)
(* Whose text a selection may be given: the lifecycle hooks that bind a    *)
(* pane to a provider's session (src/provider_binding_hook.py) and the     *)
(* lookup that turns selected rows back into the text of a transcript      *)
(* (src/provider_authority.py).                                            *)
(*                                                                         *)
(* One pane.  Providers start in it, change session and end; their hooks   *)
(* run beside them, each reading the process, the coordinates and, under a *)
(* file lock, the binding it replaces.  Transcripts grow while a selection *)
(* reads them.  A selection takes many steps, none of which stops the      *)
(* providers or the hooks; selections exclude one another.                 *)
(*                                                                         *)
(* A selection shows one picture: the texts in Alike are the ones that the *)
(* renderer draws so.  Lines of a transcript are records, its bytes lines; *)
(* the pane's cursor stays on the first row below its history.             *)
(***************************************************************************)
EXTENDS Integers, Sequences, SequencesExt, FiniteSets

CONSTANTS
    Claude, Codex,     \* session ids of each provider, also its transcripts
    Stamped,           \* sessions whose provider stamps its events with a time
    Pids,              \* process ids
    Texts,             \* texts of records
    Alike,             \* those drawn like the selected rows
    Hooks,             \* hook processes that may run at once
    None,              \* stands for no process, binding, row, text or session
    Scenes,            \* what may run in the pane and beside it at first
    FirstLines,        \* what the transcripts may hold at first
    NewLines,          \* lines that may be appended
    MaxRanges,         \* ownership ranges kept (16 in the code)
    MaxRecords,        \* records an index keeps (128 in the code)
    MaxScan,           \* lines read to start an index (2 MiB in the code)
    MaxLate,           \* further lines read at once (8 MiB in the code)
    MaxIndexes,        \* indexes kept (32 in the code)
    HistoryLimit,      \* tmux history-limit of the pane
    MaxRow, MaxLines,  \* bounds on the pane's rows and a transcript's lines
    MaxEvents,         \* bound on what providers, shell and transcripts do
    MaxHooks,          \* bound on the hooks run
    MaxAsked           \* bound on the selections asked

Sessions == Claude \cup Codex
Kinds == {"assistant", "user", "tool", "meta", "bad"}
Lines == [kind : Kinds, text : Texts, unsupported : BOOLEAN]

Processes == [start : Nat, kind : {"cli", "worker"}, session : Sessions]
                \cup [start : Nat, kind : {"viewer"}, session : {None}]
Registered == [session : Claude, start : Nat]
Ranged == [session : Codex, start : Nat, end : Nat \cup {None}, alternate : BOOLEAN,
           saturated : BOOLEAN]
Bindings == [session : Sessions, pid : Pids, start : Nat, active : BOOLEAN,
             generation : Nat \ {0}, time : Nat, unavailable : BOOLEAN, ranges : Seq(Ranged)]

\* None is nothing else, and what there is at first was there before the rest.
ASSUME NoneAssumption ==
    /\ None \notin Sessions \cup Pids \cup Texts \cup Hooks
    /\ None \notin Nat /\ None \notin Processes /\ None \notin Registered /\ None \notin Bindings
ASSUME ProviderAssumption ==
    /\ Claude \cap Codex = {} /\ Stamped \subseteq Sessions /\ Alike \subseteq Texts
    /\ NewLines \subseteq Lines /\ IsFiniteSet(Pids)
    /\ \A first \in FirstLines : \A s \in Sessions :
          first[s] \in Seq(Lines) /\ Len(first[s]) <= MaxLines
ASSUME SceneAssumption == \A scene \in Scenes :
    /\ scene.proc \in [Pids -> {q \in Processes : q.start = 0} \cup {None}]
    /\ scene.registry \in [Pids -> {r \in Registered : r.start = 0} \cup {None}]
    /\ scene.fg \in {p \in Pids : scene.proc[p] # None} \cup {None}
    /\ scene.alternate \in BOOLEAN
ASSUME LimitAssumption ==
    /\ {MaxRanges, MaxRecords, MaxScan, MaxIndexes, HistoryLimit} \subseteq Nat \ {0}
    /\ {MaxLate, MaxRow, MaxLines, MaxEvents, MaxHooks, MaxAsked} \subseteq Nat

VARIABLES
    proc,      \* the processes that live
    fg,        \* the one in the foreground of the pane
    registry,  \* ~/.claude/sessions/<pid>.json
    pane,      \* the pane: the cursor's row, the alternate screen
    file,      \* the transcripts
    cache,     \* the binding file of the pane
    hooks,     \* hook processes
    lock,      \* the hook that holds the file lock
    indexes,   \* _TRANSCRIPT_INDEXES, least recently used first
    known,     \* _FLEET_VIEWERS[pane]
    sel,       \* the selection under _PROVIDER_SELECTION_LOCK
    clock,     \* time.time_ns()
    events,    \* what providers, shell and transcripts did so far
    ran,       \* hooks run so far
    asked      \* selections asked so far

world == <<proc, fg, registry, pane, file>>
binding == <<cache, hooks, lock, ran, clock>>
lookup == <<indexes, known, sel, asked>>
vars == <<world, binding, lookup, events>>

-----------------------------------------------------------------------------
(* The world outside: processes, registry, pane and transcripts            *)

Alive(p, start) == proc[p] # None /\ proc[p].start = start
InPane(p) == proc[p] # None /\ proc[p].kind # "worker"   \* TMUX_PANE
Workers == {p \in Pids : proc[p] # None /\ proc[p].kind = "worker"}

NoFence == [ino |-> 0, lines |-> <<>>, part |-> FALSE]
NoHook == [pc |-> "idle"]
NoSel == [pc |-> "idle"]

Init ==
    /\ \E scene \in Scenes :
          /\ proc = scene.proc /\ fg = scene.fg /\ registry = scene.registry
          /\ pane = [row |-> 0, alternate |-> scene.alternate]
    /\ \E first \in FirstLines :
          file = [s \in Sessions |-> [ino |-> 1, lines |-> first[s], part |-> FALSE]]
    /\ cache = None /\ hooks = [h \in Hooks |-> NoHook] /\ lock = None
    /\ indexes = <<>> /\ known = None /\ sel = NoSel
    /\ clock = 0 /\ events = 0 /\ ran = 0 /\ asked = 0

(* The last n elements of a sequence: a deque of that length, a slice.      *)
Newest(q, n) == IF Len(q) <= n THEN q ELSE SubSeq(q, Len(q) - n + 1, Len(q))

Happens == events < MaxEvents /\ events' = events + 1

(* A process of this kind starts with session s: a provider or the agents'  *)
(* viewer in the foreground, a worker beside it.                            *)
Start(p, kind, s) ==
    /\ Happens
    /\ proc[p] = None
    /\ \A q \in Pids : proc[q] # None => proc[q].session # s \/ s = None
    /\ proc' = [proc EXCEPT ![p] = [start |-> events + 1, kind |-> kind, session |-> s]]
    /\ UNCHANGED <<file, binding, lookup>>

StartProvider(p, s) ==
    /\ fg = None /\ fg' = p
    /\ Start(p, "cli", s)
    /\ \E a \in BOOLEAN : pane' = [pane EXCEPT !.alternate = a]
    /\ \E written \in IF s \in Claude THEN BOOLEAN ELSE {FALSE} :
          registry' = [registry EXCEPT ![p] = IF written THEN [session |-> s, start |-> events + 1]
                                              ELSE @]

StartViewer(p) ==
    /\ fg = None /\ fg' = p
    /\ Start(p, "viewer", None)
    /\ pane' = [pane EXCEPT !.alternate = TRUE]
    /\ UNCHANGED registry

StartWorker(p, s) ==
    /\ s \in Claude
    /\ Start(p, "worker", s)
    /\ UNCHANGED <<fg, pane, registry>>

(* The provider in the pane goes on with another session (/clear, /resume). *)
ChangeSession(s) ==
    /\ Happens
    /\ fg # None /\ proc[fg].kind = "cli"
    /\ s # proc[fg].session /\ (s \in Claude <=> proc[fg].session \in Claude)
    /\ \A q \in Pids : proc[q] # None => proc[q].session # s
    /\ proc' = [proc EXCEPT ![fg].session = s]
    /\ registry' = IF registry[fg] = None \/ s \in Codex THEN registry
                   ELSE [registry EXCEPT ![fg].session = s]
    /\ UNCHANGED <<fg, pane, file, binding, lookup>>

(* A process ends; a crash leaves its registry file behind.                 *)
Exit(p) ==
    /\ Happens
    /\ proc[p] # None
    /\ proc' = [proc EXCEPT ![p] = None]
    /\ IF fg = p THEN fg' = None /\ pane' = [pane EXCEPT !.alternate = FALSE]
                 ELSE UNCHANGED <<fg, pane>>
    /\ \E left \in IF registry[p] = None THEN {FALSE} ELSE BOOLEAN :
          registry' = IF left THEN registry ELSE [registry EXCEPT ![p] = None]
    /\ UNCHANGED <<file, binding, lookup>>

(* The program in the pane prints a row, or the history is cleared.         *)
PrintRow ==
    /\ Happens
    /\ pane.row < MaxRow /\ ~pane.alternate
    /\ pane' = [pane EXCEPT !.row = @ + 1]
    /\ UNCHANGED <<proc, fg, registry, file, binding, lookup>>

ClearHistory ==
    /\ Happens
    /\ pane.row > 0 /\ ~pane.alternate
    /\ pane' = [pane EXCEPT !.row = 0]
    /\ UNCHANGED <<proc, fg, registry, file, binding, lookup>>

(* A session's process writes a line, or the first part of one; a complete  *)
(* transcript may be replaced by a new file.                                *)
Writes(s) == \E p \in Pids : proc[p] # None /\ proc[p].session = s

AppendLine(s, line) ==
    /\ Happens
    /\ Writes(s) /\ Len(file[s].lines) < MaxLines
    /\ (line.kind = "meta") <=> (s \in Codex /\ file[s].lines = <<>>)
    /\ file' = [file EXCEPT ![s].lines = Append(@, line), ![s].part = FALSE]
    /\ UNCHANGED <<proc, fg, registry, pane, binding, lookup>>

AppendPart(s) ==
    /\ Happens
    /\ Writes(s) /\ ~file[s].part /\ Len(file[s].lines) < MaxLines
    /\ file' = [file EXCEPT ![s].part = TRUE]
    /\ UNCHANGED <<proc, fg, registry, pane, binding, lookup>>

Rotate(s) ==
    /\ Happens
    /\ Writes(s) /\ file[s].lines # <<>>
    /\ \E first \in FirstLines :
          file' = [file EXCEPT ![s] = [ino |-> @.ino + 1, lines |-> first[s], part |-> FALSE]]
    /\ UNCHANGED <<proc, fg, registry, pane, binding, lookup>>

-----------------------------------------------------------------------------
(* provider_binding_hook.py                                                *)

(* The process a hook of p's session binds: the one the registry names for  *)
(* it, and the hook's own ancestor where the registry names none.           *)
RegistryMatches(s) == {q \in Pids : registry[q] # None /\ registry[q].session = s}

HookProcesses(p) ==
    LET s == proc[p].session
        found == RegistryMatches(s)
        own == [pid |-> p, start |-> proc[p].start]
    IN  IF s \in Codex \/ found = {} THEN {own}
        ELSE IF Cardinality(found) > 1 THEN {}
        ELSE {[pid |-> q, start |-> registry[q].start] : q \in found}

(* A provider runs a hook for an event: the hook finds process and pane     *)
(* coordinates, which may fail, before it asks for the lock.                *)
HookStarts(h) ==
    /\ hooks[h] = NoHook /\ ran < MaxHooks
    /\ fg # None /\ proc[fg].kind = "cli"
    /\ \E who \in HookProcesses(fg), ended \in BOOLEAN,
          at \in IF proc[fg].session \in Codex THEN {pane.row, None} ELSE {None} :
          hooks' = [hooks EXCEPT ![h] =
              [pc |-> "waiting", session |-> proc[fg].session, pid |-> who.pid,
               start |-> who.start, ended |-> ended, at |-> at, alternate |-> pane.alternate,
               time |-> IF proc[fg].session \in Stamped THEN clock + 1 ELSE None]]
    /\ clock' = clock + 1 /\ ran' = ran + 1
    /\ UNCHANGED <<world, cache, lock, lookup, events>>

\* Mutant: the binding is replaced without the file lock.
AnyLock == TRUE

(* flock(LOCK_EX), then the binding there is.                               *)
LockFree == lock = None

HookLocks(h) ==
    /\ hooks[h].pc = "waiting" /\ LockFree
    /\ lock' = h
    /\ hooks' = [hooks EXCEPT ![h] = [pc |-> "locked", existing |-> cache,
                    event |-> [hooks[h] EXCEPT !.time = IF @ = None THEN clock + 1 ELSE @]]]
    /\ clock' = clock + 1
    /\ UNCHANGED <<world, cache, ran, lookup, events>>

Generation(c) == IF c = None THEN 0 ELSE c.generation
EventTime(c) == IF c = None THEN 0 ELSE c.time
SameProcess(c, e) ==
    c # None /\ c.session = e.session /\ c.pid = e.pid /\ c.start = e.start

(* Events that leave the binding as it is.                                  *)
SessionEnded(c, e) == SameProcess(c, e) /\ ~c.active /\ ~e.ended
StaleEvent(c, e) == e.time <= EventTime(c)
Skipped(c, e) == SessionEnded(c, e) \/ StaleEvent(c, e)

\* Mutant: old ranges are never dropped.
KeptAll(rs) == rs

(* The rows a codex session owns: a range is opened for a new process or    *)
(* session, closed by its end or by the next.                               *)
Kept(rs) == Newest(rs, MaxRanges)
CloseLast(rs, row) ==
    IF rs # <<>> /\ Last(rs).end = None THEN [rs EXCEPT ![Len(rs)].end = row] ELSE rs

Ranges(c, e) ==
    LET rs == IF c = None \/ c.session \notin Codex THEN <<>> ELSE Kept(c.ranges)
        opened == [session |-> e.session, start |-> e.at, end |-> None,
                   alternate |-> e.alternate, saturated |-> e.at >= HistoryLimit]
    IN  IF e.at = None THEN rs
        ELSE IF ~SameProcess(c, e) \/ rs = <<>> \/ ~c.active
             THEN Kept(Append(CloseLast(rs, e.at), opened))
        ELSE IF e.ended /\ Last(rs).session = e.session THEN CloseLast(rs, e.at)
        ELSE rs

Bound(c, e) ==
    [session |-> e.session, pid |-> e.pid, start |-> e.start, active |-> ~e.ended,
     generation |-> Generation(c) + 1, time |-> e.time,
     unavailable |-> e.session \in Codex /\ e.at = None,
     ranges |-> IF e.session \in Codex THEN Ranges(c, e) ELSE <<>>]

HookWrites(h) ==
    /\ hooks[h].pc = "locked"
    /\ LET c == hooks[h].existing
           e == hooks[h].event
       IN  cache' = IF Skipped(c, e) THEN cache ELSE Bound(c, e)
    /\ hooks' = [hooks EXCEPT ![h] = NoHook]
    /\ lock' = IF lock = h THEN None ELSE lock
    /\ UNCHANGED <<world, clock, ran, lookup, events>>

(* The provider kills a hook that takes longer than its timeout: the lock   *)
(* goes with it, and a binding half written is never named.  One killed     *)
(* earlier is one that waits for ever.                                      *)
HookKilled(h) ==
    /\ hooks[h].pc = "locked"
    /\ hooks' = [hooks EXCEPT ![h] = NoHook]
    /\ lock' = IF lock = h THEN None ELSE lock
    /\ UNCHANGED <<world, cache, clock, ran, lookup, events>>

-----------------------------------------------------------------------------
(* Transcripts: fences and indexes                                         *)

(* A fence keeps the file's identity and size; what lies below that size    *)
(* under the open descriptor does not change.  A partial last line refuses. *)
Opens(s) == ~file[s].part
Unchanged(s, fence) == file[s] = fence

Records(line) == line.kind \in {"assistant", "user"}
Record(lines, i, sure) ==
    [ordinal |-> i, text |-> lines[i].text, unsupported |-> lines[i].unsupported \/ ~sure]

(* The records of the lines after from, told apart by where their lines     *)
(* are.  Those before the first user line of the tail that started the      *)
(* index may be the rest of one cut off.                                    *)
Parse(lines, from, whole) ==
    LET seen(i) == whole \/ \E j \in (from + 1)..i : lines[j].kind \in {"user", "tool"}
    IN  {Record(lines, i, seen(i)) : i \in {i \in (from + 1)..Len(lines) : Records(lines[i])}}

(* The n last of these records: what a deque of that length keeps of them.  *)
Latest(records, n) ==
    {r \in records : Cardinality({q \in records : q.ordinal > r.ordinal}) < n}

NewIndex(key) == [key |-> key, ino |-> 0, offset |-> 0, meta |-> FALSE, records |-> {}]

Bootstrap(fence) == IF Len(fence.lines) <= MaxScan THEN 0 ELSE Len(fence.lines) - MaxScan
HasMeta(lines) == lines # <<>> /\ lines[1].kind = "meta"

(* The index read up to the fence, None if a line or the file refuses.      *)
Scanned(index, s, fence) ==
    LET first == index.ino = 0
        from == IF first THEN Bootstrap(fence) ELSE index.offset
        meta == index.meta \/ (from = 0 /\ HasMeta(fence.lines)) \/ (first /\ HasMeta(fence.lines))
        added == Parse(fence.lines, from, ~first \/ from = 0 \/ s \in Codex)
    IN  IF \/ ~first /\ index.ino # fence.ino
           \/ Len(fence.lines) < from
           \/ Len(fence.lines) - from > MaxScan + MaxLate
           \/ \E i \in (from + 1)..Len(fence.lines) : fence.lines[i].kind = "bad"
           \/ s \in Codex /\ ~meta /\ (added # {} \/ (first /\ from > 0))
        THEN None
        ELSE [index EXCEPT !.ino = fence.ino, !.offset = Len(fence.lines), !.meta = meta,
                           !.records = Latest(@ \cup added, MaxRecords)]

\* Mutant: a failed update gives back the offset and keeps the records.
UpdatedKeeps(index, s, fence) ==
    LET scanned == Scanned(index, s, fence)
    IN  IF scanned = None THEN index
        ELSE IF ~Unchanged(s, fence) THEN [index EXCEPT !.ino = scanned.ino,
                                                        !.records = scanned.records]
        ELSE scanned

(* An update that fails, on a line or because the file grew meanwhile,      *)
(* leaves the index as it was.                                              *)
Updated(index, s, fence) ==
    LET scanned == Scanned(index, s, fence)
    IN  IF scanned = None \/ ~Unchanged(s, fence) THEN index ELSE scanned

Key(b) == <<b.session, b.generation>>
Holds(b) == {i \in DOMAIN indexes : indexes[i].key = Key(b)}

(* The index of this key is used last; another generation's is dropped.     *)
IndexFor(b) == IF Holds(b) = {} THEN NewIndex(Key(b)) ELSE indexes[CHOOSE i \in Holds(b) : TRUE]
Others(s) ==
    LET same == {i \in DOMAIN indexes : indexes[i].key[1] = s}
    IN  IF same = {} THEN indexes ELSE RemoveAt(indexes, CHOOSE i \in same : TRUE)
Stored(index) == Newest(Append(Others(index.key[1]), index), MaxIndexes)

(* One record, and only one, is drawn like the selected rows.               *)
Drawn(records) == {r \in records : r.text \in Alike}
Match(records) ==
    LET drawn == Drawn(records)
    IN  IF drawn = {} THEN "nothing"
        ELSE IF Cardinality(drawn) > 1 \/ \E r \in drawn : r.unsupported THEN "ambiguous"
        ELSE "matched"
MatchedText(records) == (CHOOSE r \in Drawn(records) : TRUE).text

-----------------------------------------------------------------------------
(* provider_authority.py: which session a pane is bound to                 *)

(* Registry files of live processes of the pane, filtered by the binding    *)
(* file; where none is left, the binding file itself, checked the same way. *)
ClaudeFound(c) ==
    LET live == {p \in Pids : /\ registry[p] # None /\ InPane(p)
                              /\ Alive(p, registry[p].start)}
        wanted == {p \in live : c = None \/ (p = c.pid /\ registry[p].session = c.session)}
        hinted == c # None /\ c.session \in Claude /\ c.active
                  /\ InPane(c.pid) /\ Alive(c.pid, c.start)
    IN  IF wanted # {}
        THEN {[session |-> registry[p].session, pid |-> p, start |-> registry[p].start,
               generation |-> Generation(c)] : p \in wanted}
        ELSE IF hinted THEN {[session |-> c.session, pid |-> c.pid, start |-> c.start,
                              generation |-> c.generation]}
        ELSE {}

(* The binding a lookup finds now, None if it refuses, Unbound if the pane  *)
(* has none.                                                                *)
Unbound == [session |-> None, pid |-> None, start |-> 0, generation |-> 0]

Resolve(c) ==
    LET found == ClaudeFound(c)
    IN  IF c = None
        THEN IF found = {} THEN Unbound
             ELSE IF Cardinality(found) > 1 THEN None
             ELSE CHOOSE b \in found : TRUE
        ELSE IF ~c.active THEN None
        ELSE IF c.session \in Claude
        THEN IF Cardinality(found) = 1 /\ (CHOOSE b \in found : TRUE).start = c.start
             THEN CHOOSE b \in found : TRUE
             ELSE None
        ELSE IF InPane(c.pid) /\ Alive(c.pid, c.start)
        THEN [session |-> c.session, pid |-> c.pid, start |-> c.start, generation |-> c.generation]
        ELSE None

(* Whether the provider owns a row of this snapshot: TRUE, FALSE, or None   *)
(* where the rows kept no longer say.                                       *)
Owned(session, c, snap, row) ==
    IF session \in Claude THEN snap.alternate
    ELSE IF c = None \/ c.unavailable \/ c.ranges = <<>> THEN None
    ELSE LET end(r) == IF r.end = None THEN snap.row ELSE r.end
             stale(r) == \/ r.alternate \/ snap.alternate \/ r.saturated
                         \/ snap.row < r.start \/ snap.row >= HistoryLimit
                         \/ end(r) < r.start
         IN  IF \E i \in DOMAIN c.ranges : stale(c.ranges[i]) THEN None
             ELSE \E i \in DOMAIN c.ranges : c.ranges[i].start <= row /\ row <= end(c.ranges[i])

-----------------------------------------------------------------------------
(* provider_authority.py: one selection, step by step                      *)

Step(next) == sel' = next
Unmoved == UNCHANGED <<world, binding, events, asked>>

Finish(decision, text) ==
    sel' = [pc |-> "done", decision |-> decision, text |-> text, hadCache |-> sel.hadCache,
            alternate |-> sel.snap.alternate, session |-> sel.bound.session,
            witness |-> sel.witness]
Reject == Finish("rejected", None)

(* The snapshot of the selection was taken under the terminal's own fences. *)
Select(row) ==
    /\ sel = NoSel /\ asked < MaxAsked
    /\ row <= pane.row
    /\ sel' = [pc |-> "detect", row |-> row, snap |-> pane, hadCache |-> cache # None,
               failed |-> FALSE, cache |-> None, bound |-> Unbound, fence |-> NoFence,
               workers |-> <<>>, fences |-> <<>>, texts |-> {}, witness |-> None]
    /\ asked' = asked + 1
    /\ UNCHANGED <<world, binding, events, indexes, known>>

(* Whether the agents' viewer is in the foreground of an alternate screen.  *)
Viewer == IF fg # None /\ proc[fg].kind = "viewer" THEN [pid |-> fg, start |-> proc[fg].start]
          ELSE None

Detect ==
    /\ sel.pc = "detect"
    /\ LET viewer == IF sel.snap.alternate THEN Viewer ELSE None
       IN  /\ known' = viewer
           /\ Step([sel EXCEPT !.pc = IF viewer = None THEN "load" ELSE "list"])
    /\ Unmoved /\ UNCHANGED indexes

DetectFails ==
    /\ sel.pc = "detect" /\ sel.snap.alternate
    /\ IF known # None THEN Reject ELSE Step([sel EXCEPT !.pc = "load", !.failed = TRUE])
    /\ Unmoved /\ UNCHANGED <<indexes, known>>

(* The binding file as it is: what it says of the selected row, before it   *)
(* is compared with the processes.                                          *)
OfWorker(p) == proc[p] # None /\ proc[p].kind = "worker"   \* its file has no tmux

Load ==
    /\ sel.pc = "load"
    /\ LET c == cache
           owned == Owned(c.session, c, sel.snap, sel.row)
           next == [sel EXCEPT !.pc = "resolve", !.cache = c]
       IN  IF c = None THEN Step(next)
           ELSE IF c.session \in Claude
           THEN IF sel.failed /\ OfWorker(c.pid) THEN Reject
                ELSE IF c.active THEN Step(next)
                ELSE IF sel.snap.alternate THEN Reject
                ELSE Finish("unowned", None)
           ELSE IF owned = None THEN Reject
           ELSE IF c.active THEN Step(next)
           ELSE IF owned THEN Reject
           ELSE Finish("unowned", None)
    /\ Unmoved /\ UNCHANGED <<indexes, known>>

(* The file again, with registry and processes; rows that are not owned are *)
(* ordinary output.                                                         *)
RawFloor(c, snap) == c # None /\ c.session \in Claude /\ ~snap.alternate

ResolveBinding ==
    /\ sel.pc = "resolve"
    /\ LET b == Resolve(cache)
           owned == Owned(b.session, cache, sel.snap, sel.row)
       IN  IF b = None
           THEN IF RawFloor(sel.cache, sel.snap) THEN Finish("unowned", None) ELSE Reject
           ELSE IF b = Unbound THEN Finish("unowned", None)
           ELSE IF owned = None THEN Reject
           ELSE IF ~owned THEN Finish("unowned", None)
           ELSE Step([sel EXCEPT !.pc = "open", !.cache = cache, !.bound = b])
    /\ Unmoved /\ UNCHANGED <<indexes, known>>

(* The process once more, then the transcript under a fence.                *)
Open ==
    /\ sel.pc = "open"
    /\ LET b == sel.bound
       IN  /\ indexes' = Stored(IndexFor(b))
           /\ IF InPane(b.pid) /\ Alive(b.pid, b.start) /\ Opens(b.session)
              THEN Step([sel EXCEPT !.pc = "read", !.fence = file[b.session]])
              ELSE Reject
    /\ Unmoved /\ UNCHANGED known

\* What was searched under a fence, and how many records there were.
Looked(b, records) == [bound |-> b, fence |-> sel.fence, looked |-> Cardinality(records)]

(* The index is brought up to the fence and the rows are looked for in it.  *)
Read ==
    /\ sel.pc = "read"
    /\ LET b == sel.bound
           before == IndexFor(b)
           after == Updated(before, b.session, sel.fence)
           read == Scanned(before, b.session, sel.fence) # None /\ Unchanged(b.session, sel.fence)
       IN  /\ indexes' = Stored(after)
           /\ IF read /\ Match(after.records) = "matched"
              THEN Step([sel EXCEPT !.pc = "rebind", !.texts = {MatchedText(after.records)},
                                    !.fences = <<Looked(b, after.records)>>])
              ELSE Reject
    /\ Unmoved /\ UNCHANGED known

(* What is drawn alike in the records searched, as the transcript is now.   *)
Seen(f, live) ==
    [drawn |-> Drawn(Latest(Parse(file[f.bound.session].lines, 0, TRUE), f.looked)),
     whole |-> ~file[f.bound.session].part, live |-> live]

(* The binding is resolved again; nothing it rests on may have changed.     *)
SameBinding(b) == Resolve(cache) = b /\ cache = sel.cache

Rebind ==
    /\ sel.pc = "rebind"
    /\ IF SameBinding(sel.bound)
       THEN Step([sel EXCEPT !.pc = "answer",
                             !.witness = {Seen(sel.fences[1], Resolve(cache) = sel.bound)}])
       ELSE Reject
    /\ Unmoved /\ UNCHANGED <<indexes, known>>

\* Mutant: the transcript is not looked at again.
StillAlive(b, fence) == InPane(b.pid) /\ Alive(b.pid, b.start)

(* Process and fence a last time, then the text.                            *)
StillSo(b, fence) == StillAlive(b, fence) /\ Unchanged(b.session, fence)

Answer ==
    /\ sel.pc = "answer"
    /\ IF StillSo(sel.bound, sel.fence)
       THEN Finish("matched", CHOOSE t \in sel.texts : TRUE)
       ELSE Reject
    /\ Unmoved /\ UNCHANGED <<indexes, known>>

(* The agents' viewer shows one of the daemon's workers: all are looked at. *)
Listing == {[session |-> proc[p].session, pid |-> p, start |-> proc[p].start] : p \in Workers}

List ==
    /\ sel.pc = "list"
    /\ IF Listing = {} THEN Reject
       ELSE \E order \in SetToSeqs(Listing) :
               Step([sel EXCEPT !.pc = "openWorker", !.workers = order])
    /\ Unmoved /\ UNCHANGED <<indexes, known>>

(* The list cannot be had: no listener, a timeout, a bad or endless answer. *)
ListFails ==
    /\ sel.pc \in {"list", "recheck"}
    /\ Reject
    /\ Unmoved /\ UNCHANGED <<indexes, known>>

WorkerBinding(w) ==
    [session |-> w.session, pid |-> w.pid, start |-> proc[w.pid].start, generation |-> w.start + 1]
At == sel.workers[Len(sel.fences) + 1]

OpenWorker ==
    /\ sel.pc = "openWorker"
    /\ IF proc[At.pid] # None /\ Opens(At.session)
       THEN Step([sel EXCEPT !.pc = "readWorker", !.bound = WorkerBinding(At),
                             !.fence = file[At.session]])
       ELSE Reject
    /\ Unmoved /\ UNCHANGED <<indexes, known>>

ReadWorker ==
    /\ sel.pc = "readWorker"
    /\ LET b == sel.bound
           before == IndexFor(b)
           after == Updated(before, b.session, sel.fence)
           read == Scanned(before, b.session, sel.fence) # None /\ Unchanged(b.session, sel.fence)
           found == Match(after.records)
           texts == IF found = "matched" THEN sel.texts \cup {MatchedText(after.records)}
                    ELSE sel.texts
           fences == Append(sel.fences, Looked(b, after.records))
       IN  /\ indexes' = Stored(after)
           /\ IF \/ ~read \/ ~Alive(b.pid, b.start) \/ after.records = {}
                 \/ found = "ambiguous" \/ Cardinality(texts) > 1
              THEN Reject
              ELSE Step([sel EXCEPT
                      !.texts = texts, !.fences = fences,
                      !.pc = IF Len(fences) < Len(sel.workers) THEN "openWorker"
                             ELSE "recheck"])
    /\ Unmoved /\ UNCHANGED known

Listed(b) == [session |-> b.session, pid |-> b.pid, start |-> b.start]

(* The workers and the viewer must still be those; then every fence.        *)
Recheck ==
    /\ sel.pc = "recheck"
    /\ IF sel.texts # {} /\ Listing = ToSet(sel.workers) /\ Viewer = known
       THEN Step([sel EXCEPT !.pc = "answerWorker",
                             !.witness = {Seen(f, Listed(f.bound) \in Listing) :
                                             f \in ToSet(sel.fences)}])
       ELSE Reject
    /\ Unmoved /\ UNCHANGED <<indexes, known>>

FencesHold == \A f \in ToSet(sel.fences) :
    Alive(f.bound.pid, f.bound.start) /\ Unchanged(f.bound.session, f.fence)

AnswerWorker ==
    /\ sel.pc = "answerWorker"
    /\ IF FencesHold THEN Finish("matched", CHOOSE t \in sel.texts : TRUE) ELSE Reject
    /\ Unmoved /\ UNCHANGED <<indexes, known>>

Release ==
    /\ sel.pc = "done"
    /\ sel' = NoSel
    /\ Unmoved /\ UNCHANGED <<indexes, known>>

-----------------------------------------------------------------------------
World ==
    \/ \E p \in Pids, s \in Sessions : StartProvider(p, s) \/ StartWorker(p, s)
    \/ \E p \in Pids : StartViewer(p) \/ Exit(p)
    \/ \E s \in Sessions : ChangeSession(s) \/ AppendPart(s) \/ Rotate(s)
    \/ \E s \in Sessions, line \in NewLines : AppendLine(s, line)
    \/ PrintRow
    \/ ClearHistory

Hook == \E h \in Hooks : HookStarts(h) \/ HookLocks(h) \/ HookWrites(h) \/ HookKilled(h)

Selection ==
    \/ \E row \in 0..MaxRow : Select(row)
    \/ Detect \/ DetectFails \/ Load \/ ResolveBinding \/ Open \/ Read \/ Rebind \/ Answer
    \/ List \/ ListFails \/ OpenWorker \/ ReadWorker \/ Recheck \/ AnswerWorker
    \/ Release

Next == World \/ Hook \/ Selection

Spec == Init /\ [][Next]_vars

-----------------------------------------------------------------------------
(* Properties                                                              *)

EventType == [pc : {"waiting"}, session : Sessions, pid : Pids, start : Nat, ended : BOOLEAN,
              at : Nat \cup {None}, alternate : BOOLEAN, time : Nat \cup {None}]
RangeOK(rs) ==
    /\ Len(rs) <= MaxRanges
    /\ \A i \in DOMAIN rs : /\ rs[i].start \in Nat /\ rs[i].end \in Nat \cup {None}
                            /\ rs[i].session \in Codex
                            /\ rs[i].end = None => i = Len(rs)
CacheOK(c) ==
    \/ c = None
    \/ /\ c.session \in Sessions /\ c.pid \in Pids /\ c.generation \in 1..MaxHooks
       /\ c.session \in Claude => ~c.unavailable /\ c.ranges = <<>>
       /\ RangeOK(c.ranges)

(* The lock's owner is a hook that has read the binding; a binding file has *)
(* at most MaxRanges ranges, of codex sessions, and only the last is open;  *)
(* indexes are of different sessions, at most MaxIndexes of them, and never *)
(* hold more than MaxRecords records.                                       *)
TypeOK ==
    /\ DOMAIN proc = Pids /\ fg \in {p \in Pids : proc[p] # None} \cup {None}
    /\ pane \in [row : 0..MaxRow, alternate : BOOLEAN]
    /\ \A s \in Sessions : Len(file[s].lines) <= MaxLines
    /\ CacheOK(cache)
    /\ \A h \in Hooks : hooks[h].pc = "locked" <=> lock = h
    /\ \A h \in Hooks : CASE hooks[h].pc = "waiting" -> hooks[h] \in EventType
                         [] hooks[h].pc = "locked" -> hooks[h].event \in EventType
                         [] OTHER -> hooks[h] = NoHook
    /\ Len(indexes) <= MaxIndexes
    /\ \A i, j \in DOMAIN indexes : indexes[i].key[1] = indexes[j].key[1] => i = j
    /\ \A i \in DOMAIN indexes : Cardinality(indexes[i].records) <= MaxRecords

(* Hooks of several events run at once, and may be killed: each binding     *)
(* written is one generation newer than the one it replaced and of a later  *)
(* event, so a generation names one binding, the key of a transcript index. *)
(* A late event of a session whose end is recorded does not revive it       *)
(* (update_binding: flock, eventTimeNs, terminalEvent).                     *)
BindingsAdvance ==
    [][cache' # cache => /\ Generation(cache') = Generation(cache) + 1
                         /\ EventTime(cache') > EventTime(cache)
                         /\ SameProcess(cache, cache') /\ ~cache.active => ~cache'.active]_vars

(* Whatever updates failed or were overtaken, an index holds the last       *)
(* records below its offset, each once, and none above, so that the next    *)
(* update remembers none twice (TranscriptIndex.update restores its state   *)
(* on every exception).                                                     *)
Written(records) == {<<r.ordinal, r.text>> : r \in records}
IndexExact ==
    \A i \in DOMAIN indexes :
        LET x == indexes[i]
            f == file[x.key[1]]
            below == {r \in Parse(f.lines, 0, TRUE) : r.ordinal <= x.offset}
        IN  x.ino = f.ino => Written(x.records) = Written(Latest(below, Cardinality(x.records)))

(* A selection is decided while everything moves.  Text it is given was, at *)
(* one instant, the text of the only record drawn like it among those       *)
(* searched in the complete transcript that the pane was bound to, or of    *)
(* at most one in each that the agents' viewer may show; and rows of an     *)
(* alternate screen with a binding are never called ordinary output         *)
(* (authoritative_provider_match, _fleet_provider_match,                    *)
(* _provider_selection_locked).                                             *)
DecisionSound ==
    sel.pc = "done" =>
        /\ sel.decision = "matched" =>
              LET found == UNION {w.drawn : w \in sel.witness}
              IN  /\ \A w \in sel.witness : w.live /\ w.whole /\ Cardinality(w.drawn) <= 1
                  /\ {r.text : r \in found} = {sel.text}
                  /\ \A r \in found : ~r.unsupported
        /\ sel.alternate /\ sel.hadCache => sel.decision # "unowned"
=============================================================================
