------------------------------ MODULE Composer ------------------------------
(***************************************************************************)
(* The command line of one tmux session, edited from several browsers.     *)
(*                                                                         *)
(* The server keeps one record per session (draft, revision, provenance of *)
(* the command being typed, submitted request ids, locks) and every        *)
(* connection works on it through its own TmuxBridge.  A connection runs   *)
(* one command at a time; a command that writes to tmux waits for the      *)
(* write lock of the session and then for the reply of tmux, so commands   *)
(* of several connections interleave at these two points and at the        *)
(* submission lock, the seed lock and the prompt fence.                    *)
(*                                                                         *)
(* Texts are short sequences of characters and every character on the      *)
(* command line remembers who typed it.  The cursor stays at the end of    *)
(* the draft.  Geometry, pane and row identities are left out: a capture   *)
(* that does not fit refuses, which any attempt here may do as well.       *)
(* composer-history and composer-refresh are left out: the browser does    *)
(* not send them.                                                          *)
(***************************************************************************)
EXTENDS Integers, Sequences, FiniteSets

CONSTANTS
    Conns,         \* connections, each with its own TmuxBridge
    Tmux,          \* stands for somebody who types in another tmux client
    Drafts,        \* texts a browser synchronises
    Requests,      \* request ids of staged submissions
    TextOf,        \* the text a request submits
    MaxRemembered, \* submitted request ids kept (64 in the code)
    Events,        \* what else may happen
    MaxCommands,   \* bound on the commands of all connections
    MaxEvents      \* bound on how many events happen

ASSUME ConnAssumption == Tmux \notin Conns /\ "fence" \notin Conns
ASSUME RequestAssumption == /\ TextOf \in [Requests -> Seq(STRING)]
                            /\ "none" \notin Requests
ASSUME DraftAssumption == Drafts \subseteq Seq(STRING)
ASSUME MaxRememberedAssumption == MaxRemembered \in Nat \ {0}
ASSUME BoundAssumption == MaxCommands \in Nat /\ MaxEvents \in Nat

VARIABLES
    line,      \* what stands on the command line of the pane, and who typed it
    moved,     \* has the pane produced output since the last prompt fence
    session,   \* the state the server keeps for the session
    socket,    \* is the WebSocket of a connection open or lost
    conn,      \* the command a connection is executing
    commands,  \* commands begun so far
    spent,     \* events so far
    entered,   \* for each request the lines entered for it
    excused,   \* for each request how often its Enter was not recorded or forgotten
    acked,     \* requests whose browser saw composer-submitted
    clean,     \* nothing but composer commands, one draft editor at a time
    outside,   \* somebody typed in another tmux client
    crossed    \* a rename took effect while a submission was in flight

ghosts == <<entered, excused, acked, clean, outside, crossed>>
vars == <<line, moved, session, socket, conn, commands, spent, ghosts>>

-----------------------------------------------------------------------------
(* State *)

Texts == Drafts \cup {TextOf[r] : r \in Requests} \cup {<<>>}
Names == {"old", "new"}
None == [owner |-> Tmux]
Fence == "fence"     \* the entry of the fence task in the queue of the write lock
NoStart == -1
NoRequest == "none"

\* CommandProvenance: a draft typed through one bridge from a known position;
\* settled once a fence has captured its cells, cells is what they show.
Active(owner, name, draft, revision, start) ==
    [owner |-> owner, name |-> name, draft |-> draft, revision |-> revision,
     start |-> start, settled |-> FALSE, cells |-> <<>>]
\* UnavailableCommandProvenance: a draft whose position is not known.
Unavailable(owner, name, draft, revision) ==
    [owner |-> owner, name |-> name, draft |-> draft, revision |-> revision]

NoCommand ==
    [at |-> "idle", kind |-> "none", step |-> "none", mode |-> "none",
     name |-> "old", from |-> <<>>, text |-> <<>>, revision |-> 0,
     request |-> NoRequest, active |-> None, unavailable |-> None,
     start |-> NoStart, record |-> FALSE]

Init ==
    /\ line = <<>>
    /\ moved = FALSE
    /\ session = [name |-> "old", draft |-> <<>>, revision |-> 0,
                  tracked |-> FALSE, synced |-> FALSE, startAllowed |-> TRUE,
                  submitted |-> <<>>, submitters |-> <<>>, writers |-> <<>>,
                  current |-> {}, active |-> None, unavailable |-> None,
                  accepted |-> {}, fence |-> "none", fenced |-> None]
    /\ socket = [c \in Conns |-> "open"]
    /\ conn = [c \in Conns |-> NoCommand]
    /\ commands = 0
    /\ spent = 0
    /\ entered = [r \in Requests |-> <<>>]
    /\ excused = [r \in Requests |-> 0]
    /\ acked = {}
    /\ clean = TRUE
    /\ outside = FALSE
    /\ crossed = FALSE

-----------------------------------------------------------------------------
(* Editing the line *)

Shorter(m, n) == IF m < n THEN m ELSE n
Longest(S) == CHOOSE n \in S : \A m \in S : m <= n

CommonPrefix(s, t) ==
    Longest({n \in 0..Shorter(Len(s), Len(t)) : \A i \in 1..n : s[i] = t[i]})
CommonSuffix(s, t, prefix) ==
    Longest({n \in 0..(Shorter(Len(s), Len(t)) - prefix) :
                \A i \in 0..(n - 1) : s[Len(s) - i] = t[Len(t) - i]})

Typed(text, by) == [i \in 1..Len(text) |-> [ch |-> text[i], by |-> by]]
Chars(cells) == [i \in 1..Len(cells) |-> cells[i].ch]

\* What the keys that turn the draft from into the draft to do to the line,
\* whatever the line really is: left arrows, backspaces, text, right arrows.
Edited(cells, from, to, by) ==
    LET prefix == CommonPrefix(from, to)
        suffix == CommonSuffix(from, to, prefix)
        kept == Shorter(suffix, Len(cells))
        at == Len(cells) - kept
        start == at - Shorter(Len(from) - prefix - suffix, at)
    IN SubSeq(cells, 1, start)
       \o Typed(SubSeq(to, prefix + 1, Len(to) - suffix), by)
       \o SubSeq(cells, at + 1, Len(cells))

-----------------------------------------------------------------------------
(* The record of the session.  Operators on it take and return the record;  *)
(* the lock queues are FIFO and their head holds the lock.                  *)

\* Mutant: a cancelled fence stays in the queue of the write lock.
WithoutNothing(queue, entry) == queue
\* An entry is in a queue once at most.
Without(queue, entry) ==
    LET at == {i \in DOMAIN queue : queue[i] = entry}
        i == CHOOSE j \in at : TRUE
    IN IF at = {} THEN queue
       ELSE SubSeq(queue, 1, i - 1) \o SubSeq(queue, i + 1, Len(queue))
Queued(s, entry) == [s EXCEPT !.writers = Append(@, entry)]
Released(s) == [s EXCEPT !.writers = Tail(@)]

CancelFence(s) ==
    [s EXCEPT !.fence = "none", !.fenced = None, !.writers = Without(@, Fence)]
MarkUnavailable(s, u) ==
    [CancelFence(s) EXCEPT !.active = None, !.unavailable = u]
\* The tracking generation moves on: whoever read it before sees another one.
InvalidateActive(s) ==
    [CancelFence(s) EXCEPT !.current = {}, !.active = None, !.unavailable = None]
ReadGeneration(s, c) == [s EXCEPT !.current = @ \cup {c}]
ScheduleFence(s) ==
    [CancelFence(s) EXCEPT !.fence = "waiting", !.fenced = s.active]

Later(s, revision) ==
    [s EXCEPT !.revision = IF @ < revision THEN revision ELSE @]
ResetTracking(s, startAllowed) ==
    [InvalidateActive(s) EXCEPT !.draft = <<>>, !.tracked = FALSE,
                                !.synced = FALSE, !.startAllowed = startAllowed]
\* Code that kept the name of the session over an await: after a rename it
\* works on a fresh record that nobody else uses.
ByName(name, s, changed) == IF name = s.name THEN changed ELSE s

\* Mutant: any connection continues the command of another one.
ContinuesForAnyone(s, c, o) ==
    /\ s.active # None
    /\ s.active.draft = s.draft
    /\ s.tracked /\ s.synced
    /\ o.revision > s.active.revision
\* The three ways a synchronised draft may keep or get its provenance.
CanContinue(s, c, o) ==
    /\ s.active # None
    /\ s.active.owner = c /\ s.active.name = o.name
    /\ s.active.draft = s.draft
    /\ s.active.revision = s.revision
    /\ s.tracked /\ s.synced
    /\ o.revision > s.active.revision
CanContinueUnavailable(s, c, o) ==
    /\ s.unavailable # None
    /\ s.unavailable.owner = c /\ s.unavailable.name = o.name
    /\ s.unavailable.draft = s.draft
    /\ s.unavailable.revision = s.revision
    /\ s.tracked /\ s.synced
CanStart(s, o) ==
    /\ s.active = None /\ s.unavailable = None
    /\ s.startAllowed /\ ~s.tracked
    /\ s.draft = <<>> /\ o.text # <<>>
    /\ o.revision > 0

\* A plan is the record of the session and the command, up to its next await.
Plan(s, o) == [session |-> s, command |-> o]
Done(s, c) == Plan([s EXCEPT !.current = @ \ {c}], NoCommand)

PlanCommit(s, c, o) ==
    LET mayAccept == /\ s.active # None
                     /\ s.active.owner = c
                     /\ s.active.draft = s.draft
                     /\ s.active.revision = s.revision
                     /\ s.tracked /\ s.synced
                     /\ o.revision > s.active.revision
        t == IF mayAccept THEN s ELSE InvalidateActive(s)
        p == [o EXCEPT !.step = "commit", !.name = s.name, !.start = NoStart,
                       !.mode = IF mayAccept THEN "accept" ELSE "plain",
                       !.active = t.active, !.unavailable = s.unavailable]
    IN IF mayAccept THEN Plan(ReadGeneration(t, c), [p EXCEPT !.at = "seed"])
                    ELSE Plan(Queued(t, c), [p EXCEPT !.at = "write"])

\* settle_active_provenance_fence: the commit goes on when no fence is pending.
SettleThenCommit(s, c, o) ==
    IF s.fence = "none" THEN PlanCommit(s, c, o)
                        ELSE Plan(s, [o EXCEPT !.at = "fence"])

StoredDraft(s, o) ==
    [Later(s, o.revision) EXCEPT !.draft = o.text, !.tracked = TRUE,
                                 !.synced = TRUE, !.startAllowed = FALSE]
AfterSync(s, c, o) ==
    IF o.kind = "submit" THEN SettleThenCommit(StoredDraft(s, o), c, o)
                         ELSE Done(StoredDraft(s, o), c)

PlanSync(s, c, o, direct) ==
    LET mode == IF direct /\ CanStart(s, o) THEN "start"
                ELSE IF direct /\ CanContinue(s, c, o) THEN "continue"
                ELSE IF direct /\ CanContinueUnavailable(s, c, o) THEN "unavailable"
                ELSE "plain"
        unchanged == o.text = s.draft
        t == IF mode # "plain" THEN ReadGeneration(s, c)
             ELSE IF unchanged /\ s.unavailable # None THEN s
             ELSE InvalidateActive(s)
        p == [o EXCEPT !.step = "sync", !.mode = mode, !.from = s.draft,
                       !.active = IF mode = "continue" THEN s.active ELSE None,
                       !.unavailable = s.unavailable]
    IN CASE mode = "start" -> Plan(t, [p EXCEPT !.at = "seed"])
         [] mode = "continue" ->
                Plan(Queued(CancelFence(t), c), [p EXCEPT !.at = "write"])
         [] mode = "plain" /\ unchanged -> AfterSync(t, c, p)
         [] OTHER -> Plan(Queued(t, c), [p EXCEPT !.at = "write"])

-----------------------------------------------------------------------------
(* After the reply of tmux: the write lock is released and the command goes  *)
(* on to its next await without yielding.                                    *)

Unknown(s, c, o) == Unavailable(c, o.name, o.text, o.revision)

SyncReplied(s, c, o) ==
    LET same == c \in s.current
        started == Active(c, s.name, o.text, o.revision, o.start)
        continued == [o.active EXCEPT !.draft = o.text, !.revision = o.revision,
                                      !.settled = FALSE, !.cells = <<>>]
        known == [o.unavailable EXCEPT !.draft = o.text,
                        !.revision = IF @ < o.revision THEN o.revision ELSE @]
    IN CASE o.mode = "start" ->
              IF same /\ o.start # NoStart /\ s.active = None /\ s.unavailable = None
              THEN ScheduleFence([s EXCEPT !.active = started])
              ELSE MarkUnavailable(s, Unknown(s, c, o))
         [] o.mode = "continue" ->
              IF same /\ s.active = o.active
              THEN ScheduleFence([s EXCEPT !.active = continued])
              ELSE MarkUnavailable(s, Unknown(s, c, o))
         [] o.mode = "unavailable" ->
              IF same /\ s.unavailable = o.unavailable
              THEN [s EXCEPT !.unavailable = known]
              ELSE MarkUnavailable(s, known)
         [] OTHER -> s

\* Of an accepted Enter: the record, and the command is no longer active.
EnterReplied(s, c, o) ==
    IF o.mode # "accept" \/ s.active # o.active THEN s
    ELSE [s EXCEPT !.active = None,
                   !.accepted = IF o.record /\ c \in s.current
                                THEN @ \cup {[owner |-> c, draft |-> o.active.draft,
                                              cells |-> o.active.cells]}
                                ELSE @]
\* Mutant: the draft is not forgotten after Enter.
CommittedKeepsDraft(s, o) == Later(s, o.revision)
Committed(s, o) ==
    LET t == Later(s, o.revision)
    IN ByName(o.name, t, ResetTracking(t, TRUE))

\* Mutant: the oldest ids are kept instead of the newest.
RemembersOldest(submitted, request) ==
    LET all == Append(submitted, request)
    IN SubSeq(all, 1, IF Len(all) > MaxRemembered THEN MaxRemembered ELSE Len(all))
\* The request ids kept: the last MaxRemembered.
Remembered(submitted, request) ==
    LET all == Append(submitted, request)
    IN SubSeq(all, IF Len(all) > MaxRemembered
                   THEN Len(all) - MaxRemembered + 1 ELSE 1, Len(all))
Known(s) == {s.submitted[i] : i \in DOMAIN s.submitted}
Submitted(s, o) ==
    [s EXCEPT !.submitted = Remembered(@, o.request), !.submitters = Tail(@)]

Replied(s, c, o) ==
    LET t == Released(s)
    IN CASE o.step = "sync" -> AfterSync(SyncReplied(t, c, o), c, o)
         [] o.step = "commit" ->
              LET u == Committed(EnterReplied(t, c, o), o)
              IN Done(IF o.kind = "submit" THEN Submitted(u, o) ELSE u, c)
         [] o.step = "raw" ->
              Done(ByName(o.name, t, InvalidateActive(t)), c)
         [] o.step = "clear" ->
              Done(ByName(o.name, t, Later(ResetTracking(t, TRUE), o.revision)), c)

\* Mutants: a failed submission is remembered as submitted; it keeps the
\* submission lock.
FailedIsRemembered(s, c, o) ==
    LET t == Released(s)
    IN InvalidateActive(IF o.kind = "submit" THEN Submitted(t, o) ELSE t)
FailedKeepsLock(s, c, o) == InvalidateActive(Released(s))
\* The write raised: the locks are released and the handler goes down.
Failed(s, c, o) ==
    LET t == [Released(s) EXCEPT
                 !.submitters = IF o.kind = "submit" THEN Tail(@) ELSE @]
    IN IF o.step = "sync" /\ o.mode # "plain" THEN MarkUnavailable(t, Unknown(s, c, o))
       ELSE IF o.step \notin {"sync", "commit"} THEN t
       ELSE IF o.unavailable = None THEN InvalidateActive(t)
       ELSE MarkUnavailable(t, o.unavailable)

-----------------------------------------------------------------------------
(* Commands of a connection.  A command takes the name of the session when   *)
(* it begins; its revision is newer than the record's, or as old.            *)

Follows(c, plan) ==
    /\ session' = plan.session
    /\ conn' = [conn EXCEPT ![c] = plan.command]

\* Does a command of this kind edit the line outside the submission lock?
Edits(kind) == kind \in {"sync", "clear", "enter"}
InFlight(c) == conn[c].at # "idle"
Overlaps(c, kind) ==
    /\ kind # "rename"
    /\ \E d \in Conns \ {c} :
          /\ InFlight(d) /\ conn[d].kind # "rename"
          /\ Edits(kind) \/ Edits(conn[d].kind)

Begins(c, kind) ==
    /\ ~InFlight(c) /\ socket[c] = "open"
    /\ commands < MaxCommands
    /\ commands' = commands + 1
    /\ clean' = (clean /\ kind # "input" /\ ~Overlaps(c, kind))
    /\ UNCHANGED <<line, moved, socket, spent, entered, excused, acked, outside, crossed>>
Command(kind, text, revision) ==
    [NoCommand EXCEPT !.kind = kind, !.name = session.name, !.text = text,
                      !.revision = revision]
NewRevision == session.revision + 1
\* Another browser may be behind; where it can matter, both are tried.
Revisions == {session.revision, NewRevision} \ {0}

\* composer-sync: the browser's draft changed.
Sync(c) ==
    /\ Begins(c, "sync")
    /\ \E text \in Drafts, revision \in Revisions :
          Follows(c, PlanSync(session, c, Command("sync", text, revision), TRUE))

\* composer-enter without a value: Enter on the draft as it stands.
Enter(c) ==
    /\ Begins(c, "enter")
    /\ \E revision \in Revisions :
          Follows(c, SettleThenCommit(session, c, Command("enter", <<>>, revision)))

\* composer-enter with a value and a request id: wait for the submission lock.
\* The browser sends it again after a reconnect while it is not acknowledged.
Submit(c) ==
    /\ Begins(c, "submit")
    /\ \E request \in Requests \ acked :
          Follows(c, Plan([session EXCEPT !.submitters = Append(@, c)],
                          [Command("submit", TextOf[request], NewRevision)
                              EXCEPT !.at = "submission", !.request = request]))

\* input: keys that reach the pane as they are.
Input(c) ==
    /\ "input" \in Events
    /\ Begins(c, "input")
    /\ Follows(c, Plan(Queued(ResetTracking(session, FALSE), c),
                       [Command("input", <<"k">>, 0) EXCEPT !.at = "write",
                                                            !.step = "raw"]))

\* composer-force-clear: wipe the line.
ForceClear(c) ==
    /\ "clear" \in Events
    /\ Begins(c, "clear")
    /\ Follows(c, Plan(Queued(InvalidateActive(session), c),
                       [Command("clear", <<>>, NewRevision) EXCEPT !.at = "write",
                                                                   !.step = "clear"]))

\* composer-reset: forget the draft, whatever stands on the line.
ResetDraft(c) ==
    /\ "reset" \in Events
    /\ ~InFlight(c) /\ socket[c] = "open"
    /\ commands < MaxCommands
    /\ commands' = commands + 1
    /\ clean' = FALSE
    /\ session' = ResetTracking(Later(session, NewRevision), FALSE)
    /\ UNCHANGED <<line, moved, socket, conn, spent, entered, excused, acked, outside, crossed>>

\* rename-session: wait for the write lock under the old name.
Rename(c) ==
    /\ "rename" \in Events
    /\ session.name = "old"
    /\ Begins(c, "rename")
    /\ Follows(c, Plan(Queued(session, c),
                       [Command("rename", <<>>, 0) EXCEPT !.at = "write",
                                                          !.step = "rename"]))

-----------------------------------------------------------------------------
(* Steps of a command *)

Acknowledged(c, request) ==
    acked' = IF socket[c] = "open" THEN acked \cup {request} ELSE acked

\* The submission lock is free: a request that was already submitted is only
\* acknowledged; a multiline text may be rejected without paste mode.
EnterSubmission(c) ==
    LET o == conn[c] IN
    /\ o.at = "submission"
    /\ Head(session.submitters) = c
    /\ IF o.request \in Known(session)
       THEN /\ Follows(c, Done([session EXCEPT !.submitters = Tail(@)], c))
            /\ Acknowledged(c, o.request)
       ELSE /\ \/ Follows(c, PlanSync(session, c, o, FALSE))
               \/ /\ "reject" \in Events
                  /\ Follows(c, Done([session EXCEPT !.submitters = Tail(@)], c))
            /\ acked' = acked
    /\ UNCHANGED <<line, moved, socket, commands, spent, entered, excused, clean, outside, crossed>>

\* settle_active_provenance_fence returns.
FenceAwaited(c) ==
    /\ conn[c].at = "fence"
    /\ session.fence = "none"
    /\ Follows(c, PlanCommit(session, c, conn[c]))
    /\ UNCHANGED <<line, moved, socket, commands, spent, ghosts>>

\* The seed lock of the bridge is free: queue for the write lock.
TakeSeedLock(c) ==
    /\ conn[c].at = "seed"
    /\ Follows(c, Plan(Queued(session, c), [conn[c] EXCEPT !.at = "write"]))
    /\ UNCHANGED <<line, moved, socket, commands, spent, ghosts>>

HoldsWriteLock(c, at) == conn[c].at = at /\ Head(session.writers) = c
Captures(o) == o.mode \in {"start", "accept"}
AsFenced(c, o) ==
    /\ o.active.settled /\ ~moved
    /\ c \in session.current
    /\ session.active = o.active

\* With the lock held, a start captures where the text will stand, and an
\* accepted Enter compares the pane with what the fence captured; either may
\* find the pane too busy and go on without.
Capture(c) ==
    LET o == conn[c] IN
    /\ HoldsWriteLock(c, "write") /\ Captures(o)
    /\ \E got \in IF o.mode = "start" \/ AsFenced(c, o) THEN BOOLEAN ELSE {FALSE} :
          conn' = [conn EXCEPT
                      ![c].at = "send",
                      ![c].record = got /\ o.mode = "accept",
                      ![c].start = IF got /\ o.mode = "start" THEN Len(line) ELSE NoStart]
    /\ UNCHANGED <<line, moved, session, socket, commands, spent, ghosts>>

LineAfter(o, c) ==
    CASE o.step = "sync" -> Edited(line, o.from, o.text, c)
      [] o.step = "raw" -> line \o Typed(o.text, c)
      [] OTHER -> <<>>

\* tmux gets the keys.
Deliver(c) ==
    LET o == conn[c] IN
    /\ HoldsWriteLock(c, IF Captures(o) THEN "send" ELSE "write")
    /\ o.step # "rename"
    /\ conn' = [conn EXCEPT ![c].at = "reply"]
    /\ line' = LineAfter(o, c)
    /\ moved' = (moved \/ line' # line \/ o.step = "commit")
    /\ entered' = IF o.step = "commit" /\ o.request # NoRequest
                  THEN [entered EXCEPT ![o.request] = Append(@, Chars(line))]
                  ELSE entered
    /\ UNCHANGED <<session, socket, commands, spent, excused, acked, clean, outside, crossed>>

\* tmux has replied.
Reply(c) ==
    LET o == conn[c] IN
    /\ HoldsWriteLock(c, "reply")
    /\ Follows(c, Replied(session, c, o))
    /\ IF o.step = "commit" /\ o.kind = "submit" THEN Acknowledged(c, o.request)
                                                 ELSE acked' = acked
    /\ excused' = [r \in Requests |->
                      IF r \in Known(session) \ Known(session') THEN excused[r] + 1
                                                              ELSE excused[r]]
    /\ UNCHANGED <<line, moved, socket, commands, spent, entered, clean, outside, crossed>>

\* tmux renames the session and the server moves its record, under the lock.
RenameReplied(c) ==
    /\ HoldsWriteLock(c, "write") /\ conn[c].step = "rename"
    /\ LET s == Released(session)
           renamed(p) == IF p = None THEN None ELSE [p EXCEPT !.name = "new"]
           transferred == [s EXCEPT !.name = "new", !.active = renamed(@),
                              !.unavailable = renamed(@)]
       IN Follows(c, Done(ByName(conn[c].name, s, transferred), c))
    /\ crossed' = (crossed \/ \E d \in Conns :
                                conn[d].kind \in {"submit", "enter", "clear"})
    /\ UNCHANGED <<line, moved, socket, commands, spent, entered, excused, acked, clean, outside>>

\* The write fails: tmux refuses the keys, or its reply does not come in time.
\* The handler of the connection goes down with it.
FailWrite(c) ==
    /\ "failure" \in Events /\ spent < MaxEvents
    /\ conn[c].step # "rename"
    /\ \E at \in {"write", "send", "reply"} : HoldsWriteLock(c, at)
    /\ Follows(c, Done(Failed(session, c, conn[c]), c))
    /\ socket' = [socket EXCEPT ![c] = "lost"]
    /\ spent' = spent + 1
    /\ clean' = FALSE
    /\ excused' = IF conn[c].at = "reply" /\ conn[c].step = "commit" /\ conn[c].request # NoRequest
                  THEN [excused EXCEPT ![conn[c].request] = @ + 1] ELSE excused
    /\ UNCHANGED <<line, moved, commands, entered, acked, outside, crossed>>

-----------------------------------------------------------------------------
(* The prompt fence: after a direct edit, capture the cells of the command   *)
(* once the pane is quiet.                                                   *)

QueueFence ==
    /\ session.fence = "waiting"
    /\ session' = [Queued(session, Fence) EXCEPT !.fence = "queued"]
    /\ UNCHANGED <<line, moved, socket, conn, commands, spent, ghosts>>

SettleFence ==
    /\ session.fence = "queued" /\ Head(session.writers) = Fence
    /\ session.active = session.fenced
    /\ Len(line) > session.active.start
    /\ session' = [CancelFence(session) EXCEPT
                      !.active.settled = TRUE,
                      !.active.cells = SubSeq(line, session.active.start + 1, Len(line))]
    /\ moved' = FALSE
    /\ UNCHANGED <<line, socket, conn, commands, spent, ghosts>>

\* The command changed meanwhile, or the pane never was quiet.
GiveUpFence ==
    /\ \/ session.fence = "waiting"
       \/ session.fence = "queued" /\ Head(session.writers) = Fence
    /\ session' = CancelFence(session)
    /\ UNCHANGED <<line, moved, socket, conn, commands, spent, ghosts>>

-----------------------------------------------------------------------------
(* The environment *)

Happens(event) == event \in Events /\ spent < MaxEvents /\ spent' = spent + 1

\* Somebody types in another tmux client.
TypeInTmux ==
    /\ Happens("foreign")
    /\ \E ch \in {"x"} : line' = line \o Typed(<<ch>>, Tmux)
    /\ moved' = TRUE
    /\ clean' = FALSE
    /\ outside' = TRUE
    /\ UNCHANGED <<session, socket, conn, commands, entered, excused, acked, crossed>>

\* A resize, a pane change or an attach: the layout generation moves on.
ChangeLayout ==
    /\ Happens("layout")
    /\ session' = InvalidateActive(session)
    /\ UNCHANGED <<line, moved, socket, conn, commands, ghosts>>

\* The WebSocket drops; a command in flight is not cancelled.
Drop(c) ==
    /\ Happens("drop")
    /\ socket[c] = "open"
    /\ socket' = [socket EXCEPT ![c] = "lost"]
    /\ UNCHANGED <<line, moved, session, conn, commands, ghosts>>

\* The handler ends: TmuxBridge.close invalidates what the bridge owns.  The
\* browser connects again, with a new bridge, before its next command.
Close(c) ==
    /\ socket[c] = "lost" /\ ~InFlight(c)
    /\ socket' = [socket EXCEPT ![c] = "open"]
    /\ session' = IF c \in {session.active.owner, session.unavailable.owner}
                  THEN InvalidateActive(session) ELSE session
    /\ UNCHANGED <<line, moved, conn, commands, spent, ghosts>>

-----------------------------------------------------------------------------
Progress(c) ==
    \/ EnterSubmission(c) \/ FenceAwaited(c) \/ TakeSeedLock(c) \/ Capture(c)
    \/ Deliver(c) \/ Reply(c) \/ RenameReplied(c)
FenceStep == QueueFence \/ SettleFence \/ GiveUpFence
Next ==
    \/ \E c \in Conns :
          \/ Sync(c) \/ Enter(c) \/ Submit(c) \/ Input(c) \/ ForceClear(c)
          \/ ResetDraft(c) \/ Rename(c)
          \/ Progress(c) \/ FailWrite(c) \/ Drop(c) \/ Close(c)
    \/ FenceStep \/ TypeInTmux \/ ChangeLayout

Spec == Init /\ [][Next]_vars

\* The event loop does not idle while a task is ready, and tmux replies or the
\* wait for its reply times out.
Work == FenceStep \/ \E c \in Conns : Progress(c)
FairSpec == Spec /\ WF_vars(Work)

-----------------------------------------------------------------------------
(* Properties *)

\* The type of the state; a queue holds an entry at most once and the head of
\* the submission queue is the only connection past the submission lock.
TypeOK ==
    /\ \A i \in DOMAIN line : line[i].by \in Conns \cup {Tmux}
    /\ session.name \in Names /\ session.draft \in Texts
    /\ session.revision \in 0..MaxCommands
    /\ Len(session.submitted) <= MaxRemembered
    /\ \A i, j \in DOMAIN session.writers :
          session.writers[i] = session.writers[j] => i = j
    /\ \A i \in DOMAIN session.writers :
          IF session.writers[i] = Fence THEN session.fence = "queued"
          ELSE conn[session.writers[i]].at \in {"write", "send", "reply"}
    /\ session.active # None => session.unavailable = None
    /\ \A c \in Conns : conn[c].kind = "submit" /\ conn[c].at # "submission"
                          => Head(session.submitters) = c

\* A staged submission is entered at most once, however often the browser
\* sends it again and over however many connections, unless the write of its
\* Enter failed after tmux had it, or its id is no longer among the remembered
\* (commit_mobile_composer, submittedRequests).
EnteredOnce == \A r \in Requests : Len(entered[r]) <= 1 + excused[r]

\* composer-submitted is sent only for a request whose text was entered.
AckedEntered == \A r \in acked : entered[r] # <<>>

\* The line entered for a submission is its text, as long as only composer
\* commands reach the pane, one connection edits the draft at a time and no
\* rename falls into a commit: the draft the server keeps is what the keys it
\* sends are computed from, and they meet a line that holds exactly that draft.
SubmittedVerbatim ==
    clean /\ ~crossed =>
        \A r \in Requests : \A i \in DOMAIN entered[r] : entered[r][i] = TextOf[r]

\* The same without the exception for renames, as the review claims it:
\* staged drafts survive renames.
SubmittedVerbatimRenamed ==
    clean => \A r \in Requests : \A i \in DOMAIN entered[r] : entered[r][i] = TextOf[r]

\* The cells kept for an accepted command show only what the connection that
\* owns the command typed, or somebody in tmux before the fence; if nobody
\* types there and no rename falls into a commit, they show its draft.
\* Selections are answered from these records.
AcceptedIsTyped ==
    \A a \in session.accepted :
        LET typists == {a.cells[i].by : i \in DOMAIN a.cells} IN
        /\ typists \subseteq {a.owner, Tmux}
        /\ ~outside /\ ~crossed => Chars(a.cells) = a.draft

\* Can the command of a connection take its next step?
MayProceed(c) ==
    LET o == conn[c] IN
    \/ o.at = "submission" /\ Head(session.submitters) = c
    \/ o.at = "fence" /\ session.fence = "none"
    \/ o.at = "seed"
    \/ HoldsWriteLock(c, "write")
    \/ HoldsWriteLock(c, "send") /\ Captures(o) /\ o.step # "rename"
    \/ HoldsWriteLock(c, "reply") /\ o.step \in {"sync", "commit", "raw", "clear"}
FenceMayProceed ==
    \/ session.fence = "waiting"
    \/ session.fence = "queued" /\ Head(session.writers) = Fence

\* Commands never all wait for one another on the submission lock, the prompt
\* fence and the write lock: as long as one is in flight, some command or the
\* fence can take its next step.  Whoever gave up, failed or was cancelled has
\* left every queue it was in.
NobodyBlocked ==
    (\E c \in Conns : InFlight(c)) => FenceMayProceed \/ \E c \in Conns : MayProceed(c)

\* Commands end: the connections do not block one another for ever on the
\* submission lock, the prompt fence, the seed locks and the write lock.
CommandsFinish == (\E c \in Conns : InFlight(c)) ~> (\A c \in Conns : ~InFlight(c))
=============================================================================
