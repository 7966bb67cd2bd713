---------------------------- MODULE TerminalSeed ----------------------------
(***************************************************************************)
(* One browser connected to one TmuxBridge: how the bytes of a tmux pane   *)
(* reach the screen of the browser exactly once and in order.              *)
(*                                                                         *)
(* The server (src/server.py) numbers the bytes it reads from the tmux     *)
(* control stream with a growing offset.  A reseed holds the output,       *)
(* captures the pane, sends the capture as a seed that stands for every    *)
(* byte below a cutoff, replays the bytes held since, and reopens live     *)
(* forwarding; every stage waits for an acknowledgement of the browser     *)
(* (src/static/app.js).  Three tasks start reseeds of one bridge: the      *)
(* message loop of the connection (main), the tabs watcher (watch) and the *)
(* task that retries a degraded seed (stabilize).                          *)
(*                                                                         *)
(* Bytes are abstracted to their offsets and a record is one byte long.    *)
(* What a pane shows is the number of its bytes the content includes,      *)
(* counted in bridge offsets.  layoutGeneration is left out: the code only *)
(* ever increments it together with the epoch.                             *)
(***************************************************************************)
EXTENDS Integers, Sequences, FiniteSets

CONSTANTS
    Sessions,         \* tmux sessions
    Panes,            \* tmux panes
    SessionOf,        \* the session a pane belongs to
    NoPane,           \* stands for the absence of a pane
    NoSession,        \* stands for the absence of a session
    MaxBytes,         \* bound on the bytes the panes ever produce
    Disturbances,     \* the kinds of environment events that may happen
    MaxDisturbances   \* bound on how many of them happen

ASSUME SessionAssumption == SessionOf \in [Panes -> Sessions]
ASSUME PaneAssumption == NoPane \notin Panes
ASSUME BoundAssumption == MaxBytes \in Nat /\ MaxDisturbances \in Nat

VARIABLES
    \* --- tmux and the environment ---
    activePane,   \* the active pane of each session
    lag,          \* bytes of each pane the control client has not read yet
    produced,     \* bytes produced so far
    spent,        \* environment events so far
    \* --- server ---
    bridge,       \* the TmuxBridge of the connection
    sendLock,     \* who holds bridge.send_lock
    pending,      \* records its holder still has to send
    job,          \* what the holder of bridge.seed_lock is doing
    main,         \* the message loop of the connection
    watcher,      \* the watch_tabs task
    stabilizer,   \* is the stabilize task scheduled
    \* --- network ---
    connected,    \* is the WebSocket open
    toClient,     \* messages to the browser, and its message queue
    requests,     \* requests of the browser, and the incoming queue
    acks,         \* acknowledgements, which the receive loop applies at once
    \* --- browser ---
    client,       \* the terminal state of app.js
    screen        \* what xterm shows

tmuxVars == <<activePane, lag, produced, spent>>
serverVars == <<bridge, sendLock, pending, job, main, watcher, stabilizer>>
netVars == <<connected, toClient, requests, acks>>
clientVars == <<client, screen>>
vars == <<tmuxVars, serverVars, netVars, clientVars>>

-----------------------------------------------------------------------------
(* Messages *)

Kinds == {"live", "postseed", "selection-held"}
SeedReasons == {"initial", "session-switch", "history", "resize", "activity",
                "pane-change", "stabilize"}
\* Reasons whose reseed may resume the browser's buffer instead of replacing it.
Resumable == {"resize", "activity"}

SeedStart(epoch) == [type |-> "seed-start", epoch |-> epoch]
SeedResume(epoch, pane, cutoff) ==
    [type |-> "seed-resume", epoch |-> epoch, pane |-> pane, cutoff |-> cutoff]
\* seed-data and the seed-end that follows it.  content is what the captured
\* rows show; exact, which is not on the wire, that the server holds the cutoff
\* to be the exact point of the stream the capture stands for.
SeedData(epoch, pane, cutoff, content, exact) ==
    [type |-> "seed-data", epoch |-> epoch, pane |-> pane, cutoff |-> cutoff,
     content |-> content, exact |-> exact]
\* terminal-output; own, which is not on the wire, that the byte is a byte of
\* the pane the message names.
Output(epoch, pane, start, kind, own) ==
    [type |-> "terminal-output", epoch |-> epoch, pane |-> pane,
     start |-> start, kind |-> kind, own |-> own]
PostFlush(epoch) == [type |-> "post-flush", epoch |-> epoch]
SeedOpen(epoch, pane, cutoff) ==
    [type |-> "seed-open", epoch |-> epoch, pane |-> pane, cutoff |-> cutoff]
SelectionCheck(id) == [type |-> "selection-check", id |-> id]
SelectionResult(id, ok) == [type |-> "selection-result", id |-> id, ok |-> ok]
Ready(session) == [type |-> "ready", session |-> session]

ServerMessages ==
    [type: {"seed-start", "post-flush"}, epoch: Nat]
    \cup [type: {"seed-resume", "seed-open"}, epoch: Nat, pane: Panes, cutoff: Nat]
    \cup [type: {"seed-data"}, epoch: Nat, pane: Panes, cutoff: Nat,
          content: Nat, exact: BOOLEAN]
    \cup [type: {"terminal-output"}, epoch: Nat, pane: Panes, start: Nat,
          kind: Kinds, own: BOOLEAN]
    \cup [type: {"selection-check"}, id: Nat \ {0}]
    \cup [type: {"selection-result"}, id: Nat, ok: BOOLEAN]
    \cup [type: {"ready"}, session: Sessions]

Request(type) == [type |-> type]
SwitchRequest(session) == [type |-> "switch-session", session |-> session]
SelectionRequest(id, alternate) ==
    [type |-> "selection-request", id |-> id, epoch |-> client.epoch,
     cutoff |-> client.cutoff, revision |-> client.revision,
     alternate |-> alternate]

ClientRequests ==
    [type: {"history-reseed", "resize", "activity"}]
    \cup [type: {"switch-session"}, session: Sessions]
    \cup [type: {"selection-request"}, id: Nat \ {0}, epoch: Nat, cutoff: Nat,
          revision: Nat, alternate: BOOLEAN]

\* An acknowledgement names the message type it answers and its epoch or
\* request; ok is the "unchanged" of a selection-check-ack.
Ack(of, id, ok) == [of |-> of, id |-> id, ok |-> ok]
Acks == [of: {"seed-start", "seed-end", "post-flush", "selection-check"},
         id: Nat, ok: BOOLEAN]

-----------------------------------------------------------------------------
(* State *)

NoJob == [task |-> "none", pc |-> "idle", reason |-> "initial",
          resume |-> 0, candidate |-> 0, snap |-> 0]
Jobs == [task: {"none", "main", "watch", "stabilize"},
         pc: {"idle", "startAck", "capture", "verify", "linearize", "seedAck",
              "flush", "flushing", "flushAck", "selectionAck"},
         reason: SeedReasons, resume: Nat, candidate: Nat, snap: Nat]

NoSelection == [id |-> 0, epoch |-> 0, checkedAt |-> 0]

Bridges == [session: Sessions, pane: Panes, offset: Nat,
            phase: {"hold", "forward"}, held: SUBSET Nat, epoch: Nat,
            cutoff: Nat, degraded: BOOLEAN, hold: Nat,
            reading: Panes \cup {NoPane}, foreign: SUBSET Nat]
MainStates == [at: {"initial", "idle", "busy", "release", "switch", "closed"},
               id: Nat]
WatcherStates == [at: {"up", "waiting", "seeding", "down"},
                  next: Panes \cup {NoPane}]
\* selected and active are selectedSessionName and activeSessionName; ready is
\* applicationProtocolReady.
Clients == [selected: Sessions, active: Sessions \cup {NoSession},
            ready: BOOLEAN, pane: Panes \cup {NoPane}, epoch: Nat,
            cutoff: Nat, revision: Nat, authoritative: BOOLEAN,
            seedInFlight: BOOLEAN, reseedPending: BOOLEAN, queued: Nat,
            selections: Nat, selection: [id: Nat, epoch: Nat, checkedAt: Nat]]
Screens == [shown: Nat, torn: BOOLEAN, exact: BOOLEAN, painted: BOOLEAN]

TmuxTypeOK ==
    /\ activePane \in [Sessions -> Panes]
    /\ lag \in [Panes -> Nat]
    /\ produced \in Nat
    /\ spent \in Nat
ServerTypeOK ==
    /\ bridge \in Bridges
    /\ sendLock \in {"free", "flush", "release", "speech"}
    /\ pending \in SUBSET Nat
    /\ job \in Jobs
    /\ main \in MainStates
    /\ watcher \in WatcherStates
    /\ stabilizer \in BOOLEAN
NetTypeOK ==
    /\ connected \in BOOLEAN
    /\ toClient \in Seq(ServerMessages)
    /\ requests \in Seq(ClientRequests)
    /\ acks \in SUBSET Acks
ClientTypeOK ==
    /\ client \in Clients
    /\ screen \in Screens
TypeOK == TmuxTypeOK /\ ServerTypeOK /\ NetTypeOK /\ ClientTypeOK

\* TmuxBridge.__init__ and open: a fresh bridge on a session, output on hold.
NewBridge(session, epoch) ==
    [session |-> session, pane |-> activePane[session], offset |-> 0,
     phase |-> "hold", held |-> {}, epoch |-> epoch, cutoff |-> 0,
     degraded |-> FALSE, hold |-> 0, reading |-> NoPane, foreign |-> {}]

MainAt(place) == [at |-> place, id |-> 0]
WatcherAt(place) == [at |-> place, next |-> NoPane]

Init ==
    /\ activePane \in {f \in [Sessions -> Panes] :
                         \A s \in Sessions : SessionOf[f[s]] = s}
    /\ lag = [p \in Panes |-> 0]
    /\ produced = 0
    /\ spent = 0
    /\ \E s \in Sessions :
         /\ bridge = NewBridge(s, 0)
         /\ client = [selected |-> s, active |-> NoSession, ready |-> FALSE,
                      pane |-> NoPane, epoch |-> 0, cutoff |-> 0,
                      revision |-> 0, authoritative |-> FALSE,
                      seedInFlight |-> FALSE, reseedPending |-> FALSE,
                      queued |-> 0, selections |-> 0,
                      selection |-> NoSelection]
         /\ toClient = <<Ready(s)>>
    /\ sendLock = "free"
    /\ pending = {}
    /\ job = NoJob
    /\ main = MainAt("initial")
    /\ watcher = WatcherAt("up")
    /\ stabilizer = FALSE
    /\ connected = TRUE
    /\ requests = <<>>
    /\ acks = {}
    /\ screen = [shown |-> 0, torn |-> FALSE, exact |-> FALSE, painted |-> TRUE]

\* An environment event of this kind happens, within the bound.
Disturb(kind) ==
    /\ kind \in Disturbances
    /\ spent < MaxDisturbances
    /\ spent' = spent + 1

Send(message) == toClient' = Append(toClient, message)
\* Mutant: held records are replayed last first.
Greatest(offsets) == CHOOSE s \in offsets : \A t \in offsets : t <= s
Least(offsets) == CHOOSE s \in offsets : \A t \in offsets : s <= t
SeedLockFree == job.task = "none"

-----------------------------------------------------------------------------
(* tmux: panes produce bytes, users select panes.                          *)

\* A pane of the attached session prints a byte: it is on the pane at once, and
\* on its way to the control client.
PaneOutput(p) ==
    /\ connected
    /\ produced < MaxBytes
    /\ SessionOf[p] = bridge.session
    /\ produced' = produced + 1
    /\ lag' = [lag EXCEPT ![p] = @ + 1]
    /\ UNCHANGED <<activePane, spent, serverVars, netVars, clientVars>>

SelectPane(p) ==
    /\ Disturb("pane")
    /\ activePane[SessionOf[p]] # p
    /\ activePane' = [activePane EXCEPT ![SessionOf[p]] = p]
    /\ UNCHANGED <<lag, produced, serverVars, netVars, clientVars>>

\* What capture-pane sees of the bridge's pane, in bridge offsets: the bytes
\* already numbered and those still on their way.
PaneContent ==
    bridge.offset + lag[bridge.pane] + (IF bridge.reading = NoPane THEN 0 ELSE 1)

-----------------------------------------------------------------------------
(* The reader: read_loop, control_line and pane_bytes.                     *)

\* Mutants: output is held for a selection only, or never for one.
HoldsForSelectionOnly == bridge.hold # 0
HoldsForSeedOnly == bridge.phase = "hold" /\ bridge.hold = 0
HoldsOutput == bridge.phase = "hold"

\* The locked part of pane_bytes: number the byte, hold it or forward it.
Record(own) ==
    LET start == bridge.offset
        numbered == [bridge EXCEPT !.offset = @ + 1, !.reading = NoPane,
                                   !.foreign = IF own THEN @ ELSE @ \cup {start}]
    IN  IF HoldsOutput
        THEN /\ bridge' = [numbered EXCEPT !.held = @ \cup {start}]
             /\ UNCHANGED toClient
        ELSE /\ bridge' = numbered
             /\ Send(Output(bridge.epoch, bridge.pane, start, "live", own))

\* pane_bytes tests the pane before it asks for send_lock, and the read loop
\* waits for pane_bytes.
PassesPaneTest(p) == p = bridge.pane

\* Mutant: the reader does not take send_lock.
IgnoresSendLock == TRUE
MayNumber == sendLock = "free"

ReadOutput(p) ==
    /\ connected
    /\ bridge.reading = NoPane
    /\ lag[p] > 0
    /\ lag' = [lag EXCEPT ![p] = @ - 1]
    /\ IF ~PassesPaneTest(p) THEN UNCHANGED <<bridge, toClient>>
       ELSE IF MayNumber THEN Record(TRUE)
       ELSE /\ bridge' = [bridge EXCEPT !.reading = p]
            /\ UNCHANGED toClient
    /\ UNCHANGED <<activePane, produced, spent, sendLock, pending, job, main,
                   watcher, stabilizer, connected, requests, acks, clientVars>>

ResumeReading ==
    /\ bridge.reading # NoPane
    /\ MayNumber
    /\ Record(bridge.reading = bridge.pane)
    /\ UNCHANGED <<tmuxVars, sendLock, pending, job, main, watcher, stabilizer,
                   connected, requests, acks, clientVars>>

-----------------------------------------------------------------------------
(* Reseeds                                                                 *)

\* Held records a reseed keeps: only one that may resume the browser's buffer
\* keeps them, and only if they were held for a selection.
KeptBy(reason) ==
    IF reason \in Resumable /\ bridge.hold # 0 THEN bridge.held ELSE {}

\* reseed up to the wait for seed-start-ack; next is its next_pane_id.
BeginReseed(task, reason, next) ==
    LET kept == KeptBy(reason)
    IN  /\ SeedLockFree
        /\ sendLock = "free"
        /\ bridge' = [bridge EXCEPT !.hold = 0, !.phase = "hold", !.held = kept,
                                    !.pane = IF next = NoPane THEN @ ELSE next,
                                    !.epoch = @ + 1]
        /\ job' = [NoJob EXCEPT
                     !.task = task, !.pc = "startAck", !.reason = reason,
                     !.resume = IF kept = {} THEN bridge.offset ELSE Least(kept)]
        /\ Send(SeedStart(bridge.epoch + 1))
        /\ UNCHANGED <<tmuxVars, sendLock, pending, stabilizer, connected, acks,
                       clientVars>>

\* websocket_handler: the first reseed, and the one of switch_session.
MainReseed ==
    /\ main.at \in {"initial", "switch"}
    /\ BeginReseed("main", IF main.at = "initial" THEN "initial"
                           ELSE "session-switch", NoPane)
    /\ main' = MainAt("busy")
    /\ UNCHANGED <<watcher, requests>>

NextRequest(type) ==
    /\ main.at = "idle"
    /\ requests # <<>>
    /\ Head(requests).type = type
    /\ requests' = Tail(requests)

\* handle_command: history-reseed and resize always reseed.
HandleReseedRequest ==
    \E reason \in {"history", "resize"} :
      /\ NextRequest(IF reason = "history" THEN "history-reseed" ELSE "resize")
      /\ BeginReseed("main", reason, NoPane)
      /\ main' = MainAt("busy")
      /\ UNCHANGED watcher

\* handle_command: activity (and a keystroke) reseeds when claim_geometry is not
\* rate-limited and the window does not have the reported size.
HandleActivity ==
    /\ NextRequest("activity")
    /\ \/ /\ BeginReseed("main", "activity", NoPane)
          /\ main' = MainAt("busy")
          /\ UNCHANGED watcher
       \/ UNCHANGED <<tmuxVars, serverVars, connected, toClient, acks, clientVars>>

\* watch_tabs: it compares the panes, then waits for the locks of reseed with
\* the pane it saw.
WatchNotice ==
    /\ connected
    /\ watcher.at = "up"
    /\ main.at # "switch"
    /\ activePane[bridge.session] # bridge.pane
    /\ watcher' = [at |-> "waiting", next |-> activePane[bridge.session]]
    /\ UNCHANGED <<tmuxVars, bridge, sendLock, pending, job, main, stabilizer,
                   netVars, clientVars>>

WatchReseed ==
    /\ watcher.at = "waiting"
    /\ BeginReseed("watch", "pane-change", watcher.next)
    /\ watcher' = WatcherAt("seeding")
    /\ UNCHANGED <<main, requests>>

\* _stabilize_when_quiet: one attempt, or the end of the task.
Stabilize ==
    /\ stabilizer
    /\ bridge.degraded
    /\ BeginReseed("stabilize", "stabilize", NoPane)
    /\ UNCHANGED <<main, watcher, requests>>

StabilizerStops ==
    /\ stabilizer
    /\ ~bridge.degraded
    /\ job.task # "stabilize"
    /\ stabilizer' = FALSE
    /\ UNCHANGED <<tmuxVars, bridge, sendLock, pending, job, main, watcher,
                   netVars, clientVars>>

At(pc) == job.pc = pc
Goto(pc) == job' = [job EXCEPT !.pc = pc]
Acknowledged(of) ==
    LET ack == Ack(of, bridge.epoch, TRUE)
    IN  ack \in acks /\ acks' = acks \ {ack}

\* The acknowledgement arrives; the size change of a resize (mutate) is a
\* command to tmux, whose redraw is more pane output.
StartAcked ==
    /\ At("startAck")
    /\ Acknowledged("seed-start")
    /\ Goto("capture")
    /\ UNCHANGED <<tmuxVars, bridge, sendLock, pending, main, watcher,
                   stabilizer, connected, toClient, requests, clientVars>>

\* One of the three attempts: quiet, read the offset, capture the pane.
TakeSnapshot ==
    /\ At("capture")
    /\ job' = [job EXCEPT !.pc = "verify", !.candidate = bridge.offset,
                          !.snap = PaneContent]
    /\ UNCHANGED <<tmuxVars, bridge, sendLock, pending, main, watcher,
                   stabilizer, netVars, clientVars>>

\* Mutant: a byte numbered during the capture does not matter.
AnyCutoff == TRUE
\* The capture counts as exact when no byte was numbered since.
CutoffHeld == bridge.offset = job.candidate

\* Before that test the job waits for 50 ms without output.  The reader polls
\* every 4 ms, so unless it is waiting for send_lock it has numbered the bytes
\* the capture saw: the one assumption on time of this module.
ReaderCaughtUp ==
    sendLock = "free" => bridge.reading = NoPane /\ job.snap <= bridge.offset

\* Install a capture: held records it stands for are dropped, the rest kept.
Install(cutoff, exact) ==
    /\ bridge' = [bridge EXCEPT !.cutoff = cutoff, !.degraded = ~exact,
                                !.held = {s \in @ : s >= cutoff}]
    /\ Send(SeedData(bridge.epoch, bridge.pane, cutoff, job.snap, exact))
    /\ Goto("seedAck")

AcceptSnapshot ==
    /\ At("verify")
    /\ CutoffHeld
    /\ ReaderCaughtUp
    /\ Install(job.candidate, TRUE)
    /\ UNCHANGED <<tmuxVars, sendLock, pending, main, watcher, stabilizer,
                   connected, requests, acks, clientVars>>

RetryCapture ==
    /\ At("verify")
    /\ ~CutoffHeld
    /\ Goto("capture")
    /\ UNCHANGED <<tmuxVars, bridge, sendLock, pending, main, watcher,
                   stabilizer, netVars, clientVars>>

\* The capture budget is spent without an exact cutoff.  A resize keeps the
\* browser's buffer and replays every held byte into it; the other reasons take
\* a capture that need not be stable.
GiveUp ==
    /\ job.pc \in {"capture", "verify"}
    /\ Disturb("busy")
    /\ IF job.reason \in Resumable
       THEN /\ bridge' = [bridge EXCEPT !.cutoff = job.resume, !.degraded = TRUE]
            /\ Send(SeedResume(bridge.epoch, bridge.pane, job.resume))
            /\ Goto("flush")
       ELSE /\ job' = [job EXCEPT !.pc = "linearize", !.snap = PaneContent]
            /\ UNCHANGED <<bridge, toClient>>
    /\ UNCHANGED <<activePane, lag, produced, sendLock, pending, main, watcher,
                   stabilizer, connected, requests, acks, clientVars>>

\* cutoff = self.offset, read once the capturing thread has returned.
InstallDegraded ==
    /\ At("linearize")
    /\ Install(bridge.offset, FALSE)
    /\ UNCHANGED <<tmuxVars, sendLock, pending, main, watcher, stabilizer,
                   connected, requests, acks, clientVars>>

SeedAcked ==
    /\ At("seedAck")
    /\ Acknowledged("seed-end")
    /\ Goto("flush")
    /\ UNCHANGED <<tmuxVars, bridge, sendLock, pending, main, watcher,
                   stabilizer, connected, toClient, requests, clientVars>>

\* _flush_seed_output: take send_lock and the held records from the cutoff on.
PostSeed == {s \in bridge.held : s >= bridge.cutoff}

BeginFlush ==
    /\ At("flush")
    /\ sendLock = "free"
    /\ sendLock' = "flush"
    /\ pending' = PostSeed
    /\ bridge' = [bridge EXCEPT !.held = {}]
    /\ Goto("flushing")
    /\ UNCHANGED <<tmuxVars, main, watcher, stabilizer, netVars, clientVars>>

\* One record of a flush; _send_output names the current epoch and pane.
SendHeld ==
    /\ sendLock \in {"flush", "release"}
    /\ pending # {}
    /\ LET start == Least(pending)
       IN  /\ Send(Output(bridge.epoch, bridge.pane, start,
                          IF sendLock = "flush" THEN "postseed"
                          ELSE "selection-held", start \notin bridge.foreign))
           /\ pending' = pending \ {start}
    /\ UNCHANGED <<tmuxVars, bridge, sendLock, job, main, watcher, stabilizer,
                   connected, requests, acks, clientVars>>

EndFlush ==
    /\ At("flushing")
    /\ pending = {}
    /\ Send(PostFlush(bridge.epoch))
    /\ Goto("flushAck")
    /\ UNCHANGED <<tmuxVars, bridge, sendLock, pending, main, watcher,
                   stabilizer, connected, requests, acks, clientVars>>

\* Mutant: the watcher does not look again after a reseed.
WatcherStays == watcher
WatcherReturns == IF job.task = "watch" THEN WatcherAt("up") ELSE watcher

\* The task that ran the reseed goes on.
TaskReturns ==
    /\ main' = IF job.task = "main" THEN MainAt("idle") ELSE main
    /\ watcher' = WatcherReturns

\* Mutant: a degraded seed is left as it is.
NeverStabilizes == FALSE
NeedsStabilizer == bridge.degraded

FlushAcked ==
    /\ At("flushAck")
    /\ Acknowledged("post-flush")
    /\ bridge' = [bridge EXCEPT !.phase = "forward"]
    /\ Send(SeedOpen(bridge.epoch, bridge.pane, bridge.cutoff))
    /\ sendLock' = "free"
    /\ job' = NoJob
    /\ stabilizer' = (stabilizer \/ NeedsStabilizer)
    /\ TaskReturns
    /\ UNCHANGED <<tmuxVars, pending, connected, requests, clientVars>>

\* The handler of the connection ends, or the connection is lost.
CloseConnection ==
    /\ connected' = FALSE
    /\ bridge' = [bridge EXCEPT !.reading = NoPane]
    /\ sendLock' = "free"
    /\ pending' = {}
    /\ job' = NoJob
    /\ main' = MainAt("closed")
    /\ watcher' = WatcherAt("down")
    /\ stabilizer' = FALSE
    /\ requests' = <<>>
    /\ acks' = {}

\* No seed-start-ack within 5 s: the server closes the connection.
StartAckTimeout ==
    /\ At("startAck")
    /\ Disturb("failure")
    /\ CloseConnection
    /\ UNCHANGED <<activePane, lag, produced, toClient, clientVars>>

\* Any later stage may fail: no acknowledgement within 5 s, or a capture or tmux
\* command that raises.  The exception ends the message loop, kills the tabs
\* watcher without a trace, or makes the stabilize task try again.
JobFails ==
    /\ job.pc \in {"capture", "linearize", "seedAck", "flushAck"}
    /\ Disturb("failure")
    /\ IF job.task = "main" THEN CloseConnection
       ELSE /\ job' = NoJob
            /\ sendLock' = IF job.pc = "flushAck" THEN "free" ELSE sendLock
            /\ watcher' = IF job.task = "watch" THEN WatcherAt("down") ELSE watcher
            /\ UNCHANGED <<bridge, pending, main, stabilizer, connected,
                           requests, acks>>
    /\ UNCHANGED <<activePane, lag, produced, toClient, clientVars>>

-----------------------------------------------------------------------------
(* Switching sessions and copying a selection                              *)

\* switch_session: close the bridge (which cancels a stabilize reseed and waits
\* for any other, and ends a reseed the watcher still waits to start), attach a
\* new one that goes on counting epochs, and say ready.
HandleSwitch ==
    /\ NextRequest("switch-session")
    /\ LET target == Head(requests).session
       IN  IF target = bridge.session
           THEN UNCHANGED <<tmuxVars, serverVars, connected, toClient, acks>>
           ELSE /\ job.task \in {"none", "stabilize"}
                /\ bridge' = NewBridge(target, bridge.epoch)
                /\ lag' = [p \in Panes |-> 0]
                /\ sendLock' = "free"
                /\ pending' = {}
                /\ job' = NoJob
                /\ main' = MainAt("switch")
                /\ watcher' = IF watcher.at = "waiting" THEN WatcherAt("up")
                              ELSE watcher
                /\ stabilizer' = FALSE
                /\ Send(Ready(target))
                /\ UNCHANGED <<activePane, produced, spent, connected, acks>>
    /\ UNCHANGED clientVars

\* The part of _authoritative_selection_result that tests the request against
\* the seed, under all three locks.
Selectable(request) ==
    /\ bridge.degraded => request.alternate
    /\ bridge.phase = "forward"
    /\ request.epoch = bridge.epoch
    /\ request.cutoff = bridge.cutoff
    /\ bridge.cutoff <= request.revision /\ request.revision <= bridge.offset

SelectionLocksFree == SeedLockFree /\ sendLock = "free"

\* Hold the output and ask the browser whether its terminal is unchanged.
HoldForSelection ==
    /\ NextRequest("selection-request")
    /\ SelectionLocksFree
    /\ LET request == Head(requests)
       IN  /\ Selectable(request)
           /\ bridge' = [bridge EXCEPT !.phase = "hold", !.held = {},
                                       !.hold = request.id]
           /\ job' = [NoJob EXCEPT !.task = "main", !.pc = "selectionAck",
                                   !.candidate = bridge.offset]
           /\ main' = [at |-> "busy", id |-> request.id]
           /\ Send(SelectionCheck(request.id))
    /\ UNCHANGED <<tmuxVars, sendLock, pending, watcher, stabilizer, connected,
                   acks, clientVars>>

\* handle_command sends the result as soon as the locks are free, before any
\* task that waits for them runs; then it releases the hold.
Answer(id, ok) ==
    /\ Send(SelectionResult(id, ok))
    /\ main' = [main EXCEPT !.at = "release", !.id = id]

\* A request may be refused: before the locks for what it says of the pane or the
\* seed, under them for the provenance of its rows, which is not modelled.
RejectSelection ==
    /\ NextRequest("selection-request")
    /\ Answer(Head(requests).id, FALSE)
    /\ UNCHANGED <<tmuxVars, bridge, sendLock, pending, job, watcher, stabilizer,
                   connected, acks, clientVars>>

\* Only the rows of a browser that is unchanged may be accepted.
Acceptable(ack) == ack.ok

SelectionAcked ==
    /\ At("selectionAck")
    /\ \E ack \in acks, ok \in BOOLEAN :
         /\ ack.of = "selection-check" /\ ack.id = main.id
         /\ acks' = acks \ {ack}
         /\ ok => Acceptable(ack)
         /\ Answer(main.id, ok)
    /\ job' = NoJob
    /\ UNCHANGED <<tmuxVars, bridge, sendLock, pending, watcher, stabilizer,
                   connected, requests, clientVars>>

SelectionAckTimeout ==
    /\ At("selectionAck")
    /\ Disturb("failure")
    /\ Answer(main.id, FALSE)
    /\ job' = NoJob
    /\ UNCHANGED <<activePane, lag, produced, bridge, sendLock, pending, watcher,
                   stabilizer, connected, requests, acks, clientVars>>

\* Mutant: the hold is released while the selection is still being checked.
ReleasesEarly == main.at \in {"busy", "release"} /\ bridge.hold # 0
MayRelease == main.at = "release"

\* _flush_selection_hold does nothing when the hold is not its own any more.
BeginRelease ==
    /\ MayRelease
    /\ sendLock = "free"
    /\ IF bridge.hold # main.id
       THEN /\ main' = MainAt("idle")
            /\ UNCHANGED <<bridge, sendLock, pending>>
       ELSE /\ sendLock' = "release"
            /\ pending' = bridge.held
            /\ bridge' = [bridge EXCEPT !.held = {}]
            /\ UNCHANGED main
    /\ UNCHANGED <<tmuxVars, job, watcher, stabilizer, netVars, clientVars>>

EndRelease ==
    /\ sendLock = "release"
    /\ pending = {}
    /\ sendLock' = "free"
    /\ bridge' = [bridge EXCEPT !.hold = 0, !.phase = "forward"]
    /\ main' = MainAt("idle")
    /\ UNCHANGED <<tmuxVars, pending, job, watcher, stabilizer, netVars,
                   clientVars>>

\* send_speech_result holds send_lock for as long as its result takes to send.
BeginSpeech ==
    /\ connected
    /\ sendLock = "free"
    /\ Disturb("speech")
    /\ sendLock' = "speech"
    /\ UNCHANGED <<activePane, lag, produced, bridge, pending, job, main, watcher,
                   stabilizer, netVars, clientVars>>

EndSpeech ==
    /\ sendLock = "speech"
    /\ sendLock' = "free"
    /\ UNCHANGED <<tmuxVars, bridge, pending, job, main, watcher, stabilizer,
                   netVars, clientVars>>

-----------------------------------------------------------------------------
(* Losing and opening the connection                                       *)

Drop ==
    /\ connected
    /\ Disturb("drop")
    /\ CloseConnection
    /\ UNCHANGED <<activePane, lag, produced, toClient, clientVars>>

\* connect() of the browser and the websocket_handler that answers it: a new
\* message queue, a new bridge on the session the browser has selected, epochs
\* from zero.  The browser keeps the epoch, pane and revision of the old
\* connection, and no authority.
Connect ==
    /\ connected' = TRUE
    /\ bridge' = NewBridge(client.selected, 0)
    /\ lag' = [p \in Panes |-> 0]
    /\ sendLock' = "free"
    /\ pending' = {}
    /\ job' = NoJob
    /\ main' = MainAt("initial")
    /\ watcher' = WatcherAt("up")
    /\ stabilizer' = FALSE
    /\ toClient' = <<Ready(client.selected)>>
    /\ requests' = <<>>
    /\ acks' = {}
    /\ client' = [client EXCEPT !.authoritative = FALSE, !.seedInFlight = FALSE,
                                !.reseedPending = FALSE, !.queued = 0,
                                !.selection = NoSelection, !.ready = FALSE]
    /\ UNCHANGED <<activePane, produced, spent, screen>>

Reconnect == ~connected /\ Connect

-----------------------------------------------------------------------------
(* Browser: messages.  The queue is drained one message at a time.         *)

\* client.queued is meant for a pending recovery reseed: how many of the messages
\* still to handle had arrived when it was requested.
\* Mutant: the count is not kept from falling below zero.
TakenBelowZero == [client EXCEPT !.queued = @ - 1]
Taken == [client EXCEPT !.queued = IF @ = 0 THEN 0 ELSE @ - 1]

Receive(type) ==
    /\ toClient # <<>>
    /\ Head(toClient).type = type
    /\ toClient' = Tail(toClient)

\* What a closed socket does not carry.
SendAck(of, id, ok) ==
    acks' = IF connected THEN acks \cup {Ack(of, id, ok)} ELSE acks
Ask(request) ==
    requests' = IF connected THEN Append(requests, request) ELSE requests

\* Mutant: the browser keeps its authority while it is seeded.
SeedBegunWithAuthority ==
    [client EXCEPT !.seedInFlight = TRUE, !.reseedPending = FALSE, !.queued = 0]
SeedBegun == [client EXCEPT !.seedInFlight = TRUE, !.authoritative = FALSE,
                            !.reseedPending = FALSE, !.queued = 0]

ClientSeedStart ==
    /\ Receive("seed-start")
    /\ client' = SeedBegun
    /\ SendAck("seed-start", Head(toClient).epoch, TRUE)
    /\ UNCHANGED <<tmuxVars, serverVars, connected, requests, screen>>

\* The buffer of the browser may be resumed only where it stands.
MayResume(message) ==
    /\ client.seedInFlight
    /\ message.pane = client.pane
    /\ message.cutoff = client.revision

ClientSeedResume ==
    /\ toClient # <<>>
    /\ Head(toClient).type = "seed-resume"
    /\ LET message == Head(toClient)
       IN  IF MayResume(message)
           THEN /\ toClient' = Tail(toClient)
                /\ client' = [Taken EXCEPT !.epoch = message.epoch,
                                           !.cutoff = message.cutoff]
                /\ UNCHANGED <<tmuxVars, serverVars, connected, requests, acks,
                               screen>>
           ELSE Connect

\* seed-data and seed-end: applyTerminalSeed replaces the screen.
ClientSeedData ==
    /\ Receive("seed-data")
    /\ LET seed == Head(toClient)
       IN  /\ client' = [Taken EXCEPT !.epoch = seed.epoch, !.pane = seed.pane,
                                      !.cutoff = seed.cutoff,
                                      !.revision = seed.cutoff]
           /\ screen' = [shown |-> seed.content, torn |-> FALSE,
                         exact |-> seed.exact, painted |-> FALSE]
           /\ SendAck("seed-end", seed.epoch, TRUE)
    /\ UNCHANGED <<tmuxVars, serverVars, connected, requests>>

\* flushTerminalResize asks for a resize when the browser's size is not the one
\* the server has.
FlushResize ==
    \/ Disturb("resize") /\ Ask(Request("resize"))
    \/ UNCHANGED <<spent, requests>>

InOrder(output) ==
    /\ output.pane = client.pane
    /\ output.epoch = client.epoch
    /\ output.start = client.revision

\* Mutant: without authority, replayed output is not written either.
CountedOnly(output) == ~client.authoritative
\* Without authority, live output is counted and not written.
Counted(output) == ~client.authoritative /\ output.kind = "live"

\* Output that arrives while a recovery reseed is pending is dropped; output
\* that had arrived before is not.
Dropped == client.reseedPending /\ client.queued = 0

ClientDropOutput ==
    /\ Receive("terminal-output")
    /\ Dropped
    /\ UNCHANGED <<tmuxVars, serverVars, connected, requests, acks, clientVars>>

\* handleTerminalBinary
ClientOutput ==
    /\ toClient # <<>>
    /\ Head(toClient).type = "terminal-output"
    /\ ~Dropped
    /\ LET output == Head(toClient)
       IN  IF InOrder(output)
           THEN /\ toClient' = Tail(toClient)
                /\ client' = [Taken EXCEPT !.revision = @ + 1]
                /\ screen' = IF Counted(output) THEN screen
                             ELSE [screen EXCEPT
                                     !.shown = output.start + 1,
                                     !.torn = @ \/ ~output.own
                                                \/ screen.shown # output.start]
                /\ UNCHANGED <<tmuxVars, serverVars, connected, requests, acks>>
           ELSE Connect

ClientPostFlush ==
    /\ Receive("post-flush")
    /\ SendAck("post-flush", Head(toClient).epoch, TRUE)
    /\ client' = Taken
    /\ UNCHANGED <<tmuxVars, serverVars, connected, requests, screen>>

\* Mutant: a pending recovery reseed does not keep a seed from opening.
MayOpenWhilePending(message) ==
    message.epoch = client.epoch /\ message.cutoff = client.cutoff
MayOpen(message) ==
    /\ ~client.reseedPending
    /\ message.epoch = client.epoch
    /\ message.pane = client.pane
    /\ message.cutoff = client.cutoff

ClientSeedOpen ==
    /\ Receive("seed-open")
    /\ IF MayOpen(Head(toClient))
       THEN /\ client' = [Taken EXCEPT !.seedInFlight = FALSE,
                                      !.authoritative = TRUE]
            /\ FlushResize
       ELSE /\ client' = [Taken EXCEPT !.authoritative = FALSE]
            /\ UNCHANGED <<spent, requests>>
    /\ UNCHANGED <<activePane, lag, produced, serverVars, connected, acks, screen>>

\* pendingSelectionRequestIsCurrent
SelectionIsCurrent(id) ==
    /\ client.selection.id = id
    /\ client.authoritative
    /\ client.selection.epoch = client.epoch

ClientSelectionCheck ==
    /\ Receive("selection-check")
    /\ LET id == Head(toClient).id
       IN  /\ SendAck("selection-check", id, SelectionIsCurrent(id))
           /\ client' = IF client.selection.id = id
                        THEN [Taken EXCEPT !.selection.checkedAt = client.revision]
                        ELSE Taken
    /\ UNCHANGED <<tmuxVars, serverVars, connected, requests, screen>>

ClientSelectionResult ==
    /\ Receive("selection-result")
    /\ client' = IF client.selection.id = Head(toClient).id
                 THEN [Taken EXCEPT !.selection = NoSelection]
                 ELSE Taken
    /\ UNCHANGED <<tmuxVars, serverVars, connected, requests, acks, screen>>

ClientReady ==
    /\ Receive("ready")
    /\ LET session == Head(toClient).session
       IN  client' = [Taken EXCEPT !.authoritative = FALSE, !.ready = TRUE,
                                   !.active = session, !.selected = session]
    /\ IF client.seedInFlight THEN UNCHANGED <<spent, requests>> ELSE FlushResize
    /\ UNCHANGED <<activePane, lag, produced, serverVars, connected, acks, screen>>

-----------------------------------------------------------------------------
(* Browser: its user, its layout and its timers.                           *)

\* requestTerminalRecoveryReseed, when some of the messages have arrived
RecoveryReseed(arrived) ==
    /\ connected
    /\ ~client.reseedPending
    /\ Ask(Request("history-reseed"))
    /\ client' = [client EXCEPT !.authoritative = FALSE, !.reseedPending = TRUE,
                                !.queued = arrived]

\* Nothing is on its way to the browser or from it, and no task is at work.
Stuck ==
    /\ connected
    /\ SeedLockFree /\ main.at = "idle" /\ watcher.at # "waiting"
    /\ toClient = <<>> /\ requests = <<>>

\* The seed stall watchdog (10 s) and the stale authority watchdog (15 s).
RecoveryWatchdog ==
    /\ ~client.authoritative
    /\ \E arrived \in 0..Len(toClient) : RecoveryReseed(arrived)
    /\ UNCHANGED <<activePane, lag, produced, serverVars, connected, toClient,
                   acks, screen>>

\* They run out because nothing happens, or because the browser or the network
\* is slower than that.
WatchdogWhenStuck == Stuck /\ RecoveryWatchdog /\ UNCHANGED spent
SlowWatchdog == Disturb("stall") /\ RecoveryWatchdog

\* requestTerminalBacklogReseed: too much output is queued; all of it is dropped.
ClientBacklog ==
    /\ Disturb("backlog")
    /\ RecoveryReseed(0)
    /\ UNCHANGED <<activePane, lag, produced, serverVars, connected, toClient,
                   acks, screen>>

\* flushTerminalResize, the history scroll and the focus of the page.
ClientRequest ==
    /\ connected
    /\ client.ready
    /\ \E type \in {"resize", "history-reseed", "activity"} :
         /\ Disturb(type)
         /\ type = "resize" => ~client.seedInFlight
         /\ Ask(Request(type))
    /\ UNCHANGED <<activePane, lag, produced, serverVars, connected, toClient,
                   acks, clientVars>>

\* requestAuthoritativeSelection, one request at a time.
ClientSelect ==
    /\ connected
    /\ Disturb("selection")
    /\ client.ready /\ client.authoritative
    /\ client.selection = NoSelection
    /\ LET id == client.selections + 1
       IN  /\ \E alternate \in BOOLEAN : Ask(SelectionRequest(id, alternate))
           /\ client' = [client EXCEPT
                           !.selections = id,
                           !.selection = [id |-> id, epoch |-> client.epoch,
                                          checkedAt |-> client.revision]]
    /\ UNCHANGED <<activePane, lag, produced, serverVars, connected, toClient,
                   acks, screen>>

ClientSelectionTimeout ==
    /\ client.selection # NoSelection
    /\ Disturb("failure")
    /\ client' = [client EXCEPT !.selection = NoSelection]
    /\ UNCHANGED <<activePane, lag, produced, serverVars, netVars, screen>>

\* switchSession: the screen is reset and shows a cached snapshot, or nothing.
\* Before the server is ready the request is not sent.
ClientSwitch ==
    \E session \in Sessions \ {client.active} :
      /\ Disturb("switch")
      /\ IF client.ready THEN Ask(SwitchRequest(session)) ELSE UNCHANGED requests
      /\ client' = [client EXCEPT !.selected = session, !.authoritative = FALSE]
      /\ screen' = [screen EXCEPT !.painted = TRUE]
      /\ UNCHANGED <<activePane, lag, produced, serverVars, connected, toClient,
                     acks>>

-----------------------------------------------------------------------------
(* Specification                                                           *)

Reader == (\E p \in Panes : ReadOutput(p)) \/ ResumeReading
Server ==
    \/ MainReseed \/ HandleReseedRequest \/ HandleActivity \/ HandleSwitch
    \/ HoldForSelection \/ RejectSelection \/ SelectionAcked
    \/ BeginRelease \/ EndRelease
    \/ WatchNotice \/ WatchReseed \/ Stabilize \/ StabilizerStops
    \/ StartAcked \/ TakeSnapshot \/ AcceptSnapshot \/ RetryCapture
    \/ InstallDegraded \/ SeedAcked \/ BeginFlush \/ SendHeld \/ EndFlush
    \/ FlushAcked \/ EndSpeech
Browser ==
    \/ ClientSeedStart \/ ClientSeedResume \/ ClientSeedData \/ ClientDropOutput
    \/ ClientOutput \/ ClientPostFlush \/ ClientSeedOpen \/ ClientSelectionCheck
    \/ ClientSelectionResult \/ ClientReady \/ WatchdogWhenStuck \/ Reconnect

\* What the running program does by itself.
Progress == Reader \/ Server \/ Browser

Environment ==
    \/ \E p \in Panes : PaneOutput(p) \/ SelectPane(p)
    \/ GiveUp \/ StartAckTimeout \/ JobFails \/ SelectionAckTimeout
    \/ BeginSpeech \/ Drop \/ SlowWatchdog \/ ClientBacklog \/ ClientRequest
    \/ ClientSelect \/ ClientSelectionTimeout \/ ClientSwitch

Next == Progress \/ Environment

Spec == Init /\ [][Next]_vars

\* The event loops of both sides run on, every message on an open socket is
\* delivered and every timer fires: some step of the program is taken as long
\* as there is one.
FairSpec == Spec /\ WF_vars(Progress)

-----------------------------------------------------------------------------
(* Properties                                                              *)

\* Whenever the browser calls its terminal authoritative after an exact seed,
\* the screen shows each byte of the pane once, in order, up to the revision:
\* nothing lost, replayed twice or taken from another pane by any mix of
\* reseeds, resumes, holds and drops (reseed, pane_bytes, handleTerminalBinary).
ScreenExact ==
    client.authoritative /\ screen.exact /\ ~screen.painted =>
        ~screen.torn /\ screen.shown = client.revision

\* From the seed to its flush the bridge holds every byte numbered since the
\* cutoff, whichever reseed or selection held it first, and during a selection
\* every byte numbered since the hold (reseed, _flush_seed_output: "Replay every
\* held byte").
Interval(from, to) == {n \in 0..to : from <= n /\ n < to}
ReplayComplete ==
    /\ job.pc \in {"seedAck", "flush"} =>
         {s \in bridge.held : s >= bridge.cutoff}
             = Interval(bridge.cutoff, bridge.offset)
    /\ job.pc = "selectionAck" =>
         bridge.held = Interval(job.candidate, bridge.offset)

\* While output is forwarded live nothing stays behind in the hold buffer, so
\* live output never overtakes held output (pane_bytes).
NothingOvertaken == bridge.phase = "forward" => bridge.held = {}

\* Why ReplayComplete and NothingOvertaken hold: the inductive invariant of the
\* hold buffer.  What is held is a suffix of the bytes numbered; a reseed that
\* may still resume the browser holds all of them from its resume point on;
\* whoever empties the buffer keeps send_lock until output flows again; a
\* selection and a reseed never hold the output at the same time.
JobsOwned == job.task = "none" <=> job.pc = "idle"
LiveEmpty == bridge.phase = "forward" => bridge.held = {} /\ job.pc = "idle"
HeldIsSuffix ==
    \A s \in bridge.held :
        s < bridge.offset /\ s..(bridge.offset - 1) \subseteq bridge.held
ResumeHeld ==
    job.pc \in {"startAck", "capture", "verify"} /\ job.reason \in Resumable =>
        /\ job.resume <= bridge.offset
        /\ bridge.held = Interval(job.resume, bridge.offset)
SeedHeld ==
    job.pc \in {"seedAck", "flush"} =>
        /\ bridge.cutoff <= bridge.offset
        /\ bridge.held = Interval(bridge.cutoff, bridge.offset)
SelectionHeld ==
    job.pc = "selectionAck" =>
        /\ main.at = "busy" /\ job.task = "main"
        /\ main.id # 0 /\ bridge.hold = main.id
        /\ job.candidate <= bridge.offset
        /\ bridge.held = Interval(job.candidate, bridge.offset)
HoldIsSelections ==
    /\ job.pc \notin {"idle", "selectionAck"} => bridge.hold = 0
    /\ main.at = "release" => main.id # 0
FlushLocked ==
    job.pc \in {"flushing", "flushAck"} => bridge.held = {} /\ sendLock = "flush"
ReleaseLocked ==
    sendLock = "release" =>
        bridge.held = {} /\ main.at = "release" /\ job.pc = "idle"
HoldInvariant ==
    /\ JobsOwned /\ LiveEmpty /\ HeldIsSuffix /\ ResumeHeld /\ SeedHeld
    /\ SelectionHeld /\ HoldIsSelections /\ FlushLocked /\ ReleaseLocked

\* Positions of the messages of these types on their way to the browser, and
\* whether every message behind a position is of these types.
OnTheirWay(types) == {i \in 1..Len(toClient) : toClient[i].type \in types}
Behind(i, types) ==
    \A j \in 1..Len(toClient) : i < j => toClient[j].type \in types
Outputs == OnTheirWay({"terminal-output"})
Starts == {toClient[i].start : i \in Outputs}
SeedOnItsWay ==
    OnTheirWay({"seed-start", "seed-resume", "seed-data", "ready"}) # {}

\* The output on its way, followed by what is pending or held, is every byte
\* numbered from this one on, in order.
Waiting == pending \cup bridge.held
Stream(from) ==
    /\ \A i, j \in Outputs : i < j => toClient[i].start < toClient[j].start
    /\ \A s \in Starts, t \in Waiting : s < t
    /\ from <= bridge.offset
    /\ Starts \cup Waiting = Interval(from, bridge.offset)

\* The outputs a browser with authority has still to handle, and then the bytes
\* that are pending or held, continue its screen without a gap, a repetition or a
\* byte of another epoch up to the last byte the server has numbered.  Stated
\* between seeds, before anything is dropped (pane_bytes, _flush_seed_output,
\* _flush_selection_hold, handleTerminalBinary).
PipelineGapless ==
    (client.authoritative /\ connected /\ ~SeedOnItsWay) =>
        /\ Stream(client.revision)
        /\ \A i \in Outputs : /\ toClient[i].epoch = client.epoch
                              /\ toClient[i].pane = client.pane

\* Why PipelineGapless holds: the inductive invariant of the pipeline, stage by
\* stage.  While output is on hold for a seed no seed-open is on its way without
\* something behind it that takes the authority away again.
Breaks == OnTheirWay({"seed-start", "ready"})
GateClosed ==
    (connected /\ bridge.phase = "hold" /\ bridge.hold = 0) =>
        /\ client.authoritative => Breaks # {}
        /\ \A i \in OnTheirWay({"seed-open"}) : \E j \in Breaks : i < j
AuthoritySettled == client.authoritative => ~client.reseedPending
PendingOwned ==
    /\ sendLock = "flush" => job.pc \in {"flushing", "flushAck"}
    /\ pending # {} => sendLock = "release" \/ job.pc = "flushing"
    /\ sendLock = "release" => bridge.hold # 0

\* Nothing on its way is of an epoch to come, and an acknowledgement of the
\* current epoch answers what the current reseed has sent.
Sent(of) == Ack(of, bridge.epoch, TRUE) \in acks
EpochTypes == {"seed-start", "seed-resume", "seed-data", "terminal-output",
               "post-flush", "seed-open"}
EpochsPast ==
    connected =>
        /\ \A i \in OnTheirWay(EpochTypes) : toClient[i].epoch <= bridge.epoch
        /\ \A ack \in acks : ack.of # "selection-check" => ack.id <= bridge.epoch
AcksAnswer ==
    connected =>
        /\ job.pc \in {"startAck", "capture", "verify", "linearize"} =>
             ~Sent("seed-end")
        /\ job.pc \in {"startAck", "capture", "verify", "linearize", "seedAck",
                       "flush", "flushing"} => ~Sent("post-flush")

\* What may be on its way in each stage of a reseed: an acknowledgement means
\* that the browser has handled everything that was sent before.
StartStage ==
    (connected /\ job.pc = "startAck") =>
        /\ Sent("seed-start") => Behind(0, {"selection-result"})
        /\ \A i \in OnTheirWay(EpochTypes) :
             toClient[i].epoch = bridge.epoch =>
                 /\ toClient[i].type = "seed-start"
                 /\ Behind(i, {"selection-result"})
CaptureStage ==
    (connected /\ job.pc \in {"capture", "verify", "linearize"}) =>
        Behind(0, {"selection-result"})
\* A message of the current seed.
OfSeed(message) ==
    /\ message.epoch = bridge.epoch
    /\ message.pane = bridge.pane
    /\ message.cutoff = bridge.cutoff
DataStage ==
    (connected /\ job.pc = "seedAck") =>
        /\ Behind(0, {"seed-data", "selection-result"})
        /\ \A i \in OnTheirWay({"seed-data"}) :
             OfSeed(toClient[i]) /\ Behind(i, {"selection-result"})
        /\ Sent("seed-end") => Behind(0, {"selection-result"})
SeedShown ==
    (connected /\ job.pc = "seedAck" /\ Sent("seed-end")) =>
        OfSeed(client) /\ client.revision = bridge.cutoff
FlushStage ==
    (connected /\ job.pc \in {"flush", "flushing", "flushAck"}) =>
        /\ Behind(0, {"seed-resume", "terminal-output", "post-flush",
                      "selection-result"})
        /\ \A i \in OnTheirWay({"seed-resume"}) :
             /\ OfSeed(toClient[i])
             /\ Behind(i, {"terminal-output", "post-flush", "selection-result"})
             /\ \A j \in Outputs : i < j
        /\ \A i \in OnTheirWay({"post-flush"}) :
             job.pc = "flushAck" /\ Behind(i, {"selection-result"})
        /\ Sent("post-flush") => Behind(0, {"selection-result"})
Live == bridge.phase = "forward" \/ bridge.hold # 0
LiveStage ==
    (connected /\ Live) =>
        Behind(0, {"terminal-output", "seed-open", "selection-check",
                   "selection-result"})

\* From the flush of a seed on, the browser and what is on its way follow the
\* bridge, unless the browser has asked for another seed and drops output.
Following ==
    /\ connected /\ ~client.reseedPending
    /\ Live \/ job.pc \in {"flush", "flushing", "flushAck"}
OutputsCurrent ==
    \A i \in Outputs : /\ toClient[i].epoch = bridge.epoch
                       /\ toClient[i].pane = bridge.pane
InStep ==
    Following =>
        /\ OutputsCurrent
        /\ OnTheirWay({"seed-resume"}) = {} => OfSeed(client) /\ Stream(client.revision)
        /\ OnTheirWay({"seed-resume"}) # {} => Stream(bridge.cutoff)
PipelineInvariant ==
    /\ GateClosed /\ AuthoritySettled /\ PendingOwned /\ EpochsPast /\ AcksAnswer
    /\ StartStage /\ CaptureStage /\ DataStage /\ FlushStage /\ LiveStage
    /\ SeedShown /\ InStep

\* When the browser has confirmed a selection the server waits for, its screen
\* stands exactly where the hold began: the rows the server is about to capture
\* are the ones selected (_authoritative_selection_result).
SelectionOnScreen ==
    \A ack \in acks :
        (At("selectionAck") /\ ack.of = "selection-check" /\ ack.id = main.id
           /\ ack.ok /\ client.selection.id = main.id)
        => /\ client.revision = job.candidate
           /\ client.epoch = bridge.epoch
           /\ client.pane = bridge.pane

\* An accepted selection reaches the browser before any output held for it: the
\* screen has not moved since the check (handle_command, "defer_hold_release").
ResultBeforeHeldOutput ==
    [][(/\ toClient # <<>> /\ Head(toClient).type = "selection-result"
        /\ toClient' = Tail(toClient)
        /\ Head(toClient).ok /\ client.selection.id = Head(toClient).id)
       => client.revision = client.selection.checkedAt]_vars

\* Why both hold: the inductive invariant of selections.  Requests are numbered as
\* they are made, so that nothing the server has handled is of a request to come;
\* the check it waits for is the last message on its way, and after the answer
\* nothing is; an accepted result the browser waits for comes before all output.
AskedAt == {i \in 1..Len(requests) : requests[i].type = "selection-request"}
Past(id) == id <= client.selections /\ \A i \in AskedAt : id < requests[i].id
IdsInOrder ==
    /\ requests # <<>> => connected
    /\ client.selection.id <= client.selections
    /\ \A i \in AskedAt : requests[i].id <= client.selections
    /\ \A i, j \in AskedAt : i < j => requests[i].id < requests[j].id
    /\ Past(main.id)
    /\ \A i \in OnTheirWay({"selection-check", "selection-result"}) :
         Past(toClient[i].id) /\ toClient[i].id # 0
    /\ \A ack \in acks : ack.of = "selection-check" => Past(ack.id)
OnScreen ==
    /\ client.revision = job.candidate
    /\ client.epoch = bridge.epoch
    /\ client.pane = bridge.pane
    /\ client.selection.checkedAt = client.revision
CheckStage ==
    job.pc = "selectionAck" =>
        /\ connected
        /\ \A i \in OnTheirWay({"selection-check"}) :
             toClient[i].id = main.id => Behind(i, {})
        /\ \A ack \in acks :
             ack.of = "selection-check" /\ ack.id = main.id =>
                 /\ toClient = <<>>
                 /\ ack.ok /\ client.selection.id = main.id => OnScreen
ResultStage ==
    \A i \in OnTheirWay({"selection-result"}) :
        toClient[i].ok /\ client.selection.id = toClient[i].id =>
            /\ client.selection.checkedAt = client.revision
            /\ \A j \in 1..Len(toClient) : j < i => toClient[j].type = "selection-result"
SelectionInvariant == IdsInOrder /\ CheckStage /\ ResultStage

\* What ScreenExact needs of the environment: no speech result keeps send_lock
\* while output waits for it, and no watchdog runs out while messages are on their
\* way (with either it fails, as two runs show).
Prompt == Disturbances \cap {"speech", "stall"} = {}

\* Why ScreenExact holds then: the inductive invariant of the screen.  First the
\* tasks of the server: without a connection none is at work, an exact cutoff is
\* that of its snapshot, only the main loop resumes a browser, and the watcher
\* always moves to another pane.
Parked ==
    ~connected =>
        /\ job.pc = "idle" /\ sendLock = "free" /\ bridge.reading = NoPane
        /\ main.at = "closed" /\ watcher.at = "down" /\ ~stabilizer
PromptNow == sendLock # "speech" /\ client.queued = 0
SnapshotStage ==
    job.pc = "verify" => job.candidate <= bridge.offset /\ job.candidate <= job.snap
ResumableIsMains == job.reason \in Resumable => job.task = "main"
WatcherMoves ==
    watcher.at = "waiting" => watcher.next # bridge.pane /\ watcher.next # NoPane
ForeignPast == \A s \in bridge.foreign : s < bridge.offset
TaskInvariant ==
    /\ Parked /\ PromptNow /\ SnapshotStage /\ ResumableIsMains /\ WatcherMoves
    /\ ForeignPast

\* Then what is on its way to the screen: a seed replaces it only while the browser
\* has no authority; a seed-open opens what the browser shows, so that live output
\* finds it with authority unless it has asked for a reseed or painted a snapshot;
\* and a byte of another pane is refused or reaches no exact screen.
Ahead(i, types) ==
    \A j \in 1..Len(toClient) : j < i => toClient[j].type \in types
ExactNow == screen.exact /\ ~screen.painted
ScreenInStep == ExactNow => ~screen.torn /\ screen.shown = client.revision
Seeds == OnTheirWay({"seed-data"})
Opens == OnTheirWay({"seed-open"})
SeedsExact ==
    \A i \in Seeds : toClient[i].exact => toClient[i].content = toClient[i].cutoff
SeedsUnseen ==
    \A i \in Seeds :
        /\ client.authoritative => \E j \in Breaks : j < i
        /\ \A k \in Opens : k < i => \E j \in Breaks : k < j /\ j < i
OpensNext ==
    \A i \in Opens :
        /\ Ahead(i, {"selection-result"})
        /\ \/ client.reseedPending
           \/ /\ toClient[i].epoch = client.epoch
              /\ toClient[i].pane = client.pane
              /\ toClient[i].cutoff = client.cutoff
Seen == client.authoritative \/ client.reseedPending \/ screen.painted
LiveTypes == {"terminal-output", "seed-open", "selection-check", "selection-result"}
LiveSeen ==
    \A i \in Outputs :
        toClient[i].kind = "live" =>
            /\ Ahead(i, LiveTypes)
            /\ Seen \/ \E j \in Opens : j < i
ForeignShielded ==
    \A i \in Outputs :
        toClient[i].own \/
            /\ ExactNow => client.pane # toClient[i].pane
            /\ \A j \in Seeds :
                 j < i /\ toClient[j].exact => toClient[j].pane # toClient[i].pane
ShowInvariant ==
    /\ ScreenInStep /\ SeedsExact /\ SeedsUnseen /\ OpensNext /\ LiveSeen
    /\ ForeignShielded

\* And how the two are tied: the reader may still have a byte of the pane before a
\* pane change, and then no exact seed of the new pane is shown or on its way.
InFlush == job.pc \in {"flush", "flushing", "flushAck"}
Resumes == OnTheirWay({"seed-resume"})
ResumesInFlush == connected /\ Resumes # {} => job.task = "main" /\ InFlush
OutputSeen == connected /\ Live => Seen \/ Opens # {}
Tainted ==
    bridge.reading \notin {NoPane, bridge.pane} \/ bridge.foreign \cap Waiting # {}
TaintShielded ==
    connected /\ Tainted =>
        /\ ExactNow => client.pane # bridge.pane
        /\ \A i \in Seeds : toClient[i].exact => toClient[i].pane # bridge.pane
PaneShown ==
    connected /\ (Live \/ InFlush) => client.pane = bridge.pane \/ Resumes # {}
ReadingShown ==
    connected /\ watcher.at \in {"up", "waiting"} /\ bridge.reading # NoPane =>
        /\ client.pane = bridge.pane \/ Resumes # {}
        /\ \A i \in Seeds : toClient[i].pane = bridge.pane
LinkInvariant ==
    /\ ResumesInFlush /\ OutputSeen /\ TaintShielded /\ PaneShown /\ ReadingShown
ScreenInvariant == TaskInvariant /\ ShowInvariant /\ LinkInvariant

\* A painted snapshot is never authoritative (switchSession).
PaintOnly == client.authoritative => ~screen.painted

\* Once the environment is quiet the browser ends up with authority over an
\* exact screen of every byte of the pane the server follows.
Converged ==
    /\ client.authoritative /\ screen.exact /\ ~screen.painted
    /\ ~screen.torn
    /\ client.pane = bridge.pane /\ client.active = bridge.session
    /\ client.selected = bridge.session
    /\ screen.shown = bridge.offset + lag[bridge.pane]
EventuallyConverged == <>[]Converged

\* ... and the server follows the active pane, unless a failed reseed has killed
\* the tabs watcher: nothing restarts it before the browser reconnects.
EventuallyFollowed ==
    <>[](bridge.pane = activePane[bridge.session] \/ watcher.at = "down")

\* The protocol implements LiveScreen: the seed-start of every reseed takes the
\* authority away before anything but the next byte can reach the screen.
LiveNow == client.authoritative /\ screen.exact /\ ~screen.painted
LiveView == INSTANCE LiveScreen WITH live <- LiveNow, shown <- screen.shown
ImplementsLiveScreen == LiveView!Spec
=============================================================================
