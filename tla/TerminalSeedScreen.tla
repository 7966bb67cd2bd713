-------------------------- MODULE TerminalSeedScreen --------------------------
(***************************************************************************)
(* The screen is exact whenever the browser has authority over it, for     *)
(* every set of sessions and panes and every bound, as long as no speech   *)
(* result keeps send_lock and no watchdog runs out early (Prompt).         *)
(*                                                                         *)
(* ScreenInvariant is inductive together with TypeOK, HoldInvariant and    *)
(* PipelineInvariant.  Its three parts are the tasks of the server, what   *)
(* is on its way to the screen, and how the two are tied.  The last        *)
(* section derives from it that the protocol implements LiveScreen.        *)
(***************************************************************************)
EXTENDS TerminalSeedPipeline
-----------------------------------------------------------------------------
(* The tasks of the server                                                 *)

\* Without a connection no task of the server takes a step.
LEMMA Working ==
    ASSUME Parked,
           \/ Reader \/ Server \/ GiveUp \/ StartAckTimeout \/ JobFails
           \/ SelectionAckTimeout \/ Drop
    PROVE  connected
<1> SUFFICES ASSUME ~connected PROVE FALSE
  OBVIOUS
<1>1. /\ job.pc = "idle" /\ sendLock = "free" /\ bridge.reading = NoPane
      /\ main.at = "closed" /\ watcher.at = "down" /\ ~stabilizer
  BY DEF Parked
<1>2. ~Reader
  BY <1>1 DEF Reader, ReadOutput, ResumeReading
<1>3. \A type : ~NextRequest(type)
  BY <1>1 DEF NextRequest
<1>4. /\ ~MainReseed /\ ~HandleReseedRequest /\ ~HandleActivity /\ ~HandleSwitch
      /\ ~HoldForSelection /\ ~RejectSelection
  BY <1>1, <1>3 DEF MainReseed, HandleReseedRequest, HandleActivity, HandleSwitch,
    HoldForSelection, RejectSelection
<1>5. ~BeginRelease /\ ~EndRelease /\ ~SendHeld /\ ~EndSpeech
  BY <1>1 DEF BeginRelease, MayRelease, EndRelease, SendHeld, EndSpeech
<1>6. ~WatchNotice /\ ~WatchReseed /\ ~Stabilize /\ ~StabilizerStops
  BY <1>1 DEF WatchNotice, WatchReseed, Stabilize, StabilizerStops
<1>7. /\ ~StartAcked /\ ~TakeSnapshot /\ ~AcceptSnapshot /\ ~RetryCapture
      /\ ~InstallDegraded /\ ~SeedAcked /\ ~BeginFlush /\ ~EndFlush /\ ~FlushAcked
      /\ ~SelectionAcked
  BY <1>1 DEF At, StartAcked, TakeSnapshot, AcceptSnapshot, RetryCapture,
    InstallDegraded, SeedAcked, BeginFlush, EndFlush, FlushAcked, SelectionAcked
<1>8. ~GiveUp /\ ~StartAckTimeout /\ ~JobFails /\ ~SelectionAckTimeout /\ ~Drop
  BY <1>1 DEF At, GiveUp, StartAckTimeout, JobFails, SelectionAckTimeout, Drop
<1> QED
  BY <1>2, <1>4, <1>5, <1>6, <1>7, <1>8 DEF Server

\* The reader and the tasks that only move the job, the lock or the buffers.
LEMMA TaskKept ==
    ASSUME TypeOK, TaskInvariant, connected, connected',
           sendLock' # "speech", client'.queued = client.queued,
           job'.pc # "verify" \/ (UNCHANGED job /\ bridge.offset <= bridge'.offset),
           job'.reason \in Resumable => job'.task = "main",
           watcher'.at = "waiting" =>
               /\ UNCHANGED watcher /\ watcher.at = "waiting"
               /\ bridge'.pane = bridge.pane,
           bridge'.offset \in Nat, bridge.offset <= bridge'.offset,
           \A s \in bridge'.foreign :
               s \in bridge.foreign \/ (s = bridge.offset /\ s < bridge'.offset)
    PROVE  TaskInvariant'
<1> USE DEF TaskInvariant
<1>1. Parked' /\ PromptNow' /\ ResumableIsMains' /\ WatcherMoves'
  BY DEF Parked, PromptNow, ResumableIsMains, WatcherMoves
<1>2. SnapshotStage'
  <2> SUFFICES ASSUME job'.pc = "verify"
               PROVE  job'.candidate <= bridge'.offset /\ job'.candidate <= job'.snap
    BY DEF SnapshotStage
  <2>1. job'.pc = job.pc /\ job'.candidate = job.candidate /\ job'.snap = job.snap
    OBVIOUS
  <2>2. job.candidate \in Nat
    BY DEF TypeOK, ServerTypeOK, Jobs
  <2> QED
    BY <2>1, <2>2, BridgeFields DEF SnapshotStage
<1>3. ForeignPast'
  <2> SUFFICES ASSUME NEW s \in bridge'.foreign PROVE s < bridge'.offset
    BY DEF ForeignPast
  <2>1. CASE s \in bridge.foreign
    <3>1. s \in Nat /\ s < bridge.offset
      BY <2>1, BridgeFields DEF ForeignPast
    <3> QED
      BY <3>1, BridgeFields
  <2> QED
    BY <2>1
<1> QED
  BY <1>1, <1>2, <1>3

\* What the reader does to the bridge.
LEMMA ReadEffect ==
    ASSUME TypeOK, NEW own \in BOOLEAN, Record(own)
    PROVE  /\ bridge'.pane = bridge.pane /\ bridge'.offset = bridge.offset + 1
           /\ bridge'.phase = bridge.phase /\ bridge'.hold = bridge.hold
           /\ bridge'.reading = NoPane
           /\ own => bridge'.foreign = bridge.foreign
           /\ ~own => bridge'.foreign = bridge.foreign \cup {bridge.offset}
           /\ bridge.phase = "hold" =>
                bridge'.held = bridge.held \cup {bridge.offset} /\ UNCHANGED toClient
           /\ bridge.phase # "hold" =>
                /\ bridge'.held = bridge.held
                /\ Send(Output(bridge.epoch, bridge.pane, bridge.offset, "live", own))
<1>1. bridge \in Bridges
  BY BridgeFields
<1>2. CASE bridge.phase = "hold"
  <2>1. /\ bridge' = [[bridge EXCEPT !.offset = @ + 1, !.reading = NoPane,
                          !.foreign = IF own THEN @ ELSE @ \cup {bridge.offset}]
                         EXCEPT !.held = @ \cup {bridge.offset}]
        /\ UNCHANGED toClient
    BY <1>2 DEF Record, HoldsOutput
  <2> QED
    BY <1>1, <1>2, <2>1 DEF Bridges
<1>3. CASE bridge.phase # "hold"
  <2>1. /\ bridge' = [bridge EXCEPT !.offset = @ + 1, !.reading = NoPane,
                          !.foreign = IF own THEN @ ELSE @ \cup {bridge.offset}]
        /\ Send(Output(bridge.epoch, bridge.pane, bridge.offset, "live", own))
    BY <1>3 DEF Record, HoldsOutput
  <2> QED
    BY <1>1, <1>3, <2>1 DEF Bridges
<1> QED
  BY <1>2, <1>3

LEMMA ReaderEffect ==
    ASSUME TypeOK, Reader
    PROVE  /\ UNCHANGED <<sendLock, pending, job, watcher, connected, acks, clientVars>>
           /\ \/ \E own \in BOOLEAN :
                   /\ Record(own) /\ sendLock = "free"
                   /\ ~own => bridge.reading \notin {NoPane, bridge.pane}
              \/ /\ bridge' = [bridge EXCEPT !.reading = bridge.pane]
                 /\ bridge.reading = NoPane /\ sendLock # "free"
                 /\ connected /\ UNCHANGED toClient
              \/ UNCHANGED <<bridge, toClient>>
<1>1. CASE ResumeReading
  BY <1>1 DEF ResumeReading, MayNumber
<1>2. ASSUME NEW p \in Panes, ReadOutput(p)
      PROVE  /\ UNCHANGED <<sendLock, pending, job, watcher, connected, acks, clientVars>>
             /\ bridge.reading = NoPane /\ connected
             /\ \/ Record(TRUE) /\ sendLock = "free"
                \/ /\ bridge' = [bridge EXCEPT !.reading = bridge.pane]
                   /\ sendLock # "free" /\ UNCHANGED toClient
                \/ UNCHANGED <<bridge, toClient>>
  BY <1>2 DEF ReadOutput, PassesPaneTest, MayNumber
<1> QED
  BY <1>1, <1>2 DEF Reader

LEMMA TaskReader ==
    ASSUME TypeOK, TypeOK', TaskInvariant, Reader
    PROVE  TaskInvariant'
<1>1. connected
  BY Working DEF TaskInvariant
<1>2. UNCHANGED <<sendLock, job, watcher, connected, client>>
  BY ReaderEffect DEF clientVars
<1>3. bridge.offset \in Nat /\ bridge'.offset \in Nat
  BY BridgeFields DEF TypeOK, ServerTypeOK, Bridges
<1>4. /\ bridge'.pane = bridge.pane /\ bridge.offset <= bridge'.offset
      /\ \A s \in bridge'.foreign :
           s \in bridge.foreign \/ (s = bridge.offset /\ s < bridge'.offset)
  <2>1. ASSUME NEW own \in BOOLEAN, Record(own)
        PROVE  /\ bridge'.pane = bridge.pane /\ bridge'.offset = bridge.offset + 1
               /\ \A s \in bridge'.foreign : s \in bridge.foreign \/ s = bridge.offset
    BY <2>1, ReadEffect
  <2>2. CASE bridge' = [bridge EXCEPT !.reading = bridge.pane]
    BY <1>3, <2>2, BridgeFields DEF Bridges
  <2>3. CASE UNCHANGED bridge
    BY <1>3, <2>3
  <2>4. (\E own \in BOOLEAN : Record(own))
          \/ bridge' = [bridge EXCEPT !.reading = bridge.pane] \/ UNCHANGED bridge
    BY ReaderEffect
  <2> QED
    BY <1>3, <2>1, <2>2, <2>3, <2>4
<1> QED
  BY <1>1, <1>2, <1>3, <1>4, TaskKept DEF TaskInvariant, PromptNow, ResumableIsMains

\* What a reseed does to the bridge when it begins, beside BeginReseedEffect.
LEMMA BeginEffect ==
    ASSUME TypeOK, NEW task, NEW reason, NEW next, BeginReseed(task, reason, next)
    PROVE  /\ bridge'.pane = IF next = NoPane THEN bridge.pane ELSE next
           /\ bridge'.foreign = bridge.foreign /\ bridge'.reading = bridge.reading
           /\ Send(SeedStart(bridge.epoch + 1))
           /\ UNCHANGED <<pending, connected, clientVars>>
BY BridgeFields DEF BeginReseed, Bridges

\* The tasks that leave the offset alone and take no snapshot.
LEMMA TaskOther ==
    ASSUME TypeOK, TaskInvariant, connected, connected',
           sendLock' # "speech", client'.queued = client.queued,
           bridge'.offset = bridge.offset, bridge'.foreign = bridge.foreign,
           bridge'.pane = bridge.pane \/ watcher'.at # "waiting",
           UNCHANGED job \/ (job'.pc # "verify" /\ (job'.reason \in Resumable => job'.task = "main")),
           UNCHANGED watcher \/ watcher'.at # "waiting"
    PROVE  TaskInvariant'
<1>1. bridge.offset \in Nat /\ bridge.offset <= bridge'.offset /\ bridge'.offset \in Nat
  BY BridgeFields
<1>2. job'.reason \in Resumable => job'.task = "main"
  BY DEF TaskInvariant, ResumableIsMains
<1>3. \A s \in bridge'.foreign : s \in bridge.foreign
  OBVIOUS
<1> QED
  BY <1>1, <1>2, <1>3, TaskKept

LEMMA TaskBegin ==
    ASSUME TypeOK, TypeOK', TaskInvariant,
           MainReseed \/ HandleReseedRequest \/ HandleActivity \/ WatchReseed \/ Stabilize
    PROVE  TaskInvariant'
<1>1. connected
  BY Working DEF TaskInvariant, Server
<1>2. ASSUME NEW task, NEW reason, NEW next, BeginReseed(task, reason, next),
             reason \in Resumable => task = "main",
             next = NoPane \/ watcher'.at # "waiting",
             UNCHANGED watcher \/ watcher'.at # "waiting"
      PROVE  TaskInvariant'
  <2>1. /\ sendLock' = "free" /\ bridge'.offset = bridge.offset
        /\ job'.task = task /\ job'.pc = "startAck" /\ job'.reason = reason
    BY <1>2, BeginReseedEffect
  <2>2. /\ bridge'.pane = IF next = NoPane THEN bridge.pane ELSE next
        /\ bridge'.foreign = bridge.foreign /\ UNCHANGED <<connected, client>>
    BY <1>2, BeginEffect DEF clientVars
  <2> QED
    BY <1>1, <1>2, <2>1, <2>2, TaskOther
<1>3. CASE MainReseed
  BY <1>2, <1>3 DEF MainReseed, Resumable
<1>4. CASE HandleReseedRequest
  BY <1>2, <1>4 DEF HandleReseedRequest, Resumable
<1>5. CASE HandleActivity
  <2>1. CASE BeginReseed("main", "activity", NoPane) /\ UNCHANGED watcher
    BY <1>2, <2>1
  <2>2. CASE UNCHANGED <<tmuxVars, serverVars, connected, toClient, acks, clientVars>>
    BY <1>1, <2>2, TaskOther DEF serverVars, clientVars, TaskInvariant, PromptNow
  <2> QED
    BY <1>5, <2>1, <2>2 DEF HandleActivity
<1>6. CASE WatchReseed
  BY <1>2, <1>6 DEF WatchReseed, WatcherAt, Resumable
<1>7. CASE Stabilize
  BY <1>2, <1>7 DEF Stabilize, Resumable
<1> QED
  BY <1>3, <1>4, <1>5, <1>6, <1>7

LEMMA TaskSeed ==
    ASSUME TypeOK, TypeOK', TaskInvariant,
           \/ StartAcked \/ TakeSnapshot \/ AcceptSnapshot \/ RetryCapture \/ GiveUp
           \/ InstallDegraded \/ SeedAcked \/ BeginFlush \/ SendHeld \/ EndFlush
    PROVE  TaskInvariant'
<1>1. connected
  BY Working DEF TaskInvariant, Server
<1>2. /\ sendLock # "speech" /\ client.queued = 0
      /\ job.reason \in Resumable => job.task = "main"
  BY DEF TaskInvariant, PromptNow, ResumableIsMains
<1>3. ASSUME NEW pc, Goto(pc), pc # "verify", UNCHANGED <<watcher, connected, client>>,
             sendLock' # "speech", bridge'.pane = bridge.pane,
             bridge'.offset = bridge.offset, bridge'.foreign = bridge.foreign
      PROVE  TaskInvariant'
  <2>1. job'.pc = pc /\ job'.task = job.task /\ job'.reason = job.reason
    BY <1>3, GotoEffect
  <2> QED
    BY <1>1, <1>2, <1>3, <2>1, TaskOther
<1>4. CASE StartAcked \/ SeedAcked \/ RetryCapture \/ EndFlush
  BY <1>2, <1>3, <1>4 DEF StartAcked, SeedAcked, RetryCapture, EndFlush,
    clientVars, netVars
<1>5. CASE TakeSnapshot
  <2>1. /\ job' = [job EXCEPT !.pc = "verify", !.candidate = bridge.offset, !.snap = PaneContent]
        /\ UNCHANGED <<bridge, sendLock, watcher, connected, client>>
    BY <1>5 DEF TakeSnapshot, clientVars, netVars
  <2>2. /\ job'.candidate = bridge.offset /\ job'.snap = PaneContent
        /\ job'.task = job.task /\ job'.reason = job.reason
    BY <2>1 DEF TypeOK, ServerTypeOK, Jobs
  <2>3. bridge.offset \in Nat /\ bridge.offset <= PaneContent
    <3>1. bridge.offset \in Nat /\ lag[bridge.pane] \in Nat
      BY BridgeFields DEF TypeOK, TmuxTypeOK
    <3> QED
      BY <3>1 DEF PaneContent
  <2>4. SnapshotStage'
    BY <2>1, <2>2, <2>3 DEF SnapshotStage
  <2>5. Parked' /\ PromptNow' /\ ResumableIsMains' /\ WatcherMoves' /\ ForeignPast'
    BY <1>1, <1>2, <2>1, <2>2 DEF TaskInvariant, Parked, PromptNow, ResumableIsMains,
      WatcherMoves, ForeignPast
  <2> QED
    BY <2>4, <2>5 DEF TaskInvariant
<1>6. ASSUME NEW cutoff, NEW exact, Install(cutoff, exact),
             UNCHANGED <<sendLock, watcher, connected, clientVars>>
      PROVE  TaskInvariant'
  <2>1. /\ bridge'.pane = bridge.pane /\ bridge'.offset = bridge.offset
        /\ bridge'.foreign = bridge.foreign /\ Goto("seedAck")
    BY <1>6, BridgeFields DEF Install, Bridges
  <2> QED
    BY <1>2, <1>3, <1>6, <2>1 DEF clientVars
<1>7. CASE AcceptSnapshot \/ InstallDegraded
  BY <1>6, <1>7 DEF AcceptSnapshot, InstallDegraded
<1>8. CASE GiveUp
  <2>1. UNCHANGED <<watcher, connected, client, sendLock>>
    BY <1>8 DEF GiveUp, clientVars
  <2>2. CASE bridge' = [bridge EXCEPT !.cutoff = job.resume, !.degraded = TRUE] /\ Goto("flush")
    <3>1. /\ bridge'.pane = bridge.pane /\ bridge'.offset = bridge.offset
          /\ bridge'.foreign = bridge.foreign
      BY <2>2, BridgeFields DEF Bridges
    <3> QED
      BY <1>2, <1>3, <2>1, <2>2, <3>1
  <2>3. CASE /\ job' = [job EXCEPT !.pc = "linearize", !.snap = PaneContent]
             /\ UNCHANGED bridge
    <3>1. job'.pc = "linearize" /\ job'.task = job.task /\ job'.reason = job.reason
      BY <2>3 DEF TypeOK, ServerTypeOK, Jobs
    <3> QED
      BY <1>1, <1>2, <2>1, <2>3, <3>1, TaskOther
  <2> QED
    BY <1>8, <2>2, <2>3 DEF GiveUp
<1>9. CASE BeginFlush
  <2>1. /\ bridge' = [bridge EXCEPT !.held = {}] /\ sendLock' = "flush" /\ Goto("flushing")
        /\ UNCHANGED <<watcher, connected, client>>
    BY <1>9 DEF BeginFlush, clientVars, netVars
  <2>2. /\ bridge'.pane = bridge.pane /\ bridge'.offset = bridge.offset
        /\ bridge'.foreign = bridge.foreign
    BY <2>1, BridgeFields DEF Bridges
  <2> QED
    BY <1>3, <2>1, <2>2
<1>10. CASE SendHeld
  BY <1>1, <1>2, <1>10, TaskOther DEF SendHeld, clientVars
<1> QED
  BY <1>4, <1>5, <1>7, <1>8, <1>9, <1>10
LEMMA TaskLocks ==
    ASSUME Prompt, TypeOK, TypeOK', TaskInvariant,
           \/ FlushAcked \/ HoldForSelection \/ RejectSelection \/ SelectionAcked
           \/ SelectionAckTimeout \/ BeginRelease \/ EndRelease \/ BeginSpeech
           \/ EndSpeech \/ StabilizerStops \/ WatchNotice
    PROVE  TaskInvariant'
<1>1. ~BeginSpeech /\ ~EndSpeech
  BY DEF BeginSpeech, EndSpeech, Disturb, Prompt, TaskInvariant, PromptNow
<1>2. connected
  BY <1>1, Working DEF TaskInvariant, Server
<1>3. /\ sendLock # "speech" /\ client.queued = 0
      /\ NoJob.pc # "verify" /\ NoJob.reason \notin Resumable
  BY DEF TaskInvariant, PromptNow, NoJob, Resumable
<1>4. CASE FlushAcked
  <2>1. /\ bridge' = [bridge EXCEPT !.phase = "forward"] /\ sendLock' = "free"
        /\ job' = NoJob /\ UNCHANGED <<connected, client>>
        /\ UNCHANGED watcher \/ watcher' = WatcherAt("up")
    BY <1>4 DEF FlushAcked, TaskReturns, WatcherReturns, clientVars
  <2>2. /\ bridge'.pane = bridge.pane /\ bridge'.offset = bridge.offset
        /\ bridge'.foreign = bridge.foreign
    BY <2>1, BridgeFields DEF Bridges
  <2> QED
    BY <1>2, <1>3, <2>1, <2>2, TaskOther DEF WatcherAt
<1>5. CASE HoldForSelection
  <2>1. PICK id : /\ bridge' = [bridge EXCEPT !.phase = "hold", !.held = {}, !.hold = id]
                  /\ job' = [NoJob EXCEPT !.task = "main", !.pc = "selectionAck",
                                          !.candidate = bridge.offset]
                  /\ UNCHANGED <<sendLock, watcher, connected, client>>
    BY <1>5 DEF HoldForSelection, clientVars
  <2>2. /\ bridge'.pane = bridge.pane /\ bridge'.offset = bridge.offset
        /\ bridge'.foreign = bridge.foreign
    BY <2>1, BridgeFields DEF Bridges
  <2>3. job'.pc = "selectionAck" /\ job'.task = "main"
    BY <2>1 DEF NoJob
  <2> QED
    BY <1>2, <1>3, <2>1, <2>2, <2>3, TaskOther
<1>6. CASE RejectSelection \/ SelectionAcked \/ SelectionAckTimeout
  <2>1. /\ UNCHANGED <<bridge, sendLock, watcher, connected, client>>
        /\ UNCHANGED job \/ job' = NoJob
    BY <1>6 DEF RejectSelection, SelectionAcked, SelectionAckTimeout, clientVars
  <2> QED
    BY <1>2, <1>3, <2>1, TaskOther
<1>7. CASE BeginRelease \/ EndRelease
  <2>1. /\ UNCHANGED <<job, watcher, connected, client>> /\ sendLock' # "speech"
        /\ \/ UNCHANGED bridge
           \/ bridge' = [bridge EXCEPT !.held = {}]
           \/ bridge' = [bridge EXCEPT !.hold = 0, !.phase = "forward"]
    BY <1>3, <1>7 DEF BeginRelease, EndRelease, clientVars, netVars
  <2>2. /\ bridge'.pane = bridge.pane /\ bridge'.offset = bridge.offset
        /\ bridge'.foreign = bridge.foreign
    BY <2>1, BridgeFields DEF Bridges
  <2> QED
    BY <1>2, <1>3, <2>1, <2>2, TaskOther
<1>8. CASE StabilizerStops
  BY <1>2, <1>3, <1>8, TaskOther DEF StabilizerStops, clientVars, netVars
<1>9. CASE WatchNotice
  <2>1. /\ UNCHANGED <<bridge, sendLock, job, connected, client>>
        /\ activePane[bridge.session] # bridge.pane
        /\ watcher' = [at |-> "waiting", next |-> activePane[bridge.session]]
    BY <1>9 DEF WatchNotice, clientVars, netVars
  <2>2. activePane[bridge.session] \in Panes /\ activePane[bridge.session] # NoPane
    BY PaneAssumption, BridgeFields DEF TypeOK, TmuxTypeOK
  <2>3. WatcherMoves'
    BY <2>1, <2>2 DEF WatcherMoves
  <2>4. Parked' /\ PromptNow' /\ ResumableIsMains' /\ SnapshotStage' /\ ForeignPast'
    BY <1>2, <2>1 DEF TaskInvariant, Parked, PromptNow, ResumableIsMains,
      SnapshotStage, ForeignPast
  <2> QED
    BY <2>3, <2>4 DEF TaskInvariant
<1> QED
  BY <1>1, <1>4, <1>5, <1>6, <1>7, <1>8, <1>9

\* A bridge that has just been opened, or is gone.
LEMMA TaskFresh ==
    ASSUME PromptNow', NEW s, NEW e, bridge' = NewBridge(s, e), job' = NoJob, connected',
           watcher'.at # "waiting"
    PROVE  TaskInvariant'
<1>1. /\ bridge'.foreign = {} /\ job'.pc = "idle" /\ job'.reason \notin Resumable
  BY DEF NewBridge, NoJob, Resumable
<1> QED
  BY <1>1 DEF TaskInvariant, Parked, SnapshotStage, ResumableIsMains, WatcherMoves,
    ForeignPast

LEMMA TaskClosed ==
    ASSUME TypeOK, TaskInvariant, CloseConnection, UNCHANGED client
    PROVE  TaskInvariant'
<1>1. /\ bridge'.foreign = bridge.foreign /\ bridge'.offset = bridge.offset
      /\ bridge'.reading = NoPane
  BY BridgeFields DEF CloseConnection, Bridges
<1>2. /\ job'.pc = "idle" /\ job'.reason \notin Resumable /\ sendLock' = "free"
      /\ main'.at = "closed" /\ watcher'.at = "down" /\ ~stabilizer'
  BY DEF CloseConnection, NoJob, Resumable, MainAt, WatcherAt
<1> QED
  BY <1>1, <1>2 DEF TaskInvariant, Parked, SnapshotStage, ResumableIsMains,
    WatcherMoves, ForeignPast, PromptNow

LEMMA ConnectTask ==
    ASSUME TypeOK, Connect
    PROVE  TaskInvariant'
<1>1. /\ bridge' = NewBridge(client.selected, 0) /\ job' = NoJob /\ connected'
      /\ sendLock' = "free" /\ watcher' = WatcherAt("up")
      /\ client' = [client EXCEPT !.authoritative = FALSE, !.seedInFlight = FALSE,
                                  !.reseedPending = FALSE, !.queued = 0,
                                  !.selection = NoSelection, !.ready = FALSE]
  BY DEF Connect
<1>2. client'.queued = 0
  BY <1>1, ClientFields DEF Clients
<1> QED
  BY <1>1, <1>2, TaskFresh DEF PromptNow, WatcherAt

LEMMA TaskConnection ==
    ASSUME TypeOK, TypeOK', TaskInvariant,
           HandleSwitch \/ StartAckTimeout \/ JobFails \/ Drop \/ Reconnect
    PROVE  TaskInvariant'
<1>1. CASE Reconnect
  BY <1>1, ConnectTask DEF Reconnect
<1>2. CASE StartAckTimeout \/ Drop
  BY <1>2, TaskClosed DEF StartAckTimeout, Drop, clientVars
<1>3. /\ sendLock # "speech" /\ client.queued = 0
      /\ NoJob.pc # "verify" /\ NoJob.reason \notin Resumable
  BY DEF TaskInvariant, PromptNow, NoJob, Resumable
<1>4. CASE JobFails
  <2>1. connected
    BY <1>4, Working DEF TaskInvariant
  <2>2. CASE CloseConnection
    BY <1>4, <2>2, TaskClosed DEF JobFails, clientVars
  <2>3. CASE /\ job' = NoJob
             /\ sendLock' = IF job.pc = "flushAck" THEN "free" ELSE sendLock
             /\ watcher' = IF job.task = "watch" THEN WatcherAt("down") ELSE watcher
             /\ UNCHANGED <<bridge, pending, main, stabilizer, connected,
                            requests, acks>>
    BY <1>3, <1>4, <2>1, <2>3, TaskOther DEF JobFails, WatcherAt, clientVars
  <2> QED
    BY <1>4, <2>2, <2>3 DEF JobFails
<1>5. CASE HandleSwitch
  <2>1. connected
    BY <1>5, Working DEF TaskInvariant, Server
  <2>2. CASE UNCHANGED <<tmuxVars, serverVars, connected, toClient, acks>>
    BY <1>3, <1>5, <2>1, <2>2, TaskOther DEF HandleSwitch, serverVars, clientVars
  <2>3. ASSUME NEW s, bridge' = NewBridge(s, bridge.epoch), sendLock' = "free", job' = NoJob,
               watcher' = IF watcher.at = "waiting" THEN WatcherAt("up") ELSE watcher,
               UNCHANGED connected
        PROVE  TaskInvariant'
    <3>1. UNCHANGED client
      BY <1>5 DEF HandleSwitch, clientVars
    <3> QED
      BY <1>3, <2>1, <2>3, <3>1, TaskFresh DEF PromptNow, WatcherAt
  <2> QED
    BY <1>5, <2>2, <2>3 DEF HandleSwitch
<1> QED
  BY <1>1, <1>2, <1>4, <1>5
\* The browser leaves the server alone, and nothing makes it count messages.
LEMMA TaskStutter ==
    ASSUME TaskInvariant, UNCHANGED <<serverVars, connected>>, client'.queued = 0
    PROVE  TaskInvariant'
BY DEF TaskInvariant, Parked, PromptNow, SnapshotStage, ResumableIsMains, WatcherMoves,
  ForeignPast, serverVars

LEMMA TakenPrompt ==
    ASSUME TypeOK, TaskInvariant
    PROVE  Taken = client /\ client.queued = 0
<1>1. client \in Clients /\ client.queued = 0
  BY ClientFields DEF TaskInvariant, PromptNow
<1> QED
  BY <1>1 DEF Taken, Clients

LEMMA TaskBrowser ==
    ASSUME Prompt, TypeOK, TypeOK', TaskInvariant,
           \/ ClientSeedStart \/ ClientSeedResume \/ ClientSeedData \/ ClientDropOutput
           \/ ClientOutput \/ ClientPostFlush \/ ClientSeedOpen \/ ClientSelectionCheck
           \/ ClientSelectionResult \/ ClientReady
    PROVE  TaskInvariant'
<1>1. client \in Clients /\ client.queued = 0 /\ Taken = client
  BY TakenPrompt, ClientFields
<1>2. CASE ClientSeedStart
  BY <1>1, <1>2, TaskStutter DEF ClientSeedStart, SeedBegun, Clients
<1>3. CASE ClientSeedResume
  <2>1. CASE Connect
    BY <2>1, ConnectTask
  <2>2. ASSUME NEW e, NEW c, client' = [Taken EXCEPT !.epoch = e, !.cutoff = c]
        PROVE  client'.queued = 0
    BY <1>1, <2>2 DEF Clients
  <2> QED
    BY <1>3, <2>1, <2>2, TaskStutter DEF ClientSeedResume
<1>4. CASE ClientSeedData
  BY <1>1, <1>4, TaskStutter DEF ClientSeedData, Clients
<1>5. CASE ClientDropOutput
  BY <1>1, <1>5, TaskStutter DEF ClientDropOutput, clientVars
<1>6. CASE ClientOutput
  <2>1. CASE Connect
    BY <2>1, ConnectTask
  <2>2. CASE client' = [Taken EXCEPT !.revision = @ + 1]
             /\ UNCHANGED <<serverVars, connected>>
    BY <1>1, <2>2, TaskStutter DEF Clients
  <2> QED
    BY <1>6, <2>1, <2>2 DEF ClientOutput
<1>7. CASE ClientPostFlush
  BY <1>1, <1>7, TaskStutter DEF ClientPostFlush
<1>8. CASE ClientSeedOpen
  BY <1>1, <1>8, TaskStutter DEF ClientSeedOpen, Clients
<1>9. CASE ClientSelectionCheck
  BY <1>1, <1>9, TaskStutter DEF ClientSelectionCheck, Clients
<1>10. CASE ClientSelectionResult
  BY <1>1, <1>10, TaskStutter DEF ClientSelectionResult, Clients
<1>11. CASE ClientReady
  BY <1>1, <1>11, TaskStutter DEF ClientReady, Clients
<1> QED
  BY <1>2, <1>3, <1>4, <1>5, <1>6, <1>7, <1>8, <1>9, <1>10, <1>11

\* Only a watchdog that runs out while messages are on their way leaves something
\* to count: the stuck one finds none.
LEMMA AsksForReseed ==
    ASSUME Prompt, TypeOK, WatchdogWhenStuck \/ SlowWatchdog \/ ClientBacklog
    PROVE  /\ client' = [client EXCEPT !.authoritative = FALSE, !.reseedPending = TRUE,
                                       !.queued = 0]
           /\ UNCHANGED <<serverVars, connected, toClient, screen>>
<1>1. ~SlowWatchdog
  BY DEF SlowWatchdog, Disturb, Prompt
<1>2. CASE ClientBacklog
  BY <1>2 DEF ClientBacklog, RecoveryReseed
<1>3. CASE WatchdogWhenStuck
  <2>1. Len(toClient) = 0
    BY <1>3 DEF WatchdogWhenStuck, Stuck
  <2>2. PICK arrived \in 0..Len(toClient) : RecoveryReseed(arrived)
    BY <1>3 DEF WatchdogWhenStuck, RecoveryWatchdog
  <2>3. arrived = 0
    BY <2>1, <2>2
  <2> QED
    BY <1>3, <2>2, <2>3 DEF WatchdogWhenStuck, RecoveryWatchdog, RecoveryReseed
<1> QED
  BY <1>1, <1>2, <1>3

LEMMA TaskUser ==
    ASSUME Prompt, TypeOK, TypeOK', TaskInvariant,
           \/ WatchdogWhenStuck \/ SlowWatchdog \/ ClientBacklog \/ ClientRequest
           \/ ClientSelect \/ ClientSelectionTimeout \/ ClientSwitch
    PROVE  TaskInvariant'
<1>1. client \in Clients /\ client.queued = 0
  BY TakenPrompt, ClientFields
<1>2. CASE WatchdogWhenStuck \/ SlowWatchdog \/ ClientBacklog
  BY <1>1, <1>2, AsksForReseed, TaskStutter DEF Clients
<1>3. CASE ClientRequest
  BY <1>1, <1>3, TaskStutter DEF ClientRequest, clientVars
<1>4. CASE ClientSelect
  <2>1. UNCHANGED <<serverVars, connected>>
    BY <1>4 DEF ClientSelect
  <2>2. PICK i, s : client' = [client EXCEPT !.selections = i, !.selection = s]
    BY <1>4 DEF ClientSelect
  <2>3. client'.queued = 0
    BY <1>1, <2>2 DEF Clients
  <2> QED
    BY <2>1, <2>3, TaskStutter
<1>5. CASE ClientSelectionTimeout
  BY <1>1, <1>5, TaskStutter DEF ClientSelectionTimeout, Clients, netVars
<1>6. CASE ClientSwitch
  <2>1. UNCHANGED <<serverVars, connected>>
    BY <1>6 DEF ClientSwitch
  <2>2. PICK s : client' = [client EXCEPT !.selected = s, !.authoritative = FALSE]
    BY <1>6 DEF ClientSwitch
  <2>3. client'.queued = 0
    BY <1>1, <2>2 DEF Clients
  <2> QED
    BY <2>1, <2>3, TaskStutter
<1> QED
  BY <1>2, <1>3, <1>4, <1>5, <1>6

LEMMA TaskTmux ==
    ASSUME TypeOK, TaskInvariant, NEW p \in Panes, PaneOutput(p) \/ SelectPane(p)
    PROVE  TaskInvariant'
BY TaskStutter, TakenPrompt DEF PaneOutput, SelectPane, clientVars, netVars

LEMMA TaskStep ==
    ASSUME Prompt, TypeOK, TypeOK', TaskInvariant, [Next]_vars
    PROVE  TaskInvariant'
<1>1. CASE Reader
  BY <1>1, TaskReader
<1>2. CASE Server
  <2>1. CASE MainReseed \/ HandleReseedRequest \/ HandleActivity \/ WatchReseed \/ Stabilize
    BY <2>1, TaskBegin
  <2>2. CASE \/ StartAcked \/ TakeSnapshot \/ AcceptSnapshot \/ RetryCapture
             \/ InstallDegraded \/ SeedAcked \/ BeginFlush \/ SendHeld \/ EndFlush
    BY <2>2, TaskSeed
  <2>3. CASE \/ FlushAcked \/ HoldForSelection \/ RejectSelection \/ SelectionAcked
             \/ BeginRelease \/ EndRelease \/ EndSpeech \/ StabilizerStops \/ WatchNotice
    BY <2>3, TaskLocks
  <2>4. CASE HandleSwitch
    BY <2>4, TaskConnection
  <2> QED
    BY <1>2, <2>1, <2>2, <2>3, <2>4 DEF Server
<1>3. CASE Browser
  BY <1>3, TaskBrowser, TaskUser, TaskConnection DEF Browser
<1>4. CASE Environment
  <2>1. CASE GiveUp \/ SelectionAckTimeout \/ BeginSpeech
    BY <2>1, TaskSeed, TaskLocks
  <2>2. CASE StartAckTimeout \/ JobFails \/ Drop
    BY <2>2, TaskConnection
  <2>3. CASE \/ SlowWatchdog \/ ClientBacklog \/ ClientRequest
             \/ ClientSelect \/ ClientSelectionTimeout \/ ClientSwitch
    BY <2>3, TaskUser
  <2>4. CASE \E p \in Panes : PaneOutput(p) \/ SelectPane(p)
    BY <2>4, TaskTmux
  <2> QED
    BY <1>4, <2>1, <2>2, <2>3, <2>4 DEF Environment
<1>5. CASE UNCHANGED vars
  BY <1>5, TaskStutter, TakenPrompt DEF vars, clientVars, netVars
<1> QED
  BY <1>1, <1>2, <1>3, <1>4, <1>5 DEF Next, Progress

LEMMA TaskInit == Init => TaskInvariant
<1> SUFFICES ASSUME Init PROVE TaskInvariant
  OBVIOUS
<1>1. /\ connected /\ sendLock = "free" /\ client.queued = 0 /\ job = NoJob
      /\ watcher = WatcherAt("up")
  BY DEF Init
<1>2. bridge.foreign = {}
  BY DEF Init, NewBridge
<1> QED
  BY <1>1, <1>2 DEF TaskInvariant, Parked, PromptNow, SnapshotStage, ResumableIsMains,
    WatcherMoves, ForeignPast, NoJob, WatcherAt, Resumable
-----------------------------------------------------------------------------
(* What is on its way to the screen                                        *)

\* What a step of the browser that handles no message may do.
Settles ==
    /\ client'.authoritative => client.authoritative
    /\ client'.epoch = client.epoch /\ client'.pane = client.pane
    /\ client'.cutoff = client.cutoff
    /\ client.reseedPending => client'.reseedPending
    /\ Seen => Seen'
    /\ ExactNow' => ExactNow
    /\ ScreenInStep'

LEMMA ShowSettles ==
    ASSUME ShowInvariant, UNCHANGED toClient, Settles
    PROVE  ShowInvariant'
<1>1. /\ Seeds' = Seeds /\ Opens' = Opens /\ Outputs' = Outputs /\ Breaks' = Breaks
      /\ \A i, T : Ahead(i, T)' <=> Ahead(i, T)
  BY TypesSame DEF Seeds, Opens, Outputs, Breaks, Ahead
<1>2. SeedsExact' /\ SeedsUnseen'
  BY <1>1 DEF ShowInvariant, SeedsExact, SeedsUnseen, Settles
<1>3. OpensNext'
  BY <1>1 DEF ShowInvariant, OpensNext, Settles
<1>4. LiveSeen'
  BY <1>1 DEF ShowInvariant, LiveSeen, Settles
<1>5. ForeignShielded'
  BY <1>1 DEF ShowInvariant, ForeignShielded, Settles
<1> QED
  BY <1>2, <1>3, <1>4, <1>5 DEF ShowInvariant, Settles

LEMMA ShowSame ==
    ASSUME ShowInvariant, UNCHANGED <<toClient, clientVars>>
    PROVE  ShowInvariant'
<1>1. Settles
  BY DEF Settles, clientVars, Seen, ExactNow, ShowInvariant, ScreenInStep
<1> QED
  BY <1>1, ShowSettles

\* The messages the screen is about, after one more.
LEMMA ShowTypes ==
    ASSUME NEW m, Appended(m)
    PROVE  /\ Len(toClient) \in Nat /\ toClient'[Len(toClient) + 1] = m
           /\ \A i \in 1..Len(toClient) : toClient'[i] = toClient[i]
           /\ \A i : i \in Seeds' <=>
                i \in Seeds \/ (i = Len(toClient) + 1 /\ m.type = "seed-data")
           /\ \A i : i \in Opens' <=>
                i \in Opens \/ (i = Len(toClient) + 1 /\ m.type = "seed-open")
           /\ \A i : i \in Outputs' <=>
                i \in Outputs \/ (i = Len(toClient) + 1 /\ m.type = "terminal-output")
           /\ \A i \in Breaks : i \in Breaks'
           /\ Seeds \subseteq 1..Len(toClient) /\ Opens \subseteq 1..Len(toClient)
           /\ Outputs \subseteq 1..Len(toClient) /\ Breaks \subseteq 1..Len(toClient)
BY DEF Appended, Seeds, Opens, Outputs, Breaks, OnTheirWay

LEMMA AheadAppend ==
    ASSUME NEW m, Appended(m), NEW T
    PROVE  /\ \A i \in 1..Len(toClient) : Ahead(i, T) => Ahead(i, T)'
           /\ Behind(0, T) => \A i : i = Len(toClient) + 1 => Ahead(i, T)'
BY DEF Ahead, Behind, Appended

\* A message that may follow what is on its way.
Follows(m) ==
    /\ m.type = "seed-data" =>
         /\ m.exact => m.content = m.cutoff
         /\ ~client.authoritative /\ Opens = {}
    /\ m.type = "seed-open" =>
         /\ Behind(0, {"selection-result"})
         /\ client.reseedPending \/
              (m.epoch = client.epoch /\ m.pane = client.pane /\ m.cutoff = client.cutoff)
    /\ m.type = "terminal-output" =>
         /\ m.kind = "live" => Behind(0, LiveTypes) /\ (Seen \/ Opens # {})
         /\ ~m.own =>
              /\ ExactNow => client.pane # m.pane
              /\ \A j \in Seeds : toClient[j].exact => toClient[j].pane # m.pane

LEMMA ShowAppend ==
    ASSUME ShowInvariant, NEW m, Appended(m), Follows(m), UNCHANGED clientVars
    PROVE  ShowInvariant'
<1>0. PICK n : n = Len(toClient) + 1
  OBVIOUS
<1>1. /\ n \in Nat /\ Len(toClient) \in Nat /\ n = Len(toClient) + 1
      /\ toClient'[n] = m /\ \A i \in 1..Len(toClient) : toClient'[i] = toClient[i]
      /\ \A i : i \in Seeds' <=> i \in Seeds \/ (i = n /\ m.type = "seed-data")
      /\ \A i : i \in Opens' <=> i \in Opens \/ (i = n /\ m.type = "seed-open")
      /\ \A i : i \in Outputs' <=> i \in Outputs \/ (i = n /\ m.type = "terminal-output")
      /\ \A i \in Breaks : i \in Breaks'
      /\ Seeds \subseteq 1..Len(toClient) /\ Opens \subseteq 1..Len(toClient)
      /\ Outputs \subseteq 1..Len(toClient) /\ Breaks \subseteq 1..Len(toClient)
  BY <1>0, ShowTypes
<1>2. ASSUME NEW T
      PROVE  /\ \A i \in 1..Len(toClient) : Ahead(i, T) => Ahead(i, T)'
             /\ Behind(0, T) => Ahead(n, T)'
  BY <1>0, AheadAppend
<1>3. UNCHANGED <<client, screen>> /\ (Seen' <=> Seen) /\ (ExactNow' <=> ExactNow)
  BY DEF clientVars, Seen, ExactNow
<1>4. ScreenInStep'
  BY <1>3 DEF ShowInvariant, ScreenInStep
<1>5. SeedsExact'
  <2>1. ASSUME NEW i \in Seeds', toClient'[i].exact
        PROVE  toClient'[i].content = toClient'[i].cutoff
    <3>1. CASE i \in Seeds
      BY <1>1, <2>1, <3>1 DEF ShowInvariant, SeedsExact
    <3>2. CASE i = n /\ m.type = "seed-data"
      BY <1>1, <2>1, <3>2 DEF Follows
    <3> QED
      BY <1>1, <3>1, <3>2
  <2> QED
    BY <2>1 DEF SeedsExact
<1>6. SeedsUnseen'
  <2> SUFFICES ASSUME NEW i \in Seeds'
               PROVE  /\ client.authoritative => \E j \in Breaks' : j < i
                      /\ \A k \in Opens' : k < i => \E j \in Breaks' : k < j /\ j < i
    BY <1>3 DEF SeedsUnseen
  <2>1. CASE i \in Seeds
    <3>1. i \in 1..Len(toClient)
      BY <1>1, <2>1
    <3>2. ASSUME NEW k \in Opens', k < i PROVE k \in Opens
      BY <1>1, <3>1, <3>2
    <3> QED
      BY <1>1, <2>1, <3>2 DEF ShowInvariant, SeedsUnseen
  <2>2. CASE i = n /\ m.type = "seed-data"
    <3>1. ~client.authoritative /\ Opens' = {}
      BY <1>1, <2>2 DEF Follows
    <3> QED
      BY <3>1
  <2> QED
    BY <1>1, <2>1, <2>2
<1>7. OpensNext'
  <2> SUFFICES ASSUME NEW i \in Opens'
               PROVE  /\ Ahead(i, {"selection-result"})'
                      /\ \/ client.reseedPending
                         \/ /\ toClient'[i].epoch = client.epoch
                            /\ toClient'[i].pane = client.pane
                            /\ toClient'[i].cutoff = client.cutoff
    BY <1>3 DEF OpensNext
  <2>1. CASE i \in Opens
    <3>1. i \in 1..Len(toClient) /\ toClient'[i] = toClient[i]
      BY <1>1, <2>1
    <3>2. Ahead(i, {"selection-result"})
      BY <2>1 DEF ShowInvariant, OpensNext
    <3>3. Ahead(i, {"selection-result"})'
      BY <1>2, <3>1, <3>2
    <3> QED
      BY <2>1, <3>1, <3>3 DEF ShowInvariant, OpensNext
  <2>2. CASE i = n /\ m.type = "seed-open"
    <3>1. Behind(0, {"selection-result"})
      BY <2>2 DEF Follows
    <3>2. Ahead(n, {"selection-result"})'
      BY <1>2, <3>1
    <3>3. Ahead(i, {"selection-result"})'
      BY <2>2, <3>2 DEF Ahead
    <3> QED
      BY <1>1, <2>2, <3>3 DEF Follows
  <2> QED
    BY <1>1, <2>1, <2>2
<1>8. LiveSeen'
  <2> SUFFICES ASSUME NEW i \in Outputs', toClient'[i].kind = "live"
               PROVE  Ahead(i, LiveTypes)' /\ (Seen' \/ \E j \in Opens' : j < i)
    BY DEF LiveSeen, LiveTypes
  <2>1. CASE i \in Outputs
    BY <1>1, <1>2, <1>3, <2>1 DEF ShowInvariant, LiveSeen
  <2>2. CASE i = n /\ m.type = "terminal-output"
    <3>1. Behind(0, LiveTypes) /\ (Seen \/ Opens # {})
      BY <1>1, <2>2 DEF Follows
    <3>2. Ahead(n, LiveTypes)'
      BY <1>2, <3>1
    <3>3. Ahead(i, LiveTypes)'
      BY <2>2, <3>2 DEF Ahead
    <3>4. \A j \in Opens : j \in Opens' /\ j < n
      BY <1>1
    <3> QED
      BY <1>3, <2>2, <3>1, <3>3, <3>4
  <2> QED
    BY <1>1, <2>1, <2>2
<1>9. ForeignShielded'
  <2> SUFFICES ASSUME NEW i \in Outputs', ~toClient'[i].own
               PROVE  /\ ExactNow => client.pane # toClient'[i].pane
                      /\ \A j \in Seeds' :
                           j < i /\ toClient'[j].exact => toClient'[j].pane # toClient'[i].pane
    BY <1>3 DEF ForeignShielded
  <2>1. CASE i \in Outputs
    <3>1. i \in 1..Len(toClient)
      BY <1>1, <2>1
    <3>2. ASSUME NEW j \in Seeds', j < i PROVE j \in Seeds
      BY <1>1, <3>1, <3>2
    <3> QED
      BY <1>1, <2>1, <3>2 DEF ShowInvariant, ForeignShielded
  <2>2. CASE i = n /\ m.type = "terminal-output"
    <3>1. Seeds' = Seeds
      BY <1>1, <2>2
    <3> QED
      BY <1>1, <2>2, <3>1 DEF Follows
  <2> QED
    BY <1>1, <2>1, <2>2
<1> QED
  BY <1>4, <1>5, <1>6, <1>7, <1>8, <1>9 DEF ShowInvariant
\* What a browser does when it handles the first message, h.
Handled(h) ==
    /\ client'.authoritative => client.authoritative \/ h.type = "seed-open"
    /\ h.type \in {"seed-start", "ready"} => ~client'.authoritative
    /\ h.type = "selection-result" =>
         /\ client'.epoch = client.epoch /\ client'.pane = client.pane
         /\ client'.cutoff = client.cutoff
         /\ client.reseedPending => client'.reseedPending
    /\ h.type \in LiveTypes => (Seen => Seen')
    /\ h.type = "seed-open" => Seen'
    /\ h.type = "seed-resume" => client.pane = h.pane
    /\ h.type = "seed-data" => client'.pane = h.pane /\ (ExactNow' => h.exact)
    /\ h.type # "seed-data" => client'.pane = client.pane /\ (ExactNow' => ExactNow)
    /\ ScreenInStep'

LEMMA PopTypes ==
    ASSUME Popped
    PROVE  /\ \A i \in Seeds' : i \in Nat \ {0} /\ i + 1 \in Seeds /\ toClient'[i] = toClient[i + 1]
           /\ \A i \in Opens' : i \in Nat \ {0} /\ i + 1 \in Opens /\ toClient'[i] = toClient[i + 1]
           /\ \A i \in Outputs' :
                i \in Nat \ {0} /\ i + 1 \in Outputs /\ toClient'[i] = toClient[i + 1]
           /\ \A j \in Breaks : j \in Nat /\ (j = 1 \/ j - 1 \in Breaks')
           /\ \A j \in Opens : j \in Nat /\ (j = 1 \/ j - 1 \in Opens')
<1>1. /\ Len(toClient) = Len(toClient') + 1 /\ Len(toClient) \in Nat /\ Len(toClient') \in Nat
      /\ \A i \in 1..Len(toClient') : toClient'[i] = toClient[i + 1]
  BY DEF Popped
<1>2. ASSUME NEW T
      PROVE  /\ \A i \in OnTheirWay(T)' :
                  i \in Nat \ {0} /\ i + 1 \in OnTheirWay(T) /\ toClient'[i] = toClient[i + 1]
             /\ \A j \in OnTheirWay(T) : j \in Nat /\ (j = 1 \/ j - 1 \in OnTheirWay(T)')
  <2>1. \A i \in OnTheirWay(T)' :
          i \in Nat \ {0} /\ i + 1 \in OnTheirWay(T) /\ toClient'[i] = toClient[i + 1]
    BY TypesPop
  <2>2. ASSUME NEW j \in OnTheirWay(T), j # 1 PROVE j - 1 \in OnTheirWay(T)'
    <3>1. j \in 1..Len(toClient) /\ toClient[j].type \in T
      BY DEF OnTheirWay
    <3>2. j - 1 \in 1..Len(toClient') /\ (j - 1) + 1 = j
      BY <1>1, <2>2, <3>1
    <3>3. toClient'[j - 1] = toClient[j]
      BY <1>1, <3>2
    <3> QED
      BY <3>1, <3>2, <3>3 DEF OnTheirWay
  <2> QED
    BY <2>1, <2>2, Positions
<1> QED
  BY <1>2 DEF Seeds, Opens, Outputs, Breaks

LEMMA AheadPop ==
    ASSUME Popped, NEW i \in Nat \ {0}, NEW T, Ahead(i + 1, T), i + 1 \in 1..Len(toClient)
    PROVE  Ahead(i, T)' /\ toClient[1].type \in T
<1>1. /\ Len(toClient) = Len(toClient') + 1 /\ Len(toClient) \in Nat /\ Len(toClient') \in Nat
      /\ \A k \in 1..Len(toClient') : toClient'[k] = toClient[k + 1]
  BY DEF Popped
<1>2. \A j \in 1..Len(toClient') :
        j < i => j + 1 \in 1..Len(toClient) /\ j + 1 < i + 1 /\ toClient'[j] = toClient[j + 1]
  BY <1>1
<1>3. 1 \in 1..Len(toClient) /\ 1 < i + 1
  BY <1>1
<1> QED
  BY <1>2, <1>3 DEF Ahead

LEMMA ShowPop ==
    ASSUME TypeOK, ShowInvariant, Popped, Handled(toClient[1])
    PROVE  ShowInvariant'
<1> DEFINE h == toClient[1]
<1>1. /\ \A i \in Seeds' : i \in Nat \ {0} /\ i + 1 \in Seeds /\ toClient'[i] = toClient[i + 1]
      /\ \A i \in Opens' : i \in Nat \ {0} /\ i + 1 \in Opens /\ toClient'[i] = toClient[i + 1]
      /\ \A i \in Outputs' :
           i \in Nat \ {0} /\ i + 1 \in Outputs /\ toClient'[i] = toClient[i + 1]
      /\ \A j \in Breaks : j \in Nat /\ (j = 1 \/ j - 1 \in Breaks')
      /\ \A j \in Opens : j \in Nat /\ (j = 1 \/ j - 1 \in Opens')
  BY PopTypes
<1>2. ScreenInStep'
  BY DEF Handled
<1>3. SeedsExact'
  BY <1>1 DEF ShowInvariant, SeedsExact
<1>4. /\ 1 \in Breaks => h.type \in {"seed-start", "ready"}
      /\ h.type = "seed-open" => 1 \in Opens
      /\ h.type = "seed-data" => 1 \in Seeds
      /\ 1 \in Opens => h.type = "seed-open"
  BY DEF Popped, Breaks, Opens, Seeds, OnTheirWay
<1>5. SeedsUnseen'
  <2> SUFFICES ASSUME NEW i \in Seeds'
               PROVE  /\ client'.authoritative => \E j \in Breaks' : j < i
                      /\ \A k \in Opens' : k < i => \E j \in Breaks' : k < j /\ j < i
    BY DEF SeedsUnseen
  <2>1. i \in Nat \ {0} /\ i + 1 \in Seeds
    BY <1>1
  <2>2. ASSUME client'.authoritative PROVE \E j \in Breaks' : j < i
    <3>1. PICK j \in Breaks : j < i + 1 /\ j # 1
      <4>1. CASE client.authoritative
        <5>1. PICK j \in Breaks : j < i + 1
          BY <2>1, <4>1 DEF ShowInvariant, SeedsUnseen
        <5>2. j # 1
          BY <1>4, <2>2 DEF Handled
        <5> QED
          BY <5>1, <5>2
      <4>2. CASE h.type = "seed-open"
        <5>1. 1 \in Opens /\ 1 < i + 1
          BY <1>4, <2>1, <4>2
        <5>2. PICK j \in Breaks : 1 < j /\ j < i + 1
          BY <2>1, <5>1 DEF ShowInvariant, SeedsUnseen
        <5> QED
          BY <5>2
      <4> QED
        BY <2>2, <4>1, <4>2 DEF Handled
    <3>2. j \in Nat /\ j - 1 \in Breaks'
      BY <1>1, <3>1
    <3>3. j - 1 < i
      BY <2>1, <3>1, <3>2
    <3> QED
      BY <3>2, <3>3
  <2>3. ASSUME NEW k \in Opens', k < i PROVE \E j \in Breaks' : k < j /\ j < i
    <3>1. k \in Nat \ {0} /\ k + 1 \in Opens /\ k + 1 < i + 1
      BY <1>1, <2>1, <2>3
    <3>2. PICK j \in Breaks : k + 1 < j /\ j < i + 1
      BY <2>1, <3>1 DEF ShowInvariant, SeedsUnseen
    <3>3. j \in Nat /\ j # 1
      BY <1>1, <3>1, <3>2
    <3>4. j - 1 \in Breaks' /\ k < j - 1 /\ j - 1 < i
      BY <1>1, <2>1, <3>1, <3>2, <3>3
    <3> QED
      BY <3>4
  <2> QED
    BY <2>2, <2>3
<1>6. OpensNext'
  <2> SUFFICES ASSUME NEW i \in Opens'
               PROVE  /\ Ahead(i, {"selection-result"})'
                      /\ \/ client'.reseedPending
                         \/ /\ toClient'[i].epoch = client'.epoch
                            /\ toClient'[i].pane = client'.pane
                            /\ toClient'[i].cutoff = client'.cutoff
    BY DEF OpensNext
  <2>1. i \in Nat \ {0} /\ i + 1 \in Opens /\ toClient'[i] = toClient[i + 1]
    BY <1>1
  <2>2. Ahead(i + 1, {"selection-result"}) /\ i + 1 \in 1..Len(toClient)
    BY <2>1 DEF ShowInvariant, OpensNext, Opens, OnTheirWay
  <2>3. Ahead(i, {"selection-result"})' /\ h.type = "selection-result"
    BY <2>1, <2>2, AheadPop
  <2>4. \/ client.reseedPending
        \/ /\ toClient[i + 1].epoch = client.epoch
           /\ toClient[i + 1].pane = client.pane
           /\ toClient[i + 1].cutoff = client.cutoff
    BY <2>1 DEF ShowInvariant, OpensNext
  <2> QED
    BY <2>1, <2>3, <2>4 DEF Handled
<1>7. LiveSeen'
  <2> SUFFICES ASSUME NEW i \in Outputs', toClient'[i].kind = "live"
               PROVE  Ahead(i, LiveTypes)' /\ (Seen' \/ \E j \in Opens' : j < i)
    BY DEF LiveSeen, LiveTypes
  <2>1. i \in Nat \ {0} /\ i + 1 \in Outputs /\ toClient'[i] = toClient[i + 1]
    BY <1>1
  <2>2. /\ Ahead(i + 1, LiveTypes) /\ i + 1 \in 1..Len(toClient)
        /\ Seen \/ \E j \in Opens : j < i + 1
    BY <2>1 DEF ShowInvariant, LiveSeen, Outputs, OnTheirWay
  <2>3. Ahead(i, LiveTypes)' /\ h.type \in LiveTypes
    BY <2>1, <2>2, AheadPop
  <2>4. CASE Seen
    BY <2>3, <2>4 DEF Handled
  <2>5. ASSUME NEW j \in Opens, j < i + 1 PROVE Seen' \/ \E k \in Opens' : k < i
    <3>1. CASE j = 1
      BY <1>4, <2>5, <3>1 DEF Handled
    <3>2. CASE j # 1
      <4>1. j \in Nat /\ j - 1 \in Opens'
        BY <1>1, <3>2
      <4>2. j - 1 < i
        BY <2>1, <2>5, <4>1
      <4> QED
        BY <4>1, <4>2
    <3> QED
      BY <3>1, <3>2
  <2> QED
    BY <2>2, <2>3, <2>4, <2>5
<1>8. ForeignShielded'
  <2> SUFFICES ASSUME NEW i \in Outputs', ~toClient'[i].own
               PROVE  /\ ExactNow' => client'.pane # toClient'[i].pane
                      /\ \A j \in Seeds' :
                           j < i /\ toClient'[j].exact => toClient'[j].pane # toClient'[i].pane
    BY DEF ForeignShielded
  <2>1. i \in Nat \ {0} /\ i + 1 \in Outputs /\ toClient'[i] = toClient[i + 1] /\ 1 < i + 1
    BY <1>1
  <2>2. /\ ExactNow => client.pane # toClient[i + 1].pane
        /\ \A j \in Seeds :
             j < i + 1 /\ toClient[j].exact => toClient[j].pane # toClient[i + 1].pane
    BY <2>1 DEF ShowInvariant, ForeignShielded
  <2>3. ExactNow' => client'.pane # toClient'[i].pane
    <3>1. CASE h.type = "seed-data"
      BY <1>4, <2>1, <2>2, <3>1 DEF Handled
    <3>2. CASE h.type # "seed-data"
      BY <2>1, <2>2, <3>2 DEF Handled
    <3> QED
      BY <3>1, <3>2
  <2>4. ASSUME NEW j \in Seeds', j < i
        PROVE  j + 1 \in Seeds /\ j + 1 < i + 1 /\ toClient'[j] = toClient[j + 1]
    BY <1>1, <2>1, <2>4
  <2> QED
    BY <2>1, <2>2, <2>3, <2>4
<1> QED
  BY <1>2, <1>3, <1>5, <1>6, <1>7, <1>8 DEF ShowInvariant
\* A new connection: the browser keeps its screen and no authority.
LEMMA ShowFresh ==
    ASSUME NEW s, toClient' = <<Ready(s)>>, ScreenInStep'
    PROVE  ShowInvariant'
<1>1. \A i \in 1..Len(toClient') : toClient'[i].type = "ready"
  BY DEF Ready
<1>2. Seeds' = {} /\ Opens' = {} /\ Outputs' = {}
  BY <1>1 DEF Seeds, Opens, Outputs, OnTheirWay
<1> QED
  BY <1>2 DEF ShowInvariant, SeedsExact, SeedsUnseen, OpensNext, LiveSeen, ForeignShielded

-----------------------------------------------------------------------------
(* How the bridge is tied to the screen                                    *)

Watching == watcher.at \in {"up", "waiting"}

\* A step of the server that adds no seed and opens nothing.
LEMMA LinkKept ==
    ASSUME LinkInvariant, connected' => connected, UNCHANGED clientVars,
           Resumes' = Resumes, Seeds' = Seeds, \A i \in Seeds : toClient'[i] = toClient[i],
           Opens # {} => Opens' # {}, bridge'.pane = bridge.pane,
           Tainted' => Tainted, Live' => Live, InFlush' => Live \/ InFlush,
           connected /\ Resumes # {} => job'.task = "main" /\ InFlush',
           Watching' => Watching,
           bridge'.reading # NoPane => bridge.reading # NoPane
    PROVE  LinkInvariant'
<1>1. (Seen' <=> Seen) /\ (ExactNow' <=> ExactNow) /\ UNCHANGED client
  BY DEF clientVars, Seen, ExactNow
<1>2. ResumesInFlush'
  BY DEF LinkInvariant, ResumesInFlush
<1>3. OutputSeen'
  BY <1>1 DEF LinkInvariant, OutputSeen
<1>4. TaintShielded'
  BY <1>1 DEF LinkInvariant, TaintShielded
<1>5. PaneShown'
  BY <1>1 DEF LinkInvariant, PaneShown
<1>6. ReadingShown'
  BY <1>1 DEF LinkInvariant, ReadingShown, Watching
<1> QED
  BY <1>2, <1>3, <1>4, <1>5, <1>6 DEF LinkInvariant

LEMMA LinkClosed ==
    ASSUME ~connected'
    PROVE  LinkInvariant'
BY DEF LinkInvariant, ResumesInFlush, OutputSeen, TaintShielded, PaneShown, ReadingShown

\* A new bridge holds its output and has read nothing.
LEMMA LinkFresh ==
    ASSUME NEW s, NEW e, bridge' = NewBridge(s, e), job' = NoJob,
           connected' => Resumes' = {}
    PROVE  LinkInvariant'
<1>1. /\ bridge'.phase = "hold" /\ bridge'.hold = 0 /\ bridge'.foreign = {}
      /\ bridge'.reading = NoPane /\ job'.pc = "idle"
  BY DEF NewBridge, NoJob
<1>2. ~Live' /\ ~InFlush' /\ ~Tainted'
  BY <1>1 DEF Live, InFlush, Tainted
<1> QED
  BY <1>1, <1>2 DEF LinkInvariant, ResumesInFlush, OutputSeen, TaintShielded, PaneShown,
    ReadingShown

LEMMA LinkSettles ==
    ASSUME LinkInvariant, UNCHANGED <<serverVars, connected, toClient>>, Settles
    PROVE  LinkInvariant'
<1>1. /\ Seeds' = Seeds /\ Opens' = Opens /\ Resumes' = Resumes
      /\ (Live' <=> Live) /\ (InFlush' <=> InFlush) /\ (Tainted' <=> Tainted)
  BY TypesSame DEF Seeds, Opens, Resumes, Live, InFlush, Tainted, Waiting, serverVars
<1>2. UNCHANGED <<bridge, job, watcher>>
  BY DEF serverVars
<1>3. ResumesInFlush' /\ OutputSeen'
  BY <1>1, <1>2 DEF LinkInvariant, ResumesInFlush, OutputSeen, Settles
<1>4. TaintShielded'
  BY <1>1, <1>2 DEF LinkInvariant, TaintShielded, Settles
<1>5. PaneShown' /\ ReadingShown'
  BY <1>1, <1>2 DEF LinkInvariant, PaneShown, ReadingShown, Settles
<1> QED
  BY <1>3, <1>4, <1>5 DEF LinkInvariant

LEMMA LinkPop ==
    ASSUME TypeOK, PipelineInvariant, LinkInvariant, Popped, Handled(toClient[1]),
           UNCHANGED <<serverVars, connected>>
    PROVE  LinkInvariant'
<1> DEFINE h == toClient[1]
<1>1. /\ UNCHANGED <<bridge, job, watcher>> /\ (Live' <=> Live) /\ (InFlush' <=> InFlush)
      /\ (Tainted' <=> Tainted)
  BY DEF serverVars, Live, InFlush, Tainted, Waiting
<1>2. /\ \A i \in Seeds' : i + 1 \in Seeds /\ toClient'[i] = toClient[i + 1]
      /\ \A j \in Opens : j = 1 \/ j - 1 \in Opens'
      /\ \A i \in Resumes' : i + 1 \in Resumes
      /\ \A j \in Resumes : j = 1 \/ j - 1 \in Resumes'
  <2>1. \A i \in Resumes' : i + 1 \in Resumes
    BY TypesPop DEF Resumes
  <2>2. ASSUME NEW j \in Resumes, j # 1 PROVE j - 1 \in Resumes'
    <3>1. /\ j \in Nat \ {0} /\ j \in OnTheirWay({"seed-resume"})
          /\ j - 1 \in Nat \ {0} /\ (j - 1) + 1 = j
      BY <2>2, Positions DEF Resumes
    <3> QED
      BY <3>1, TypesPop DEF Resumes
  <2> QED
    BY <2>1, <2>2, PopTypes
<1>3. /\ 1 \in Opens => h.type = "seed-open"
      /\ h.type = "seed-data" => 1 \in Seeds
      /\ 1 \in Resumes <=> h.type = "seed-resume"
      /\ 1 \in 1..Len(toClient) /\ 0 < 1
  BY DEF Popped, Opens, Seeds, Resumes, OnTheirWay
<1>4. ResumesInFlush'
  BY <1>1, <1>2 DEF LinkInvariant, ResumesInFlush
<1>5. OutputSeen'
  <2> SUFFICES ASSUME connected, Live PROVE Seen' \/ Opens' # {}
    BY <1>1 DEF OutputSeen
  <2>1. h.type \in LiveTypes
    BY <1>3 DEF PipelineInvariant, LiveStage, Behind, LiveTypes
  <2>2. CASE Seen
    BY <2>1, <2>2 DEF Handled
  <2>3. CASE 1 \in Opens
    BY <1>3, <2>3 DEF Handled
  <2>4. CASE Opens # {} /\ 1 \notin Opens
    BY <1>2, <2>4
  <2> QED
    BY <2>2, <2>3, <2>4 DEF LinkInvariant, OutputSeen
<1>6. TaintShielded'
  <2> SUFFICES ASSUME connected, Tainted
               PROVE  /\ ExactNow' => client'.pane # bridge.pane
                      /\ \A i \in Seeds' : toClient'[i].exact => toClient'[i].pane # bridge.pane
    BY <1>1 DEF TaintShielded
  <2>1. /\ ExactNow => client.pane # bridge.pane
        /\ \A i \in Seeds : toClient[i].exact => toClient[i].pane # bridge.pane
    BY DEF LinkInvariant, TaintShielded
  <2>2. CASE h.type = "seed-data"
    BY <1>2, <1>3, <2>1, <2>2 DEF Handled
  <2>3. CASE h.type # "seed-data"
    BY <1>2, <2>1, <2>3 DEF Handled
  <2> QED
    BY <2>2, <2>3
<1>7. connected /\ (Live \/ InFlush) => client'.pane = bridge.pane \/ Resumes' # {}
  <2> SUFFICES ASSUME connected, Live \/ InFlush
               PROVE  client'.pane = bridge.pane \/ Resumes' # {}
    OBVIOUS
  <2>1. h.type # "seed-data"
    BY <1>3 DEF PipelineInvariant, LiveStage, FlushStage, InFlush, Behind
  <2>2. client'.pane = client.pane
    BY <2>1 DEF Handled
  <2>3. CASE h.type = "seed-resume"
    <3>1. InFlush
      BY <1>3, <2>3 DEF LinkInvariant, ResumesInFlush
    <3>2. h.pane = bridge.pane
      BY <1>3, <2>3, <3>1 DEF PipelineInvariant, FlushStage, InFlush, OfSeed, Resumes
    <3> QED
      BY <2>2, <2>3, <3>2 DEF Handled
  <2>4. CASE h.type # "seed-resume"
    <3>1. client.pane = bridge.pane \/ Resumes # {}
      BY DEF LinkInvariant, PaneShown
    <3> QED
      BY <1>2, <1>3, <2>2, <2>4, <3>1
  <2> QED
    BY <2>3, <2>4
<1>8. PaneShown'
  BY <1>1, <1>7 DEF PaneShown
<1>9. ReadingShown'
  <2> SUFFICES ASSUME connected, watcher.at \in {"up", "waiting"}, bridge.reading # NoPane
               PROVE  /\ client'.pane = bridge.pane \/ Resumes' # {}
                      /\ \A i \in Seeds' : toClient'[i].pane = bridge.pane
    BY <1>1 DEF ReadingShown
  <2>1. /\ client.pane = bridge.pane \/ Resumes # {}
        /\ \A i \in Seeds : toClient[i].pane = bridge.pane
    BY DEF LinkInvariant, ReadingShown
  <2>2. CASE h.type = "seed-data"
    BY <1>2, <1>3, <2>1, <2>2 DEF Handled
  <2>3. CASE h.type = "seed-resume"
    <3>1. InFlush
      BY <1>3, <2>3 DEF LinkInvariant, ResumesInFlush
    <3> QED
      BY <1>2, <1>7, <2>1, <3>1
  <2>4. CASE h.type \notin {"seed-data", "seed-resume"}
    BY <1>2, <1>3, <2>1, <2>4 DEF Handled
  <2> QED
    BY <2>2, <2>3, <2>4
<1> QED
  BY <1>4, <1>5, <1>6, <1>8, <1>9 DEF LinkInvariant
-----------------------------------------------------------------------------
(* The browser                                                             *)

LEMMA ScreenPop ==
    ASSUME TypeOK, PipelineInvariant, ShowInvariant, LinkInvariant,
           toClient # <<>>, toClient' = Tail(toClient), NEW h, h = Head(toClient),
           Handled(h), UNCHANGED <<serverVars, connected>>
    PROVE  ShowInvariant' /\ LinkInvariant'
<1>1. Popped /\ h = toClient[1]
  BY PopWire
<1>2. Handled(toClient[1])
  BY <1>1
<1> QED
  BY <1>1, <1>2, ShowPop, LinkPop

\* A message that changes neither the screen nor the browser's place, beside what
\* it says of the authority.
LEMMA HandledQuietly ==
    ASSUME ShowInvariant, NEW h, h.type \notin {"seed-data", "seed-resume", "seed-open"},
           UNCHANGED screen,
           client'.pane = client.pane, client'.revision = client.revision,
           client'.authoritative => client.authoritative,
           h.type \in {"seed-start", "ready"} => ~client'.authoritative,
           h.type \notin {"seed-start", "ready"} =>
               /\ client'.epoch = client.epoch /\ client'.cutoff = client.cutoff
               /\ client'.reseedPending = client.reseedPending
               /\ client'.authoritative = client.authoritative
    PROVE  Handled(h)
<1>1. ExactNow' <=> ExactNow
  BY DEF ExactNow
<1>2. h.type \in LiveTypes => (Seen' <=> Seen)
  BY DEF LiveTypes, Seen
<1>3. ScreenInStep'
  BY <1>1 DEF ShowInvariant, ScreenInStep
<1> QED
  BY <1>1, <1>2, <1>3 DEF Handled

\* The first message, and the client that counts none of them.
LEMMA FirstMessage ==
    ASSUME TypeOK, TaskInvariant, toClient # <<>>
    PROVE  /\ Head(toClient) = toClient[1] /\ 1 \in 1..Len(toClient)
           /\ Head(toClient) \in ServerMessages
           /\ Taken = client /\ client \in Clients /\ client.queued = 0
<1>1. toClient \in Seq(ServerMessages)
  BY DEF TypeOK, NetTypeOK
<1>2. Head(toClient) = toClient[1] /\ 1 \in 1..Len(toClient)
  BY <1>1
<1> QED
  BY <1>1, <1>2, TakenPrompt, ClientFields

LEMMA ScreenConnects ==
    ASSUME TypeOK, ShowInvariant, Connect
    PROVE  ShowInvariant' /\ LinkInvariant'
<1>1. /\ toClient' = <<Ready(client.selected)>> /\ UNCHANGED screen
      /\ bridge' = NewBridge(client.selected, 0) /\ job' = NoJob
      /\ client' = [client EXCEPT !.authoritative = FALSE, !.seedInFlight = FALSE,
                                  !.reseedPending = FALSE, !.queued = 0,
                                  !.selection = NoSelection, !.ready = FALSE]
  BY DEF Connect
<1>2. client'.revision = client.revision
  BY <1>1, ClientFields DEF Clients
<1>3. ScreenInStep'
  BY <1>1, <1>2 DEF ShowInvariant, ScreenInStep, ExactNow
<1>4. PICK s : s = client.selected
  OBVIOUS
<1>5. toClient' = <<Ready(s)>> /\ bridge' = NewBridge(s, 0)
  BY <1>1, <1>4
<1>6. ShowInvariant'
  BY <1>3, <1>5, ShowFresh
<1>7. Resumes' = {}
  BY <1>5 DEF Ready, Resumes, OnTheirWay
<1> QED
  BY <1>1, <1>5, <1>6, <1>7, LinkFresh

LEMMA ScreenPasses ==
    ASSUME TypeOK, TaskInvariant, PipelineInvariant, ShowInvariant, LinkInvariant,
           \/ ClientSeedStart \/ ClientDropOutput \/ ClientPostFlush
           \/ ClientSelectionCheck \/ ClientSelectionResult \/ ClientReady
    PROVE  ShowInvariant' /\ LinkInvariant'
<1> DEFINE h == Head(toClient)
<1>1. toClient # <<>> /\ toClient' = Tail(toClient) /\ UNCHANGED <<serverVars, connected, screen>>
  BY DEF ClientSeedStart, ClientDropOutput, ClientPostFlush, ClientSelectionCheck,
    ClientSelectionResult, ClientReady, Receive, clientVars
<1>2. Taken = client /\ client \in Clients
  BY <1>1, FirstMessage
<1>3. CASE ClientSeedStart
  <2>1. client' = SeedBegun /\ h.type = "seed-start"
    BY <1>3 DEF ClientSeedStart, Receive
  <2>2. /\ client'.pane = client.pane /\ client'.revision = client.revision
        /\ ~client'.authoritative
    BY <1>2, <2>1 DEF SeedBegun, Clients
  <2> QED
    BY <1>1, <2>1, <2>2, HandledQuietly, ScreenPop
<1>4. CASE ClientReady
  <2>1. h.type = "ready" /\ client' = [Taken EXCEPT !.authoritative = FALSE, !.ready = TRUE,
                                         !.active = h.session, !.selected = h.session]
    BY <1>4 DEF ClientReady, Receive
  <2>2. /\ client'.pane = client.pane /\ client'.revision = client.revision
        /\ ~client'.authoritative
    BY <1>2, <2>1 DEF Clients
  <2> QED
    BY <1>1, <2>1, <2>2, HandledQuietly, ScreenPop
<1>5. ASSUME h.type \in {"terminal-output", "post-flush", "selection-check", "selection-result"},
             \/ UNCHANGED client
             \/ \E s, c : client' = [client EXCEPT !.selection = s]
                          \/ client' = [client EXCEPT !.selection.checkedAt = c]
      PROVE  ShowInvariant' /\ LinkInvariant'
  <2>1. /\ client'.pane = client.pane /\ client'.revision = client.revision
        /\ client'.epoch = client.epoch /\ client'.cutoff = client.cutoff
        /\ client'.reseedPending = client.reseedPending
        /\ client'.authoritative = client.authoritative
    BY <1>2, <1>5 DEF Clients
  <2> QED
    BY <1>1, <1>5, <2>1, HandledQuietly, ScreenPop
<1>6. CASE ClientDropOutput
  BY <1>5, <1>6 DEF ClientDropOutput, Receive, clientVars
<1>7. CASE ClientPostFlush
  BY <1>2, <1>5, <1>7 DEF ClientPostFlush, Receive
<1>8. CASE ClientSelectionCheck
  BY <1>2, <1>5, <1>8 DEF ClientSelectionCheck, Receive
<1>9. CASE ClientSelectionResult
  BY <1>2, <1>5, <1>9 DEF ClientSelectionResult, Receive
<1> QED
  BY <1>3, <1>4, <1>6, <1>7, <1>8, <1>9

LEMMA ScreenResumes ==
    ASSUME TypeOK, TaskInvariant, PipelineInvariant, ShowInvariant, LinkInvariant,
           ClientSeedResume
    PROVE  ShowInvariant' /\ LinkInvariant'
<1> DEFINE h == Head(toClient)
<1>1. CASE Connect
  BY <1>1, ScreenConnects
<1>2. CASE ~Connect
  <2>1. /\ toClient # <<>> /\ h.type = "seed-resume" /\ toClient' = Tail(toClient)
        /\ MayResume(h) /\ UNCHANGED <<serverVars, connected, screen>>
        /\ client' = [Taken EXCEPT !.epoch = h.epoch, !.cutoff = h.cutoff]
    BY <1>2 DEF ClientSeedResume
  <2>2. /\ client'.pane = client.pane /\ client'.revision = client.revision
        /\ client'.authoritative = client.authoritative
        /\ client'.reseedPending = client.reseedPending
    BY <2>1, FirstMessage DEF Clients
  <2>3. ScreenInStep' /\ (ExactNow' => ExactNow)
    BY <2>1, <2>2 DEF ShowInvariant, ScreenInStep, ExactNow
  <2>4. Handled(h)
    BY <2>1, <2>2, <2>3 DEF Handled, MayResume, LiveTypes
  <2> QED
    BY <2>1, <2>4, ScreenPop
<1> QED
  BY <1>1, <1>2

\* A seed replaces the screen by what it stands for.
LEMMA ScreenSeeds ==
    ASSUME TypeOK, TaskInvariant, PipelineInvariant, ShowInvariant, LinkInvariant,
           ClientSeedData
    PROVE  ShowInvariant' /\ LinkInvariant'
<1> DEFINE h == Head(toClient)
<1>1. /\ toClient # <<>> /\ h.type = "seed-data" /\ toClient' = Tail(toClient)
      /\ UNCHANGED <<serverVars, connected>>
      /\ client' = [Taken EXCEPT !.epoch = h.epoch, !.pane = h.pane, !.cutoff = h.cutoff,
                                 !.revision = h.cutoff]
      /\ screen' = [shown |-> h.content, torn |-> FALSE, exact |-> h.exact, painted |-> FALSE]
  BY DEF ClientSeedData, Receive
<1>2. h = toClient[1] /\ 1 \in Seeds
  BY <1>1, FirstMessage DEF Seeds, OnTheirWay
<1>3. /\ client'.pane = h.pane /\ client'.revision = h.cutoff
      /\ client'.authoritative = client.authoritative
  BY <1>1, FirstMessage DEF Clients
<1>4. h.exact => h.content = h.cutoff
  BY <1>2 DEF ShowInvariant, SeedsExact
<1>5. ScreenInStep' /\ (ExactNow' => h.exact)
  BY <1>1, <1>3, <1>4 DEF ScreenInStep, ExactNow
<1>6. Handled(h)
  BY <1>1, <1>3, <1>5 DEF Handled, LiveTypes
<1> QED
  BY <1>1, <1>6, ScreenPop

\* A byte is written where the screen ends, unless it is not its own or the screen
\* is not exact.
LEMMA ScreenWrites ==
    ASSUME TypeOK, TaskInvariant, PipelineInvariant, ShowInvariant, LinkInvariant,
           ClientOutput
    PROVE  ShowInvariant' /\ LinkInvariant'
<1> DEFINE h == Head(toClient)
<1>1. CASE Connect
  BY <1>1, ScreenConnects
<1>2. CASE ~Connect
  <2>1. /\ toClient # <<>> /\ h.type = "terminal-output" /\ toClient' = Tail(toClient)
        /\ ~Dropped /\ InOrder(h) /\ UNCHANGED <<serverVars, connected>>
        /\ client' = [Taken EXCEPT !.revision = @ + 1]
        /\ screen' = IF Counted(h) THEN screen
                     ELSE [screen EXCEPT !.shown = h.start + 1,
                                         !.torn = @ \/ ~h.own \/ screen.shown # h.start]
    BY <1>2 DEF ClientOutput
  <2>2. h = toClient[1] /\ 1 \in Outputs /\ client.queued = 0
    BY <2>1, FirstMessage DEF Outputs, OnTheirWay
  <2>3. /\ client'.pane = client.pane /\ client'.revision = client.revision + 1
        /\ client'.authoritative = client.authoritative
        /\ client'.reseedPending = client.reseedPending
    BY <2>1, FirstMessage DEF Clients
  <2>4. screen \in Screens
    BY DEF TypeOK, ClientTypeOK
  <2>5. screen'.exact = screen.exact /\ screen'.painted = screen.painted
    BY <2>1, <2>4 DEF Screens
  <2>6. (ExactNow' <=> ExactNow) /\ (Seen' <=> Seen)
    BY <2>3, <2>5 DEF ExactNow, Seen
  <2>7. ScreenInStep'
    <3> SUFFICES ASSUME ExactNow PROVE ~screen'.torn /\ screen'.shown = client'.revision
      BY <2>6 DEF ScreenInStep
    <3>1. CASE Counted(h)
      <4>1. Seen \/ \E j \in Opens : j < 1
        BY <2>2, <3>1 DEF Counted, ShowInvariant, LiveSeen
      <4>2. \A j \in Opens : j \in Nat \ {0}
        BY FirstMessage, <2>1 DEF Opens, OnTheirWay
      <4>3. ~client.authoritative /\ ~client.reseedPending /\ ~screen.painted
        BY <2>1, <2>2, <3>1 DEF Counted, Dropped, ExactNow
      <4> QED
        BY <4>1, <4>2, <4>3 DEF Seen
    <3>2. CASE ~Counted(h)
      <4>1. ~screen.torn /\ screen.shown = client.revision
        BY DEF ShowInvariant, ScreenInStep
      <4>2. h.own
        BY <2>1, <2>2 DEF ShowInvariant, ForeignShielded, InOrder
      <4>3. /\ screen'.shown = h.start + 1
            /\ screen'.torn = (screen.torn \/ ~h.own \/ screen.shown # h.start)
        BY <2>1, <2>4, <3>2 DEF Screens
      <4> QED
        BY <2>1, <2>3, <4>1, <4>2, <4>3 DEF InOrder
    <3> QED
      BY <3>1, <3>2
  <2>8. Handled(h)
    BY <2>1, <2>3, <2>6, <2>7 DEF Handled
  <2> QED
    BY <2>1, <2>8, ScreenPop
<1> QED
  BY <1>1, <1>2

\* A seed-open gives authority, unless the browser has asked for another seed.
LEMMA ScreenOpens ==
    ASSUME TypeOK, TaskInvariant, PipelineInvariant, ShowInvariant, LinkInvariant,
           ClientSeedOpen
    PROVE  ShowInvariant' /\ LinkInvariant'
<1> DEFINE h == Head(toClient)
<1>1. /\ toClient # <<>> /\ h.type = "seed-open" /\ toClient' = Tail(toClient)
      /\ UNCHANGED <<serverVars, connected, screen>>
      /\ client' = IF MayOpen(h)
                   THEN [Taken EXCEPT !.seedInFlight = FALSE, !.authoritative = TRUE]
                   ELSE [Taken EXCEPT !.authoritative = FALSE]
  BY DEF ClientSeedOpen, Receive
<1>2. h = toClient[1] /\ 1 \in Opens
  BY <1>1, FirstMessage DEF Opens, OnTheirWay
<1>3. /\ client'.pane = client.pane /\ client'.revision = client.revision
      /\ client'.reseedPending = client.reseedPending
      /\ client'.authoritative <=> MayOpen(h)
  BY <1>1, FirstMessage DEF Clients
<1>4. MayOpen(h) \/ client.reseedPending
  BY <1>2 DEF ShowInvariant, OpensNext, MayOpen
<1>5. Seen' /\ ScreenInStep' /\ (ExactNow' => ExactNow)
  BY <1>1, <1>3, <1>4 DEF ShowInvariant, ScreenInStep, ExactNow, Seen
<1>6. Handled(h)
  BY <1>1, <1>3, <1>5 DEF Handled
<1> QED
  BY <1>1, <1>6, ScreenPop

LEMMA ScreenSettles ==
    ASSUME ShowInvariant, LinkInvariant, UNCHANGED <<serverVars, connected, toClient>>,
           Settles
    PROVE  ShowInvariant' /\ LinkInvariant'
BY ShowSettles, LinkSettles

LEMMA ScreenUser ==
    ASSUME Prompt, TypeOK, ShowInvariant, LinkInvariant,
           \/ WatchdogWhenStuck \/ SlowWatchdog \/ ClientBacklog \/ ClientRequest
           \/ ClientSelect \/ ClientSelectionTimeout \/ ClientSwitch
    PROVE  ShowInvariant' /\ LinkInvariant'
<1>1. client \in Clients /\ screen \in Screens
  BY ClientFields DEF TypeOK, ClientTypeOK
<1>2. ASSUME client'.epoch = client.epoch, client'.pane = client.pane,
             client'.cutoff = client.cutoff, client'.revision = client.revision,
             \/ /\ UNCHANGED screen
                /\ \/ /\ client'.authoritative = client.authoritative
                      /\ client'.reseedPending = client.reseedPending
                   \/ ~client'.authoritative /\ client'.reseedPending
             \/ /\ screen' = [screen EXCEPT !.painted = TRUE]
                /\ ~client'.authoritative
                /\ client'.reseedPending = client.reseedPending
      PROVE  Settles
  <2>1. CASE /\ UNCHANGED screen
             /\ \/ /\ client'.authoritative = client.authoritative
                   /\ client'.reseedPending = client.reseedPending
                \/ ~client'.authoritative /\ client'.reseedPending
    <3>1. (Seen => Seen') /\ (ExactNow' <=> ExactNow)
      BY <2>1 DEF Seen, ExactNow
    <3>2. ScreenInStep'
      BY <1>2, <2>1, <3>1 DEF ShowInvariant, ScreenInStep
    <3>3. /\ client'.authoritative => client.authoritative
          /\ client.reseedPending => client'.reseedPending
      BY <2>1
    <3> QED
      BY <1>2, <3>1, <3>2, <3>3 DEF Settles
  <2>2. CASE screen' = [screen EXCEPT !.painted = TRUE] /\ ~client'.authoritative
             /\ client'.reseedPending = client.reseedPending
    <3>1. screen'.painted
      BY <1>1, <2>2 DEF Screens
    <3> QED
      BY <1>2, <2>2, <3>1 DEF Settles, Seen, ExactNow, ScreenInStep
  <2> QED
    BY <1>2, <2>1, <2>2
<1>3. CASE WatchdogWhenStuck \/ SlowWatchdog \/ ClientBacklog
  <2>1. /\ client' = [client EXCEPT !.authoritative = FALSE, !.reseedPending = TRUE, !.queued = 0]
        /\ UNCHANGED <<serverVars, connected, toClient, screen>>
    BY <1>3, AsksForReseed
  <2>2. /\ client'.epoch = client.epoch /\ client'.pane = client.pane
        /\ client'.cutoff = client.cutoff /\ client'.revision = client.revision
        /\ ~client'.authoritative /\ client'.reseedPending
    BY <1>1, <2>1 DEF Clients
  <2> QED
    BY <1>2, <2>1, <2>2, ScreenSettles
<1>4. CASE ClientRequest
  BY <1>2, <1>4, ScreenSettles DEF ClientRequest, clientVars
<1>5. ASSUME UNCHANGED <<serverVars, connected, toClient, screen>>,
             \E i, s : client' = [client EXCEPT !.selections = i, !.selection = s]
                       \/ client' = [client EXCEPT !.selection = s]
      PROVE  ShowInvariant' /\ LinkInvariant'
  <2>1. /\ client'.epoch = client.epoch /\ client'.pane = client.pane
        /\ client'.cutoff = client.cutoff /\ client'.revision = client.revision
        /\ client'.authoritative = client.authoritative
        /\ client'.reseedPending = client.reseedPending
    BY <1>1, <1>5 DEF Clients
  <2> QED
    BY <1>2, <1>5, <2>1, ScreenSettles
<1>6. CASE ClientSelect
  BY <1>5, <1>6 DEF ClientSelect
<1>7. CASE ClientSelectionTimeout
  BY <1>5, <1>7 DEF ClientSelectionTimeout, netVars
<1>8. CASE ClientSwitch
  <2>1. UNCHANGED <<serverVars, connected, toClient>> /\ screen' = [screen EXCEPT !.painted = TRUE]
    BY <1>8 DEF ClientSwitch
  <2>2. PICK s : client' = [client EXCEPT !.selected = s, !.authoritative = FALSE]
    BY <1>8 DEF ClientSwitch
  <2>3. /\ client'.epoch = client.epoch /\ client'.pane = client.pane
        /\ client'.cutoff = client.cutoff /\ client'.revision = client.revision
        /\ ~client'.authoritative /\ client'.reseedPending = client.reseedPending
    BY <1>1, <2>2 DEF Clients
  <2> QED
    BY <1>2, <2>1, <2>3, ScreenSettles
<1> QED
  BY <1>3, <1>4, <1>6, <1>7, <1>8
-----------------------------------------------------------------------------
(* The reader and the tasks that send or hold output                       *)

\* A step of the server that keeps its pane and adds nothing the screen depends on.
Moves ==
    /\ connected' => connected
    /\ UNCHANGED clientVars
    /\ bridge'.pane = bridge.pane
    /\ Tainted' => Tainted
    /\ Live' => Live
    /\ InFlush' => Live \/ InFlush
    /\ connected /\ Resumes # {} => job'.task = "main" /\ InFlush'
    /\ Watching' => Watching
    /\ bridge'.reading # NoPane => bridge.reading # NoPane

LEMMA ScreenQuiet ==
    ASSUME ShowInvariant, LinkInvariant, UNCHANGED toClient, Moves
    PROVE  ShowInvariant' /\ LinkInvariant'
<1>1. Resumes' = Resumes /\ Seeds' = Seeds /\ Opens' = Opens
  BY TypesSame DEF Resumes, Seeds, Opens
<1>2. LinkInvariant'
  BY <1>1, LinkKept DEF Moves
<1> QED
  BY <1>2, ShowSame DEF Moves

LEMMA ScreenSends ==
    ASSUME ShowInvariant, LinkInvariant, NEW m, Appended(m), Follows(m),
           m.type \notin {"seed-data", "seed-resume"}, Moves
    PROVE  ShowInvariant' /\ LinkInvariant'
<1>1. Resumes' = Resumes /\ Seeds' = Seeds
  BY OthersAppend DEF Resumes, Seeds
<1>2. /\ \A i \in Seeds : toClient'[i] = toClient[i]
      /\ Opens # {} => Opens' # {}
  BY TypesAppend DEF Seeds, Opens
<1>3. LinkInvariant'
  BY <1>1, <1>2, LinkKept DEF Moves
<1> QED
  BY <1>3, ShowAppend DEF Moves

\* Nothing resumes a browser except during a flush.
LEMMA NoResumes ==
    ASSUME LinkInvariant, connected, ~InFlush
    PROVE  Resumes = {}
BY DEF LinkInvariant, ResumesInFlush

LEMMA StillResumes ==
    ASSUME LinkInvariant, job'.task = job.task, InFlush' <=> InFlush
    PROVE  connected /\ Resumes # {} => job'.task = "main" /\ InFlush'
BY DEF LinkInvariant, ResumesInFlush

\* A byte that has just been read does not taint what was clean.
LEMMA ReadTaints ==
    ASSUME TypeOK, TaskInvariant, NEW own \in BOOLEAN, Record(own), UNCHANGED pending,
           ~own => bridge.reading \notin {NoPane, bridge.pane}
    PROVE  Tainted' => Tainted
<1>1. bridge'.reading = NoPane
  BY ReadEffect
<1>2. CASE ~own
  BY <1>2 DEF Tainted
<1>3. CASE own
  <2>1. /\ bridge'.foreign = bridge.foreign
        /\ bridge'.held = bridge.held \/ bridge'.held = bridge.held \cup {bridge.offset}
    BY <1>3, ReadEffect, BridgeFields DEF Bridges
  <2>2. bridge.offset \notin bridge.foreign
    BY BridgeFields DEF TaskInvariant, ForeignPast
  <2>3. bridge'.foreign \cap Waiting' # {} => bridge.foreign \cap Waiting # {}
    BY <2>1, <2>2 DEF Waiting
  <2> QED
    BY <1>1, <2>3 DEF Tainted
<1> QED
  BY <1>2, <1>3

LEMMA ScreenRecords ==
    ASSUME TypeOK, HoldInvariant, PipelineInvariant, TaskInvariant, ShowInvariant,
           LinkInvariant, connected, NEW own \in BOOLEAN, Record(own),
           ~own => bridge.reading \notin {NoPane, bridge.pane},
           UNCHANGED <<pending, job, watcher, connected, clientVars>>
    PROVE  ShowInvariant' /\ LinkInvariant'
<1>1. /\ bridge'.pane = bridge.pane /\ bridge'.reading = NoPane
      /\ bridge'.phase = bridge.phase /\ bridge'.hold = bridge.hold
  BY ReadEffect
<1>2. (Live' <=> Live) /\ (InFlush' <=> InFlush) /\ (Watching' <=> Watching)
  BY <1>1 DEF Live, InFlush, Watching
<1>3. connected /\ Resumes # {} => job'.task = "main" /\ InFlush'
  BY <1>2, StillResumes
<1>4. Moves
  BY <1>1, <1>2, <1>3, ReadTaints DEF Moves
<1>5. CASE bridge.phase = "hold"
  BY <1>4, <1>5, ReadEffect, ScreenQuiet
<1>6. CASE bridge.phase # "hold"
  <2> DEFINE m == Output(bridge.epoch, bridge.pane, bridge.offset, "live", own)
  <2>1. /\ m.type = "terminal-output" /\ m.own = own /\ m.pane = bridge.pane
        /\ Appended(m)
    BY <1>6, ReadEffect, AppendWire DEF Output
  <2> HIDE DEF m
  <2>2. Live
    BY <1>6, BridgeFields DEF Bridges, Live
  <2>3. Behind(0, LiveTypes)
    BY <2>2 DEF PipelineInvariant, LiveStage, LiveTypes
  <2>4. Seen \/ Opens # {}
    BY <2>2 DEF LinkInvariant, OutputSeen
  <2>5. ~own => /\ ExactNow => client.pane # bridge.pane
                /\ \A j \in Seeds : toClient[j].exact => toClient[j].pane # bridge.pane
    BY DEF LinkInvariant, TaintShielded, Tainted
  <2>6. Follows(m)
    BY <2>1, <2>3, <2>4, <2>5 DEF Follows
  <2> QED
    BY <1>4, <2>1, <2>6, ScreenSends
<1> QED
  BY <1>5, <1>6

\* A byte the reader has to wait with: whoever has send_lock keeps the pane that the
\* browser shows or is about to resume.
LEMMA ScreenWaits ==
    ASSUME TypeOK, HoldInvariant, PipelineInvariant, TaskInvariant, ShowInvariant,
           LinkInvariant, connected, sendLock # "free", bridge.reading = NoPane,
           bridge' = [bridge EXCEPT !.reading = bridge.pane],
           UNCHANGED <<pending, job, watcher, connected, toClient, clientVars>>
    PROVE  ShowInvariant' /\ LinkInvariant'
<1>1. ShowInvariant'
  BY ShowSame
<1>2. /\ bridge'.pane = bridge.pane /\ bridge'.foreign = bridge.foreign
      /\ bridge'.held = bridge.held /\ bridge'.phase = bridge.phase
      /\ bridge'.hold = bridge.hold /\ bridge'.reading = bridge.pane
  BY BridgeFields DEF Bridges
<1>3. /\ Resumes' = Resumes /\ Seeds' = Seeds /\ Opens' = Opens
      /\ (Live' <=> Live) /\ (InFlush' <=> InFlush)
      /\ (Seen' <=> Seen) /\ (ExactNow' <=> ExactNow) /\ UNCHANGED client
  BY <1>2, TypesSame DEF Resumes, Seeds, Opens, Live, InFlush, Seen, ExactNow, clientVars
<1>4. Tainted' => Tainted
  BY <1>2 DEF Tainted, Waiting
<1>5. ResumesInFlush' /\ OutputSeen'
  BY <1>3 DEF LinkInvariant, ResumesInFlush, OutputSeen
<1>6. TaintShielded'
  BY <1>2, <1>3, <1>4 DEF LinkInvariant, TaintShielded
<1>7. PaneShown'
  BY <1>2, <1>3 DEF LinkInvariant, PaneShown
<1>8. Live \/ InFlush
  <2>1. sendLock \in {"flush", "release"}
    BY DEF TypeOK, ServerTypeOK, TaskInvariant, PromptNow
  <2> QED
    BY <2>1 DEF PipelineInvariant, PendingOwned, Live, InFlush
<1>9. Seeds = {}
  BY <1>8, NoneOf DEF PipelineInvariant, LiveStage, FlushStage, InFlush, Seeds
<1>10. ReadingShown'
  BY <1>2, <1>3, <1>8, <1>9 DEF LinkInvariant, PaneShown, ReadingShown
<1> QED
  BY <1>1, <1>5, <1>6, <1>7, <1>10 DEF LinkInvariant

LEMMA ScreenReader ==
    ASSUME TypeOK, HoldInvariant, PipelineInvariant, TaskInvariant, ShowInvariant,
           LinkInvariant, Reader
    PROVE  ShowInvariant' /\ LinkInvariant'
<1>1. connected
  BY Working DEF TaskInvariant
<1>2. UNCHANGED <<pending, job, watcher, connected, clientVars>>
  BY ReaderEffect
<1>3. ASSUME NEW own \in BOOLEAN, Record(own),
             ~own => bridge.reading \notin {NoPane, bridge.pane}
      PROVE  ShowInvariant' /\ LinkInvariant'
  BY <1>1, <1>2, <1>3, ScreenRecords
<1>4. CASE /\ bridge' = [bridge EXCEPT !.reading = bridge.pane]
           /\ bridge.reading = NoPane /\ sendLock # "free" /\ UNCHANGED toClient
  BY <1>1, <1>2, <1>4, ScreenWaits
<1>5. CASE UNCHANGED <<bridge, toClient>>
  <2>1. /\ (Live' <=> Live) /\ (InFlush' <=> InFlush) /\ (Watching' <=> Watching)
        /\ (Tainted' <=> Tainted) /\ bridge' = bridge
    BY <1>2, <1>5 DEF Live, InFlush, Watching, Tainted, Waiting
  <2>2. connected /\ Resumes # {} => job'.task = "main" /\ InFlush'
    BY <1>2, <2>1, StillResumes
  <2>3. Moves
    BY <1>2, <2>1, <2>2 DEF Moves
  <2> QED
    BY <1>5, <2>3, ScreenQuiet
<1> QED
  BY <1>3, <1>4, <1>5, ReaderEffect
\* What waits only grows less.
LEMMA TaintLessens ==
    ASSUME bridge'.foreign = bridge.foreign, bridge'.pane = bridge.pane,
           bridge'.reading = bridge.reading, Waiting' \subseteq Waiting
    PROVE  Tainted' => Tainted
BY DEF Tainted

LEMMA ScreenBegin ==
    ASSUME TypeOK, HoldInvariant, ShowInvariant, LinkInvariant,
           NEW task, NEW reason, BeginReseed(task, reason, NoPane), UNCHANGED watcher
    PROVE  ShowInvariant' /\ LinkInvariant'
<1> DEFINE m == SeedStart(bridge.epoch + 1)
<1>1. /\ bridge'.hold = 0 /\ bridge'.phase = "hold" /\ bridge'.held = KeptBy(reason)
      /\ job'.pc = "startAck" /\ job.task = "none"
  BY BeginReseedEffect
<1>2. /\ bridge'.pane = bridge.pane /\ bridge'.foreign = bridge.foreign
      /\ bridge'.reading = bridge.reading /\ Send(m)
      /\ UNCHANGED <<pending, connected, clientVars>>
  BY BeginEffect
<1>3. Appended(m) /\ m.type = "seed-start"
  BY <1>2, AppendWire DEF SeedStart
<1> HIDE DEF m
<1>4. ~InFlush /\ ~InFlush' /\ ~Live'
  BY <1>1 DEF HoldInvariant, JobsOwned, InFlush, Live
<1>5. Waiting' \subseteq Waiting
  BY <1>1, <1>2 DEF KeptBy, Waiting
<1>6. Moves
  BY <1>2, <1>4, <1>5, TaintLessens, NoResumes DEF Moves, Watching
<1>7. Follows(m)
  BY <1>3 DEF Follows
<1> QED
  BY <1>3, <1>6, <1>7, ScreenSends

\* The watcher moves the bridge to another pane: what the reader still has of the old
\* one will be a byte of none that the browser is shown.
LEMMA ScreenMoves ==
    ASSUME TypeOK, HoldInvariant, PipelineInvariant, TaskInvariant, ShowInvariant,
           LinkInvariant, WatchReseed
    PROVE  ShowInvariant' /\ LinkInvariant'
<1> DEFINE m == SeedStart(bridge.epoch + 1)
           next == watcher.next
<1>1. /\ watcher.at = "waiting" /\ watcher' = WatcherAt("seeding")
      /\ BeginReseed("watch", "pane-change", next)
  BY DEF WatchReseed
<1>2. connected
  BY Working DEF TaskInvariant, Server
<1>3. next # bridge.pane /\ next # NoPane
  BY <1>1 DEF TaskInvariant, WatcherMoves
<1>4. /\ bridge'.hold = 0 /\ bridge'.phase = "hold" /\ bridge'.held = KeptBy("pane-change")
      /\ job'.pc = "startAck" /\ job.task = "none" /\ sendLock = "free"
  BY <1>1, BeginReseedEffect
<1>5. /\ bridge'.pane = next /\ bridge'.reading = bridge.reading /\ Send(m)
      /\ UNCHANGED <<pending, connected, clientVars>>
  BY <1>1, <1>3, BeginEffect
<1>6. Appended(m) /\ m.type = "seed-start"
  BY <1>5, AppendWire DEF SeedStart
<1> HIDE DEF m
<1>7. ShowInvariant'
  BY <1>5, <1>6, ShowAppend DEF Follows
<1>8. ~InFlush /\ ~InFlush' /\ ~Live' /\ Resumes = {} /\ Resumes' = {}
  BY <1>2, <1>4, <1>6, NoResumes, OthersAppend DEF HoldInvariant, JobsOwned, InFlush, Live,
    Resumes
<1>9. Seeds' = Seeds /\ \A i \in Seeds : toClient'[i] = toClient[i]
  BY <1>6, OthersAppend, TypesAppend DEF Seeds
<1>10. Waiting' = {}
  BY <1>4, <1>5, FreeLock DEF KeptBy, Resumable, Waiting
<1>11. TaintShielded'
  <2> SUFFICES ASSUME Tainted'
               PROVE  client.pane # next /\ \A i \in Seeds : toClient[i].pane # next
    BY <1>5, <1>9 DEF TaintShielded, clientVars
  <2>1. bridge.reading # NoPane
    BY <1>5, <1>10 DEF Tainted
  <2>2. /\ client.pane = bridge.pane \/ Resumes # {}
        /\ \A i \in Seeds : toClient[i].pane = bridge.pane
    BY <1>1, <1>2, <2>1 DEF LinkInvariant, ReadingShown
  <2> QED
    BY <1>3, <1>8, <2>2
<1>12. ReadingShown'
  BY <1>1 DEF ReadingShown, WatcherAt
<1> QED
  BY <1>7, <1>8, <1>11, <1>12 DEF LinkInvariant, ResumesInFlush, OutputSeen, PaneShown

LEMMA ScreenBegins ==
    ASSUME TypeOK, HoldInvariant, PipelineInvariant, TaskInvariant, ShowInvariant,
           LinkInvariant,
           MainReseed \/ HandleReseedRequest \/ HandleActivity \/ WatchReseed \/ Stabilize
    PROVE  ShowInvariant' /\ LinkInvariant'
<1>1. CASE MainReseed \/ HandleReseedRequest \/ Stabilize
  BY <1>1, ScreenBegin DEF MainReseed, HandleReseedRequest, Stabilize
<1>2. CASE HandleActivity
  <2>1. CASE BeginReseed("main", "activity", NoPane) /\ UNCHANGED watcher
    BY <2>1, ScreenBegin
  <2>2. CASE UNCHANGED <<tmuxVars, serverVars, connected, toClient, acks, clientVars>>
    <3>1. /\ UNCHANGED <<serverVars, connected, toClient>> /\ Settles
      BY <2>2 DEF Settles, clientVars, Seen, ExactNow, ShowInvariant, ScreenInStep
    <3> QED
      BY <3>1, ScreenSettles
  <2> QED
    BY <1>2, <2>1, <2>2 DEF HandleActivity
<1>3. CASE WatchReseed
  BY <1>3, ScreenMoves
<1> QED
  BY <1>1, <1>2, <1>3

\* The stages of a reseed before it shows anything.
LEMMA ScreenStage ==
    ASSUME TypeOK, HoldInvariant, ShowInvariant, LinkInvariant, connected,
           job.pc \in {"startAck", "capture", "verify"},
           job'.pc \in {"capture", "verify", "linearize"},
           UNCHANGED <<bridge, pending, watcher, connected, toClient, clientVars>>
    PROVE  ShowInvariant' /\ LinkInvariant'
<1>1. ~InFlush /\ ~InFlush' /\ (Live' <=> Live) /\ Waiting' = Waiting
  BY DEF InFlush, Live, Waiting
<1>2. Moves
  BY <1>1, NoResumes, TaintLessens DEF Moves, Watching
<1> QED
  BY <1>2, ScreenQuiet

LEMMA ScreenStages ==
    ASSUME TypeOK, HoldInvariant, TaskInvariant, ShowInvariant, LinkInvariant,
           StartAcked \/ TakeSnapshot \/ RetryCapture
    PROVE  ShowInvariant' /\ LinkInvariant'
<1>1. connected
  BY Working DEF TaskInvariant, Server
<1>2. CASE StartAcked \/ RetryCapture
  <2>1. /\ Goto("capture") /\ job.pc \in {"startAck", "verify"}
        /\ UNCHANGED <<bridge, pending, watcher, connected, toClient, clientVars>>
    BY <1>2 DEF StartAcked, RetryCapture, At, netVars
  <2>2. job'.pc = "capture"
    BY <2>1, GotoEffect
  <2> QED
    BY <1>1, <2>1, <2>2, ScreenStage
<1>3. CASE TakeSnapshot
  <2>1. /\ job.pc = "capture" /\ job' = [job EXCEPT !.pc = "verify",
                                           !.candidate = bridge.offset, !.snap = PaneContent]
        /\ UNCHANGED <<bridge, pending, watcher, connected, toClient, clientVars>>
    BY <1>3 DEF TakeSnapshot, At, netVars
  <2>2. job'.pc = "verify"
    BY <2>1 DEF TypeOK, ServerTypeOK, Jobs
  <2> QED
    BY <1>1, <2>1, <2>2, ScreenStage
<1> QED
  BY <1>2, <1>3

\* While a capture is being taken the browser has no authority and nothing can give
\* it any.
LEMMA CaptureUnseen ==
    ASSUME TypeOK, HoldInvariant, PipelineInvariant, connected,
           job.pc \in {"capture", "verify", "linearize"}
    PROVE  ~client.authoritative /\ Opens = {}
<1>1. Behind(0, {"selection-result"})
  BY DEF PipelineInvariant, CaptureStage
<1>2. Breaks = {} /\ Opens = {}
  BY <1>1, NoneOf DEF Breaks, Opens
<1>3. bridge.phase = "hold" /\ bridge.hold = 0
  BY SeedOffline
<1> QED
  BY <1>2, <1>3 DEF PipelineInvariant, GateClosed

\* A seed is on its way to a browser that has no authority; an exact one stands for
\* every byte below its cutoff, and no other byte waits.
LEMMA ScreenInstalls ==
    ASSUME TypeOK, HoldInvariant, PipelineInvariant, TaskInvariant, ShowInvariant,
           LinkInvariant, connected, job.pc \in {"verify", "linearize"},
           NEW exact \in BOOLEAN, Install(bridge.offset, exact),
           exact => job.snap = bridge.offset /\ ~Tainted',
           UNCHANGED <<pending, watcher, connected, clientVars>>
    PROVE  ShowInvariant' /\ LinkInvariant'
<1> DEFINE m == SeedData(bridge.epoch, bridge.pane, bridge.offset, job.snap, exact)
<1>1. /\ bridge'.phase = bridge.phase /\ bridge'.hold = bridge.hold
      /\ bridge'.pane = bridge.pane /\ job'.pc = "seedAck" /\ Appended(m)
  BY InstallEffect
<1>2. /\ bridge'.foreign = bridge.foreign /\ bridge'.reading = bridge.reading
      /\ bridge'.held \subseteq bridge.held
  BY BridgeFields DEF Install, Bridges
<1>3. /\ m.type = "seed-data" /\ m.pane = bridge.pane /\ m.cutoff = bridge.offset
      /\ m.content = job.snap /\ m.exact = exact
  BY DEF SeedData
<1> HIDE DEF m
<1>4. Follows(m)
  BY <1>3, CaptureUnseen DEF Follows
<1>5. ShowInvariant'
  BY <1>1, <1>4, ShowAppend
<1>6. ~InFlush /\ ~InFlush' /\ ~Live' /\ Resumes = {}
  BY <1>1, SeedOffline, NoResumes DEF InFlush, Live
<1>7. Resumes' = {}
  BY <1>1, <1>3, <1>6, OthersAppend DEF Resumes
<1>8. Tainted' => Tainted
  BY <1>1, <1>2, TaintLessens DEF Waiting
<1>9. /\ \A i \in Seeds' : i \in Seeds \/ toClient'[i] = m
      /\ \A i \in Seeds : toClient'[i] = toClient[i]
  BY <1>1, TypesAppend DEF Seeds
<1>10. (ExactNow' <=> ExactNow) /\ UNCHANGED client
  BY DEF ExactNow, clientVars
<1>11. TaintShielded'
  <2> SUFFICES ASSUME Tainted'
               PROVE  /\ ExactNow => client.pane # bridge.pane
                      /\ \A i \in Seeds' : toClient'[i].exact => toClient'[i].pane # bridge.pane
    BY <1>1, <1>10 DEF TaintShielded
  <2>1. /\ ExactNow => client.pane # bridge.pane
        /\ \A i \in Seeds : toClient[i].exact => toClient[i].pane # bridge.pane
    BY <1>8 DEF LinkInvariant, TaintShielded
  <2>2. ~m.exact
    BY <1>3
  <2> QED
    BY <1>9, <2>1, <2>2
<1>12. ReadingShown'
  <2> SUFFICES ASSUME watcher.at \in {"up", "waiting"}, bridge.reading # NoPane
               PROVE  /\ client.pane = bridge.pane
                      /\ \A i \in Seeds' : toClient'[i].pane = bridge.pane
    BY <1>1, <1>2, <1>10 DEF ReadingShown
  <2>1. /\ client.pane = bridge.pane
        /\ \A i \in Seeds : toClient[i].pane = bridge.pane
    BY <1>6 DEF LinkInvariant, ReadingShown
  <2> QED
    BY <1>3, <1>9, <2>1
<1> QED
  BY <1>5, <1>6, <1>7, <1>11, <1>12 DEF LinkInvariant, ResumesInFlush, OutputSeen, PaneShown

LEMMA ScreenAccepts ==
    ASSUME TypeOK, HoldInvariant, PipelineInvariant, TaskInvariant, ShowInvariant,
           LinkInvariant, AcceptSnapshot \/ InstallDegraded
    PROVE  ShowInvariant' /\ LinkInvariant'
<1>1. connected
  BY Working DEF TaskInvariant, Server
<1>2. CASE InstallDegraded
  BY <1>1, <1>2, ScreenInstalls DEF InstallDegraded, At
<1>3. CASE AcceptSnapshot
  <2>1. /\ job.pc = "verify" /\ bridge.offset = job.candidate /\ ReaderCaughtUp
        /\ Install(bridge.offset, TRUE)
        /\ UNCHANGED <<pending, watcher, connected, clientVars>>
    BY <1>3 DEF AcceptSnapshot, CutoffHeld, At
  <2>2. sendLock = "free"
    <3>1. sendLock \in {"free", "flush", "release"}
      BY DEF TypeOK, ServerTypeOK, TaskInvariant, PromptNow
    <3> QED
      BY <2>1, <3>1 DEF PipelineInvariant, PendingOwned, HoldInvariant, ReleaseLocked
  <2>3. bridge.reading = NoPane /\ job.snap <= bridge.offset
    BY <2>1, <2>2 DEF ReaderCaughtUp
  <2>4. job.snap = bridge.offset
    <3>1. job.snap \in Nat /\ bridge.offset \in Nat
      BY BridgeFields DEF TypeOK, ServerTypeOK, Jobs
    <3>2. bridge.offset <= job.snap
      BY <2>1 DEF TaskInvariant, SnapshotStage
    <3> QED
      BY <2>3, <3>1, <3>2
  <2>5. bridge'.held = {} /\ bridge'.reading = NoPane
    <3>1. /\ bridge'.held = {s \in bridge.held : s >= bridge.offset}
          /\ bridge'.reading = bridge.reading
      BY <2>1, BridgeFields DEF Install, Bridges
    <3>2. \A s \in bridge.held : s \in Nat /\ s < bridge.offset
      BY BridgeFields DEF HoldInvariant, HeldIsSuffix
    <3>3. bridge.offset \in Nat
      BY BridgeFields
    <3> QED
      BY <2>3, <3>1, <3>2, <3>3
  <2>6. ~Tainted'
    BY <2>1, <2>2, <2>5, FreeLock DEF Tainted, Waiting
  <2> QED
    BY <1>1, <2>1, <2>4, <2>6, ScreenInstalls
<1> QED
  BY <1>2, <1>3
\* Out of capture budget, the main loop has the browser resume its buffer.
LEMMA ScreenGivesUp ==
    ASSUME TypeOK, HoldInvariant, PipelineInvariant, TaskInvariant, ShowInvariant,
           LinkInvariant, GiveUp
    PROVE  ShowInvariant' /\ LinkInvariant'
<1>1. connected
  BY Working DEF TaskInvariant
<1>2. job.pc \in {"capture", "verify"} /\ UNCHANGED <<pending, watcher, connected, clientVars>>
  BY DEF GiveUp
<1>3. CASE job.reason \notin Resumable
  <2>1. /\ job' = [job EXCEPT !.pc = "linearize", !.snap = PaneContent]
        /\ UNCHANGED <<bridge, toClient>>
    BY <1>3 DEF GiveUp
  <2>2. job'.pc = "linearize"
    BY <2>1 DEF TypeOK, ServerTypeOK, Jobs
  <2> QED
    BY <1>1, <1>2, <2>1, <2>2, ScreenStage
<1>4. CASE job.reason \in Resumable
  <2> DEFINE m == SeedResume(bridge.epoch, bridge.pane, job.resume)
  <2>1. /\ bridge' = [bridge EXCEPT !.cutoff = job.resume, !.degraded = TRUE]
        /\ Send(m) /\ Goto("flush")
    BY <1>4 DEF GiveUp
  <2>2. /\ bridge'.pane = bridge.pane /\ bridge'.foreign = bridge.foreign
        /\ bridge'.held = bridge.held /\ bridge'.reading = bridge.reading
        /\ bridge'.phase = bridge.phase /\ bridge'.hold = bridge.hold
    BY <2>1, BridgeFields DEF Bridges
  <2>3. job'.pc = "flush" /\ job'.task = job.task
    BY <2>1, GotoEffect
  <2>4. Appended(m) /\ m.type = "seed-resume"
    BY <2>1, AppendWire DEF SeedResume
  <2> HIDE DEF m
  <2>5. ShowInvariant'
    BY <1>2, <2>4, ShowAppend DEF Follows
  <2>6. Resumes' # {}
    BY <2>4, TypesAppend DEF Resumes
  <2>7. Seeds' = Seeds /\ \A i \in Seeds : toClient'[i] = toClient[i]
    BY <2>4, OthersAppend, TypesAppend DEF Seeds
  <2>8. ~Live'
    BY <1>2, <2>2, SeedOffline DEF Live
  <2>9. Tainted' => Tainted
    BY <1>2, <2>2, TaintLessens DEF Waiting
  <2>10. (ExactNow' <=> ExactNow) /\ UNCHANGED client
    BY <1>2 DEF ExactNow, clientVars
  <2>11. ResumesInFlush'
    BY <1>4, <2>3 DEF ResumesInFlush, InFlush, TaskInvariant, ResumableIsMains
  <2>12. TaintShielded'
    BY <1>2, <2>2, <2>7, <2>9, <2>10 DEF LinkInvariant, TaintShielded
  <2>13. ReadingShown'
    BY <1>2, <2>2, <2>6, <2>7 DEF LinkInvariant, ReadingShown
  <2> QED
    BY <2>5, <2>6, <2>8, <2>11, <2>12, <2>13 DEF LinkInvariant, OutputSeen, PaneShown
<1> QED
  BY <1>3, <1>4

\* The browser shows the seed it has acknowledged.
LEMMA ScreenSeedAcked ==
    ASSUME TypeOK, HoldInvariant, PipelineInvariant, TaskInvariant, ShowInvariant,
           LinkInvariant, SeedAcked
    PROVE  ShowInvariant' /\ LinkInvariant'
<1>1. connected
  BY Working DEF TaskInvariant, Server
<1>2. /\ job.pc = "seedAck" /\ Sent("seed-end") /\ Goto("flush")
      /\ UNCHANGED <<bridge, pending, watcher, connected, toClient, clientVars>>
  BY DEF SeedAcked, At, Acknowledged, Sent
<1>3. job'.pc = "flush"
  BY <1>2, GotoEffect
<1>4. client.pane = bridge.pane
  BY <1>1, <1>2 DEF PipelineInvariant, SeedShown, OfSeed
<1>5. Resumes = {} /\ Resumes' = {} /\ Seeds' = Seeds /\ ~Live'
  BY <1>1, <1>2, NoResumes, SeedOffline, TypesSame DEF InFlush, Resumes, Seeds, Live
<1>6. (Tainted' <=> Tainted) /\ (ExactNow' <=> ExactNow) /\ UNCHANGED client
  BY <1>2 DEF Tainted, Waiting, ExactNow, clientVars
<1>7. TaintShielded' /\ ReadingShown'
  BY <1>2, <1>5, <1>6 DEF LinkInvariant, TaintShielded, ReadingShown
<1>8. ShowInvariant'
  BY <1>2, ShowSame
<1> QED
  BY <1>2, <1>4, <1>5, <1>6, <1>7, <1>8 DEF LinkInvariant, ResumesInFlush, OutputSeen, PaneShown

\* A flush hands over what is held and sends it.
LEMMA ScreenBeginFlush ==
    ASSUME TypeOK, HoldInvariant, PipelineInvariant, TaskInvariant, ShowInvariant,
           LinkInvariant, BeginFlush
    PROVE  ShowInvariant' /\ LinkInvariant'
<1>1. /\ job.pc = "flush" /\ Goto("flushing") /\ pending' = PostSeed
      /\ bridge' = [bridge EXCEPT !.held = {}]
      /\ UNCHANGED <<watcher, connected, toClient, clientVars>>
  BY DEF BeginFlush, At, netVars
<1>2. job'.pc = "flushing" /\ job'.task = job.task
  BY <1>1, GotoEffect
<1>3. /\ bridge'.pane = bridge.pane /\ bridge'.foreign = bridge.foreign
      /\ bridge'.held = {} /\ bridge'.reading = bridge.reading
      /\ bridge'.phase = bridge.phase /\ bridge'.hold = bridge.hold
  BY <1>1, BridgeFields DEF Bridges
<1>4. InFlush /\ InFlush' /\ (Live' <=> Live)
  BY <1>1, <1>2, <1>3 DEF InFlush, Live
<1>5. Tainted' => Tainted
  BY <1>1, <1>3, TaintLessens DEF Waiting, PostSeed
<1>6. Moves
  BY <1>1, <1>2, <1>3, <1>4, <1>5, StillResumes DEF Moves, Watching
<1> QED
  BY <1>1, <1>6, ScreenQuiet

LEMMA ScreenSendHeld ==
    ASSUME TypeOK, HoldInvariant, PipelineInvariant, TaskInvariant, ShowInvariant,
           LinkInvariant, SendHeld
    PROVE  ShowInvariant' /\ LinkInvariant'
<1> DEFINE start == Least(pending)
           m == Output(bridge.epoch, bridge.pane, start,
                       IF sendLock = "flush" THEN "postseed" ELSE "selection-held",
                       start \notin bridge.foreign)
<1>1. connected
  BY Working DEF TaskInvariant, Server
<1>2. /\ pending # {} /\ Send(m) /\ pending' = pending \ {start}
      /\ UNCHANGED <<bridge, job, watcher, connected, clientVars>>
  BY DEF SendHeld
<1>3. start \in pending
  BY <1>2, LeastNat DEF TypeOK, ServerTypeOK
<1>4. /\ Appended(m) /\ m.type = "terminal-output" /\ m.kind # "live"
      /\ m.pane = bridge.pane /\ m.own = (start \notin bridge.foreign)
  BY <1>2, AppendWire DEF Output
<1> HIDE DEF m, start
<1>5. ~m.own => Tainted
  BY <1>3, <1>4 DEF Tainted, Waiting
<1>6. Follows(m)
  BY <1>1, <1>4, <1>5 DEF Follows, LinkInvariant, TaintShielded
<1>7. (InFlush' <=> InFlush) /\ (Live' <=> Live)
  BY <1>2 DEF InFlush, Live
<1>8. Tainted' => Tainted
  BY <1>2, TaintLessens DEF Waiting
<1>9. Moves
  BY <1>2, <1>7, <1>8, StillResumes DEF Moves, Watching
<1> QED
  BY <1>4, <1>6, <1>9, ScreenSends

LEMMA ScreenEndFlush ==
    ASSUME TypeOK, HoldInvariant, PipelineInvariant, TaskInvariant, ShowInvariant,
           LinkInvariant, EndFlush
    PROVE  ShowInvariant' /\ LinkInvariant'
<1> DEFINE m == PostFlush(bridge.epoch)
<1>1. /\ job.pc = "flushing" /\ Goto("flushAck") /\ Send(m)
      /\ UNCHANGED <<bridge, pending, watcher, connected, clientVars>>
  BY DEF EndFlush, At
<1>2. job'.pc = "flushAck" /\ job'.task = job.task
  BY <1>1, GotoEffect
<1>3. Appended(m) /\ m.type = "post-flush"
  BY <1>1, AppendWire DEF PostFlush
<1> HIDE DEF m
<1>4. InFlush /\ InFlush' /\ (Live' <=> Live) /\ (Tainted' <=> Tainted)
  BY <1>1, <1>2 DEF InFlush, Live, Tainted, Waiting
<1>5. Moves
  BY <1>1, <1>2, <1>4, StillResumes DEF Moves, Watching
<1> QED
  BY <1>3, <1>5, ScreenSends DEF Follows

\* When the flush is acknowledged the browser has handled all of it, and the seed-open
\* names what it shows.
LEMMA ScreenFlushAcked ==
    ASSUME TypeOK, HoldInvariant, PipelineInvariant, TaskInvariant, ShowInvariant,
           LinkInvariant, FlushAcked
    PROVE  ShowInvariant' /\ LinkInvariant'
<1> DEFINE m == SeedOpen(bridge.epoch, bridge.pane, bridge.cutoff)
<1>1. connected
  BY Working DEF TaskInvariant, Server
<1>2. /\ job.pc = "flushAck" /\ Sent("post-flush") /\ Send(m) /\ job' = NoJob
      /\ bridge' = [bridge EXCEPT !.phase = "forward"]
      /\ UNCHANGED <<pending, connected, clientVars>>
  BY DEF FlushAcked, At, Acknowledged, Sent
<1>3. /\ Appended(m) /\ m.type = "seed-open" /\ m.epoch = bridge.epoch
      /\ m.pane = bridge.pane /\ m.cutoff = bridge.cutoff
  BY <1>2, AppendWire DEF SeedOpen
<1> HIDE DEF m
<1>4. /\ bridge'.pane = bridge.pane /\ bridge'.foreign = bridge.foreign
      /\ bridge'.held = bridge.held /\ bridge'.reading = bridge.reading
  BY <1>2, BridgeFields DEF Bridges
<1>5. Behind(0, {"selection-result"})
  BY <1>1, <1>2 DEF PipelineInvariant, FlushStage
<1>6. Resumes = {} /\ Seeds = {}
  BY <1>5, NoneOf DEF Resumes, Seeds
<1>7. Resumes' = {} /\ Seeds' = {} /\ Opens' # {}
  BY <1>3, <1>6, OthersAppend, TypesAppend DEF Resumes, Seeds, Opens
<1>8. client.reseedPending \/ OfSeed(client)
  BY <1>1, <1>2, <1>6 DEF PipelineInvariant, InStep, Following, Resumes
<1>9. client.pane = bridge.pane
  BY <1>1, <1>2, <1>6 DEF LinkInvariant, PaneShown, InFlush
<1>10. ShowInvariant'
  BY <1>2, <1>3, <1>5, <1>8, ShowAppend DEF Follows, OfSeed
<1>11. Tainted' => Tainted
  BY <1>2, <1>4, TaintLessens DEF Waiting
<1>12. (ExactNow' <=> ExactNow) /\ UNCHANGED client
  BY <1>2 DEF ExactNow, clientVars
<1>13. TaintShielded'
  BY <1>1, <1>4, <1>7, <1>11, <1>12 DEF LinkInvariant, TaintShielded
<1> QED
  BY <1>4, <1>7, <1>9, <1>10, <1>12, <1>13 DEF LinkInvariant, ResumesInFlush, OutputSeen,
    PaneShown, ReadingShown
-----------------------------------------------------------------------------
(* Selections, locks and connections                                       *)

LEMMA ScreenSelects ==
    ASSUME TypeOK, HoldInvariant, PipelineInvariant, TaskInvariant, ShowInvariant,
           LinkInvariant,
           HoldForSelection \/ RejectSelection \/ SelectionAcked \/ SelectionAckTimeout
    PROVE  ShowInvariant' /\ LinkInvariant'
<1>1. connected
  BY Working DEF TaskInvariant, Server
<1>2. CASE HoldForSelection
  <2>1. PICK id : /\ bridge' = [bridge EXCEPT !.phase = "hold", !.held = {}, !.hold = id]
                  /\ Send(SelectionCheck(id))
                  /\ bridge.phase = "forward"
                  /\ job' = [NoJob EXCEPT !.task = "main", !.pc = "selectionAck",
                                          !.candidate = bridge.offset]
                  /\ UNCHANGED <<pending, watcher, connected, clientVars>>
    BY <1>2 DEF HoldForSelection, Selectable
  <2>2. /\ bridge'.pane = bridge.pane /\ bridge'.foreign = bridge.foreign
        /\ bridge'.held = {} /\ bridge'.reading = bridge.reading
    BY <2>1, BridgeFields DEF Bridges
  <2>3. job.pc = "idle" /\ job'.pc = "selectionAck"
    BY <2>1 DEF HoldInvariant, LiveEmpty, NoJob
  <2>4. Live /\ ~InFlush /\ ~InFlush'
    BY <2>1, <2>3 DEF Live, InFlush
  <2>5. Tainted' => Tainted
    BY <2>1, <2>2, TaintLessens DEF Waiting
  <2>6. Moves
    BY <1>1, <2>1, <2>2, <2>4, <2>5, NoResumes DEF Moves, Watching
  <2>7. Appended(SelectionCheck(id)) /\ SelectionCheck(id).type = "selection-check"
    BY <2>1, AppendWire DEF SelectionCheck
  <2>8. Follows(SelectionCheck(id))
    BY <2>7 DEF Follows
  <2> QED
    BY <2>6, <2>7, <2>8, ScreenSends
<1>3. CASE RejectSelection \/ SelectionAcked \/ SelectionAckTimeout
  <2>1. /\ \E id, ok : Answer(id, ok)
        /\ UNCHANGED <<bridge, pending, watcher, connected, clientVars>>
        /\ UNCHANGED job \/ (job.pc = "selectionAck" /\ job' = NoJob)
    BY <1>3 DEF RejectSelection, SelectionAcked, SelectionAckTimeout, At
  <2>2. PICK m : Appended(m) /\ m.type = "selection-result"
    BY <2>1, AnswerSends
  <2>3. /\ (InFlush' <=> InFlush) /\ (Live' <=> Live)
        /\ UNCHANGED job \/ ~InFlush
    BY <2>1 DEF InFlush, Live, NoJob
  <2>4. Tainted' => Tainted
    BY <2>1, TaintLessens DEF Waiting
  <2>5. connected /\ Resumes # {} => job'.task = "main" /\ InFlush'
    BY <2>3, StillResumes, NoResumes
  <2>6. Moves
    BY <2>1, <2>3, <2>4, <2>5 DEF Moves, Watching
  <2> QED
    BY <2>2, <2>6, ScreenSends DEF Follows
<1> QED
  BY <1>2, <1>3

LEMMA ScreenLocks ==
    ASSUME Prompt, TypeOK, HoldInvariant, PipelineInvariant, TaskInvariant, ShowInvariant,
           LinkInvariant,
           \/ BeginRelease \/ EndRelease \/ BeginSpeech \/ EndSpeech \/ StabilizerStops
           \/ WatchNotice
    PROVE  ShowInvariant' /\ LinkInvariant'
<1>1. ~BeginSpeech /\ ~EndSpeech
  BY DEF BeginSpeech, EndSpeech, Disturb, Prompt, TaskInvariant, PromptNow
<1>2. UNCHANGED <<job, connected, toClient, clientVars>>
  BY <1>1 DEF BeginRelease, EndRelease, StabilizerStops, WatchNotice, netVars
<1>3. ASSUME bridge'.pane = bridge.pane, bridge'.foreign = bridge.foreign,
             bridge'.reading = bridge.reading, Waiting' \subseteq Waiting,
             Live' => Live, Watching' => Watching
      PROVE  ShowInvariant' /\ LinkInvariant'
  <2>1. (InFlush' <=> InFlush) /\ (Tainted' => Tainted)
    BY <1>2, <1>3, TaintLessens DEF InFlush
  <2>2. Moves
    BY <1>2, <1>3, <2>1, StillResumes DEF Moves
  <2> QED
    BY <1>2, <2>2, ScreenQuiet
<1>4. CASE BeginRelease
  <2>1. UNCHANGED watcher /\
          \/ UNCHANGED <<bridge, pending>>
          \/ pending' = bridge.held /\ bridge' = [bridge EXCEPT !.held = {}]
    BY <1>4 DEF BeginRelease
  <2>2. /\ bridge'.pane = bridge.pane /\ bridge'.foreign = bridge.foreign
        /\ bridge'.reading = bridge.reading /\ bridge'.phase = bridge.phase
        /\ bridge'.hold = bridge.hold /\ Waiting' \subseteq Waiting
    BY <2>1, BridgeFields DEF Bridges, Waiting
  <2> QED
    BY <1>3, <2>1, <2>2 DEF Live, Watching
<1>5. CASE EndRelease
  <2>1. /\ UNCHANGED <<watcher, pending>> /\ sendLock = "release"
        /\ bridge' = [bridge EXCEPT !.hold = 0, !.phase = "forward"]
    BY <1>5 DEF EndRelease
  <2>2. /\ bridge'.pane = bridge.pane /\ bridge'.foreign = bridge.foreign
        /\ bridge'.reading = bridge.reading /\ Waiting' = Waiting
    BY <2>1, BridgeFields DEF Bridges, Waiting
  <2>3. Live
    BY <2>1 DEF PipelineInvariant, PendingOwned, Live
  <2> QED
    BY <1>3, <2>1, <2>2, <2>3 DEF Watching
<1>6. CASE StabilizerStops \/ WatchNotice
  <2>1. /\ UNCHANGED <<bridge, pending>>
        /\ UNCHANGED watcher \/ watcher.at = "up"
    BY <1>6 DEF StabilizerStops, WatchNotice
  <2> QED
    BY <1>3, <2>1 DEF Watching, Waiting, Live
<1> QED
  BY <1>1, <1>4, <1>5, <1>6

LEMMA ScreenCloses ==
    ASSUME ShowInvariant, CloseConnection, UNCHANGED <<toClient, clientVars>>
    PROVE  ShowInvariant' /\ LinkInvariant'
BY ShowSame, LinkClosed DEF CloseConnection

LEMMA ScreenConnection ==
    ASSUME TypeOK, HoldInvariant, PipelineInvariant, TaskInvariant, ShowInvariant,
           LinkInvariant, HandleSwitch \/ StartAckTimeout \/ JobFails \/ Drop \/ Reconnect
    PROVE  ShowInvariant' /\ LinkInvariant'
<1>1. CASE Reconnect
  BY <1>1, ScreenConnects DEF Reconnect
<1>2. CASE StartAckTimeout \/ Drop
  BY <1>2, ScreenCloses DEF StartAckTimeout, Drop
<1>3. CASE JobFails
  <2>1. UNCHANGED <<toClient, clientVars>>
    BY <1>3 DEF JobFails
  <2>2. CASE job.task = "main"
    BY <1>3, <2>1, <2>2, ScreenCloses DEF JobFails
  <2>3. CASE job.task # "main"
    <3>1. /\ job' = NoJob /\ UNCHANGED <<bridge, pending, connected>>
          /\ watcher' = IF job.task = "watch" THEN WatcherAt("down") ELSE watcher
      BY <1>3, <2>3 DEF JobFails
    <3>2. connected
      BY <1>3, Working DEF TaskInvariant
    <3>3. Resumes = {}
      BY <2>3, <3>2 DEF LinkInvariant, ResumesInFlush
    <3>4. ~InFlush' /\ (Live' <=> Live) /\ (Watching' => Watching)
      BY <3>1 DEF InFlush, Live, NoJob, Watching, WatcherAt
    <3>5. Tainted' => Tainted
      BY <3>1, TaintLessens DEF Waiting
    <3>6. Moves
      BY <2>1, <3>1, <3>3, <3>4, <3>5 DEF Moves
    <3> QED
      BY <2>1, <3>6, ScreenQuiet
  <2> QED
    BY <2>2, <2>3
<1>4. CASE HandleSwitch
  <2>1. connected /\ UNCHANGED clientVars
    BY <1>4, Working DEF TaskInvariant, Server, HandleSwitch
  <2>2. CASE UNCHANGED <<tmuxVars, serverVars, connected, toClient, acks>>
    <3>1. UNCHANGED <<serverVars, connected, toClient>> /\ Settles
      BY <2>1, <2>2 DEF Settles, clientVars, Seen, ExactNow, ShowInvariant, ScreenInStep
    <3> QED
      BY <3>1, ScreenSettles
  <2>3. ASSUME NEW s, job.task \in {"none", "stabilize"}, bridge' = NewBridge(s, bridge.epoch),
               job' = NoJob, Send(Ready(s)), UNCHANGED connected
        PROVE  ShowInvariant' /\ LinkInvariant'
    <3>1. Appended(Ready(s)) /\ Ready(s).type = "ready"
      BY <2>3, AppendWire DEF Ready
    <3>2. Follows(Ready(s))
      BY <3>1 DEF Follows
    <3>3. ShowInvariant'
      BY <2>1, <3>1, <3>2, ShowAppend
    <3>4. Resumes = {}
      BY <2>1, <2>3 DEF LinkInvariant, ResumesInFlush
    <3>5. Resumes' = {}
      BY <3>1, <3>4, OthersAppend DEF Resumes
    <3>6. PICK e : e = bridge.epoch
      OBVIOUS
    <3> QED
      BY <2>3, <3>3, <3>5, <3>6, LinkFresh
  <2> QED
    BY <1>4, <2>2, <2>3 DEF HandleSwitch
<1> QED
  BY <1>1, <1>2, <1>3, <1>4

LEMMA ScreenTmux ==
    ASSUME ShowInvariant, LinkInvariant,
           (\E p \in Panes : PaneOutput(p) \/ SelectPane(p)) \/ UNCHANGED vars
    PROVE  ShowInvariant' /\ LinkInvariant'
<1>1. UNCHANGED <<serverVars, connected, toClient, clientVars>>
  BY DEF PaneOutput, SelectPane, vars, netVars
<1>2. Settles
  BY <1>1 DEF Settles, clientVars, Seen, ExactNow, ShowInvariant, ScreenInStep
<1> QED
  BY <1>1, <1>2, ScreenSettles

-----------------------------------------------------------------------------
(* The screen                                                              *)

LEMMA ScreenInit == Init => ScreenInvariant
<1> SUFFICES ASSUME Init PROVE ScreenInvariant
  OBVIOUS
<1>1. /\ bridge.phase = "hold" /\ bridge.hold = 0 /\ bridge.reading = NoPane
      /\ bridge.foreign = {} /\ job.pc = "idle" /\ screen.painted
  BY DEF Init, NewBridge, NoJob
<1>2. PICK s \in Sessions : toClient = <<Ready(s)>>
  BY DEF Init
<1>3. \A i \in 1..Len(toClient) : toClient[i].type = "ready"
  BY <1>2 DEF Ready
<1>4. Seeds = {} /\ Opens = {} /\ Outputs = {} /\ Resumes = {}
  BY <1>3 DEF Seeds, Opens, Outputs, Resumes, OnTheirWay
<1>5. ~Live /\ ~InFlush /\ ~Tainted /\ ~ExactNow
  BY <1>1 DEF Live, InFlush, Tainted, ExactNow
<1>6. ShowInvariant
  BY <1>4, <1>5 DEF ShowInvariant, ScreenInStep, SeedsExact, SeedsUnseen, OpensNext,
    LiveSeen, ForeignShielded
<1>7. LinkInvariant
  BY <1>1, <1>4, <1>5 DEF LinkInvariant, ResumesInFlush, OutputSeen, TaintShielded,
    PaneShown, ReadingShown
<1> QED
  BY <1>6, <1>7, TaskInit DEF ScreenInvariant

LEMMA ScreenStep ==
    ASSUME Prompt, TypeOK, HoldInvariant, PipelineInvariant, ScreenInvariant, [Next]_vars
    PROVE  ScreenInvariant'
<1>1. TaskInvariant /\ ShowInvariant /\ LinkInvariant
  BY DEF ScreenInvariant
<1>2. TaskInvariant'
  BY <1>1, TaskStep, TypeStep
<1> SUFFICES ShowInvariant' /\ LinkInvariant'
  BY <1>2 DEF ScreenInvariant
<1>3. CASE Reader
  BY <1>1, <1>3, ScreenReader
<1>4. CASE Server
  <2>1. CASE MainReseed \/ HandleReseedRequest \/ HandleActivity \/ WatchReseed \/ Stabilize
    BY <1>1, <2>1, ScreenBegins
  <2>2. CASE StartAcked \/ TakeSnapshot \/ RetryCapture
    BY <1>1, <2>2, ScreenStages
  <2>3. CASE AcceptSnapshot \/ InstallDegraded \/ SeedAcked
    BY <1>1, <2>3, ScreenAccepts, ScreenSeedAcked
  <2>4. CASE BeginFlush \/ SendHeld \/ EndFlush \/ FlushAcked
    BY <1>1, <2>4, ScreenBeginFlush, ScreenSendHeld, ScreenEndFlush, ScreenFlushAcked
  <2>5. CASE HoldForSelection \/ RejectSelection \/ SelectionAcked
    BY <1>1, <2>5, ScreenSelects
  <2>6. CASE BeginRelease \/ EndRelease \/ EndSpeech \/ StabilizerStops \/ WatchNotice
    BY <1>1, <2>6, ScreenLocks
  <2>7. CASE HandleSwitch
    BY <1>1, <2>7, ScreenConnection
  <2> QED
    BY <1>4, <2>1, <2>2, <2>3, <2>4, <2>5, <2>6, <2>7 DEF Server
<1>5. CASE Browser
  <2>1. CASE \/ ClientSeedStart \/ ClientDropOutput \/ ClientPostFlush
             \/ ClientSelectionCheck \/ ClientSelectionResult \/ ClientReady
    BY <1>1, <2>1, ScreenPasses
  <2>2. CASE ClientSeedResume \/ ClientSeedData \/ ClientOutput \/ ClientSeedOpen
    BY <1>1, <2>2, ScreenResumes, ScreenSeeds, ScreenWrites, ScreenOpens
  <2>3. CASE WatchdogWhenStuck \/ Reconnect
    BY <1>1, <2>3, ScreenUser, ScreenConnection
  <2> QED
    BY <1>5, <2>1, <2>2, <2>3 DEF Browser
<1>6. CASE Environment
  <2>1. CASE GiveUp \/ SelectionAckTimeout \/ BeginSpeech
    BY <1>1, <2>1, ScreenGivesUp, ScreenSelects, ScreenLocks
  <2>2. CASE StartAckTimeout \/ JobFails \/ Drop
    BY <1>1, <2>2, ScreenConnection
  <2>3. CASE \/ SlowWatchdog \/ ClientBacklog \/ ClientRequest
             \/ ClientSelect \/ ClientSelectionTimeout \/ ClientSwitch
    BY <1>1, <2>3, ScreenUser
  <2>4. CASE \E p \in Panes : PaneOutput(p) \/ SelectPane(p)
    BY <1>1, <2>4, ScreenTmux
  <2> QED
    BY <1>6, <2>1, <2>2, <2>3, <2>4 DEF Environment
<1>7. CASE UNCHANGED vars
  BY <1>1, <1>7, ScreenTmux
<1> QED
  BY <1>3, <1>4, <1>5, <1>6, <1>7 DEF Next, Progress

\* The inductive invariant of the screen holds in every reachable state, when no
\* speech result keeps send_lock and no watchdog runs out early: what a seed, a
\* seed-open or a byte on its way will find on the screen, and that a byte of a pane
\* the watcher has left reaches no exact screen (reseed, pane_bytes, watch_tabs,
\* handleTerminalBinary).
THEOREM ScreenCorrect ==
    ASSUME Prompt
    PROVE  Spec => [](TypeOK /\ HoldInvariant /\ PipelineInvariant /\ ScreenInvariant)
<1>1. Init => ScreenInvariant
  BY ScreenInit
<1>2. TypeOK /\ HoldInvariant /\ PipelineInvariant /\ ScreenInvariant /\ [Next]_vars
        => ScreenInvariant'
  BY ScreenStep
<1> QED
  BY <1>1, <1>2, PipelineCorrect, PTL DEF Spec

\* Whenever the browser calls its terminal authoritative after an exact seed, the
\* screen shows each byte of the pane once, in order, up to the revision, whatever
\* mix of reseeds, resumes, selections, pane and session changes, drops and failures
\* came before (reseed, pane_bytes, handleTerminalBinary).
THEOREM ScreenIsExact ==
    ASSUME Prompt
    PROVE  Spec => []ScreenExact
<1>1. ScreenInvariant => ScreenExact
  BY DEF ScreenInvariant, ShowInvariant, ScreenInStep, ExactNow, ScreenExact
<1> QED
  BY <1>1, ScreenCorrect, PTL

-----------------------------------------------------------------------------
(* The protocol implements LiveScreen                                      *)

\* A step that shows as many bytes as before grows and replaces nothing.
LEMMA LiveSettles ==
    ASSUME TypeOK, TypeOK', screen'.shown = screen.shown
    PROVE  [LiveView!Next]_<<LiveNow, screen.shown>>
<1>1. LiveNow \in BOOLEAN /\ LiveNow' \in BOOLEAN
  BY DEF LiveNow, TypeOK, ClientTypeOK, Clients, Screens
<1>2. screen'.shown \in Nat
  BY DEF TypeOK, ClientTypeOK, Screens
<1>3. CASE LiveNow /\ LiveNow'
  <2>1. LiveNow' = LiveNow
    BY <1>1, <1>3
  <2> QED
    BY <2>1
<1>4. CASE ~(LiveNow /\ LiveNow')
  <2>1. LiveView!Replace \/ LiveView!GoLive \/ LiveView!Lose
    BY <1>2, <1>4 DEF LiveView!Replace, LiveView!GoLive, LiveView!Lose
  <2> QED
    BY <2>1 DEF LiveView!Next
<1> QED
  BY <1>3, <1>4

\* A seed finds the browser without authority, and gives it none.
LEMMA LiveSeeds ==
    ASSUME TypeOK, TypeOK', ShowInvariant, ClientSeedData
    PROVE  LiveView!Replace
<1>1. /\ toClient # <<>> /\ Head(toClient).type = "seed-data"
      /\ client'.authoritative = client.authoritative
  BY DEF ClientSeedData, Receive, Taken, TypeOK, ClientTypeOK, Clients
<1>2. 1 \in Seeds
  BY <1>1, FirstMessage DEF Seeds, OnTheirWay
<1>3. \A j \in Breaks : j \in Nat \ {0}
  BY <1>1, FirstMessage DEF Breaks, OnTheirWay
<1>4. ~client.authoritative
  BY <1>2, <1>3 DEF ShowInvariant, SeedsUnseen
<1>5. screen'.shown \in Nat
  BY DEF TypeOK, ClientTypeOK, Screens
<1> QED
  BY <1>1, <1>4, <1>5 DEF LiveView!Replace, LiveNow

\* Output adds the next byte to a live screen, and makes no screen live.
LEMMA LiveWrites ==
    ASSUME TypeOK, TypeOK', ShowInvariant, ClientOutput
    PROVE  [LiveView!Next]_<<LiveNow, screen.shown>>
<1> DEFINE h == Head(toClient)
<1>1. CASE Connect
  <2>1. screen' = screen
    BY <1>1 DEF Connect
  <2> QED
    BY <2>1, LiveSettles
<1>2. CASE ~Connect
  <2>1. /\ InOrder(h) /\ client' = [Taken EXCEPT !.revision = @ + 1]
        /\ screen' = IF Counted(h) THEN screen
                     ELSE [screen EXCEPT !.shown = h.start + 1,
                                         !.torn = @ \/ ~h.own \/ screen.shown # h.start]
    BY <1>2 DEF ClientOutput
  <2>2. client'.authoritative = client.authoritative
    BY <2>1 DEF Taken, TypeOK, ClientTypeOK, Clients
  <2>3. screen'.exact = screen.exact /\ screen'.painted = screen.painted
    BY <2>1 DEF TypeOK, ClientTypeOK, Screens
  <2>4. screen'.shown \in Nat
    BY DEF TypeOK, ClientTypeOK, Screens
  <2>5. CASE LiveNow
    <3>1. screen.shown = client.revision /\ h.start = client.revision
      BY <2>1, <2>5 DEF LiveNow, ExactNow, ShowInvariant, ScreenInStep, InOrder
    <3>2. screen'.shown = h.start + 1
      BY <2>1, <2>5 DEF Counted, LiveNow, TypeOK, ClientTypeOK, Screens
    <3> QED
      BY <2>2, <2>3, <2>5, <3>1, <3>2 DEF LiveNow, LiveView!Next, LiveView!Grow
  <2>6. CASE ~LiveNow
    BY <2>2, <2>3, <2>4, <2>6 DEF LiveNow, LiveView!Next, LiveView!Replace
  <2> QED
    BY <2>5, <2>6
<1> QED
  BY <1>1, <1>2

\* Every other step shows as many bytes as before.
LEMMA LiveServer ==
    ASSUME Reader \/ Server
    PROVE  screen' = screen
<1>1. CASE Reader
  BY <1>1 DEF Reader, ReadOutput, ResumeReading, clientVars
<1>2. CASE MainReseed \/ HandleReseedRequest \/ HandleActivity \/ WatchReseed \/ Stabilize
  BY <1>2 DEF MainReseed, HandleReseedRequest, HandleActivity, WatchReseed, Stabilize,
    BeginReseed, clientVars
<1>3. CASE \/ StartAcked \/ TakeSnapshot \/ RetryCapture \/ AcceptSnapshot
           \/ InstallDegraded \/ SeedAcked
  BY <1>3 DEF StartAcked, TakeSnapshot, RetryCapture, AcceptSnapshot, InstallDegraded,
    SeedAcked, clientVars
<1>4. CASE BeginFlush \/ SendHeld \/ EndFlush \/ FlushAcked
  BY <1>4 DEF BeginFlush, SendHeld, EndFlush, FlushAcked, clientVars
<1>5. CASE HoldForSelection \/ RejectSelection \/ SelectionAcked \/ HandleSwitch
  BY <1>5 DEF HoldForSelection, RejectSelection, SelectionAcked, HandleSwitch, clientVars
<1>6. CASE BeginRelease \/ EndRelease \/ EndSpeech \/ StabilizerStops \/ WatchNotice
  BY <1>6 DEF BeginRelease, EndRelease, EndSpeech, StabilizerStops, WatchNotice, clientVars
<1> QED
  BY <1>1, <1>2, <1>3, <1>4, <1>5, <1>6 DEF Server

LEMMA LiveBrowser ==
    ASSUME Browser, ~ClientSeedData, ~ClientOutput
    PROVE  screen' = screen
<1>1. CASE ClientSeedStart \/ ClientSeedResume \/ ClientDropOutput \/ Reconnect
  BY <1>1 DEF ClientSeedStart, ClientSeedResume, ClientDropOutput, Reconnect, Connect,
    clientVars
<1>2. CASE ClientPostFlush \/ ClientSeedOpen \/ ClientReady \/ WatchdogWhenStuck
  BY <1>2 DEF ClientPostFlush, ClientSeedOpen, ClientReady, WatchdogWhenStuck,
    RecoveryWatchdog
<1>3. CASE ClientSelectionCheck \/ ClientSelectionResult
  BY <1>3 DEF ClientSelectionCheck, ClientSelectionResult
<1> QED
  BY <1>1, <1>2, <1>3 DEF Browser

LEMMA LiveEnvironment ==
    ASSUME TypeOK, Environment
    PROVE  screen'.shown = screen.shown
<1>1. CASE \E p \in Panes : PaneOutput(p) \/ SelectPane(p)
  BY <1>1 DEF PaneOutput, SelectPane, Disturb, clientVars
<1>2. CASE GiveUp \/ StartAckTimeout \/ JobFails \/ SelectionAckTimeout \/ BeginSpeech \/ Drop
  BY <1>2 DEF GiveUp, StartAckTimeout, JobFails, SelectionAckTimeout, BeginSpeech, Drop,
    clientVars
<1>3. CASE \/ SlowWatchdog \/ ClientBacklog \/ ClientRequest \/ ClientSelect
           \/ ClientSelectionTimeout
  BY <1>3 DEF SlowWatchdog, RecoveryWatchdog, ClientBacklog, ClientRequest, ClientSelect,
    ClientSelectionTimeout, clientVars
<1>4. CASE ClientSwitch
  BY <1>4 DEF ClientSwitch, TypeOK, ClientTypeOK, Screens
<1> QED
  BY <1>1, <1>2, <1>3, <1>4 DEF Environment

LEMMA LiveStep ==
    ASSUME TypeOK, ShowInvariant, [Next]_vars
    PROVE  [LiveView!Next]_<<LiveNow, screen.shown>>
<1>1. TypeOK'
  BY TypeStep
<1>2. CASE ClientSeedData
  BY <1>1, <1>2, LiveSeeds DEF LiveView!Next
<1>3. CASE ClientOutput
  BY <1>1, <1>3, LiveWrites
<1>4. CASE ~ClientSeedData /\ ~ClientOutput
  <2>1. screen'.shown = screen.shown
    BY <1>4, LiveServer, LiveBrowser, LiveEnvironment DEF Next, Progress, vars, clientVars
  <2> QED
    BY <1>1, <2>1, LiveSettles
<1> QED
  BY <1>2, <1>3, <1>4

\* The protocol implements LiveScreen: while the browser has authority over an exact
\* seed its screen grows by the next byte and by nothing else, and it is replaced only
\* without authority (websocket_handler, handleTerminalControl, handleTerminalBinary).
THEOREM ScreenRefines ==
    ASSUME Prompt
    PROVE  Spec => ImplementsLiveScreen
<1>1. Init => LiveView!Init
  BY DEF Init, LiveView!Init, LiveNow
<1>2. TypeOK /\ ScreenInvariant /\ [Next]_vars => [LiveView!Next]_<<LiveNow, screen.shown>>
  BY LiveStep DEF ScreenInvariant
<1> QED
  BY <1>1, <1>2, ScreenCorrect, PTL DEF Spec, ImplementsLiveScreen, LiveView!Spec

===============================================================================
