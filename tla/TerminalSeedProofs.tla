------------------------- MODULE TerminalSeedProofs -------------------------
(***************************************************************************)
(* The types of TerminalSeed and the safety of the bridge's hold buffer,   *)
(* for every set of sessions and panes and every bound: what a reseed or a *)
(* selection holds is complete until it is replayed, and live output never *)
(* overtakes it.                                                           *)
(*                                                                         *)
(* HoldInvariant is inductive together with TypeOK.  The steps fall into   *)
(* the reader's, those that take or give up the seed lock, the flush of a  *)
(* seed, the hold of a selection, and the rest, which leave the buffer,    *)
(* its locks and their owners alone.                                       *)
(***************************************************************************)
EXTENDS TerminalSeed, WellFoundedInduction, TLAPS

-----------------------------------------------------------------------------
(* Types                                                                   *)

LEMMA NewBridgeType ==
    ASSUME TypeOK, NEW s \in Sessions, NEW e \in Nat
    PROVE  NewBridge(s, e) \in Bridges
BY DEF NewBridge, Bridges, TypeOK, TmuxTypeOK

LEMMA SendType ==
    ASSUME NetTypeOK, NEW m \in ServerMessages, Send(m)
    PROVE  toClient' \in Seq(ServerMessages)
BY DEF NetTypeOK, Send

LEMMA AskType ==
    ASSUME NetTypeOK, NEW r \in ClientRequests, Ask(r)
    PROVE  requests' \in Seq(ClientRequests)
BY DEF NetTypeOK, Ask

LEMMA ReceiveType ==
    ASSUME NetTypeOK, toClient # <<>>
    PROVE  Head(toClient) \in ServerMessages /\ Tail(toClient) \in Seq(ServerMessages)
BY DEF NetTypeOK

LEMMA RequestType ==
    ASSUME NetTypeOK, requests # <<>>
    PROVE  Head(requests) \in ClientRequests /\ Tail(requests) \in Seq(ClientRequests)
BY DEF NetTypeOK

LEMMA ReadyType == \A s \in Sessions : Ready(s) \in ServerMessages
BY DEF Ready, ServerMessages

LEMMA InitType == Init => TypeOK
<1> SUFFICES ASSUME Init PROVE TypeOK
  OBVIOUS
<1>1. activePane \in [Sessions -> Panes]
  BY DEF Init
<1>2. PICK s \in Sessions : /\ bridge = NewBridge(s, 0) /\ client \in Clients
                            /\ toClient = <<Ready(s)>>
  BY DEF Init, Clients, NoSelection
<1>3. bridge \in Bridges
  BY <1>1, <1>2 DEF NewBridge, Bridges
<1>4. TmuxTypeOK /\ ClientTypeOK
  BY <1>1, <1>2 DEF Init, TmuxTypeOK, ClientTypeOK, Screens
<1>5. ServerTypeOK
  <2>1. job \in Jobs
    BY DEF Init, NoJob, Jobs, SeedReasons
  <2>2. main \in MainStates /\ watcher \in WatcherStates
    BY DEF Init, MainAt, MainStates, WatcherAt, WatcherStates
  <2> QED
    BY <1>3, <2>1, <2>2 DEF Init, ServerTypeOK
<1>6. NetTypeOK
  <2>1. toClient \in Seq(ServerMessages)
    BY <1>2, ReadyType
  <2> QED
    BY <2>1 DEF Init, NetTypeOK
<1> QED
  BY <1>4, <1>5, <1>6 DEF TypeOK

\* The smallest element of a set of offsets.
LEMMA LeastNat ==
    ASSUME NEW S \in SUBSET Nat, S # {}
    PROVE  Least(S) \in S /\ \A t \in S : Least(S) <= t
<1> DEFINE R == {ss \in Nat \X Nat : ss[1] < ss[2]}
<1>1. IsWellFoundedOn(R, Nat)
  BY NatLessThanWellFounded DEF OpToRel
<1>2. ASSUME NEW x \in Nat, NEW y \in Nat, <<y, x>> \notin R PROVE x <= y
  BY <1>2
<1>3. PICK x \in S : \A y \in S : <<y, x>> \notin R
  <2> HIDE DEF R
  <2> QED
    BY <1>1, WFMin
<1> HIDE DEF R
<1> QED
  BY <1>2, <1>3 DEF Least

LEMMA ServerMessageTypes ==
    ASSUME NEW e \in Nat, NEW p \in Panes, NEW c \in Nat, NEW n \in Nat,
           NEW b \in BOOLEAN, NEW k \in Kinds
    PROVE  /\ SeedStart(e) \in ServerMessages
           /\ SeedResume(e, p, c) \in ServerMessages
           /\ SeedData(e, p, c, n, b) \in ServerMessages
           /\ Output(e, p, c, k, b) \in ServerMessages
           /\ PostFlush(e) \in ServerMessages
           /\ SeedOpen(e, p, c) \in ServerMessages
BY DEF ServerMessages, SeedStart, SeedResume, SeedData, Output, PostFlush, SeedOpen

LEMMA SelectionMessageTypes ==
    ASSUME NEW i \in Nat, NEW b \in BOOLEAN
    PROVE  /\ i # 0 => SelectionCheck(i) \in ServerMessages
           /\ SelectionResult(i, b) \in ServerMessages
BY DEF ServerMessages, SelectionCheck, SelectionResult

LEMMA MessageFields ==
    ASSUME NEW m \in ServerMessages
    PROVE  /\ m.type \in {"seed-start", "post-flush", "seed-resume", "seed-open",
                          "seed-data", "terminal-output"} => m.epoch \in Nat
           /\ m.type \in {"seed-resume", "seed-open", "seed-data"} =>
                m.pane \in Panes /\ m.cutoff \in Nat
           /\ m.type = "seed-data" => m.content \in Nat /\ m.exact \in BOOLEAN
           /\ m.type = "terminal-output" => m.start \in Nat /\ m.own \in BOOLEAN
           /\ m.type = "selection-check" => m.id \in Nat \ {0}
           /\ m.type = "ready" => m.session \in Sessions
BY DEF ServerMessages

LEMMA RequestFields ==
    ASSUME NEW r \in ClientRequests
    PROVE  /\ r.type = "switch-session" => r.session \in Sessions
           /\ r.type = "selection-request" => r.id \in Nat \ {0}
BY DEF ClientRequests

\* Nothing of a type but what vars holds.
LEMMA TypeStutter == TypeOK /\ UNCHANGED vars => TypeOK'
BY DEF TypeOK, TmuxTypeOK, ServerTypeOK, NetTypeOK, ClientTypeOK,
       vars, tmuxVars, serverVars, netVars, clientVars

\* One field of a bridge gets another value.
LEMMA BridgeUpdate ==
    ASSUME NEW b \in Bridges
    PROVE  /\ \A n \in Nat : /\ [b EXCEPT !.offset = n] \in Bridges
                             /\ [b EXCEPT !.cutoff = n] \in Bridges
                             /\ [b EXCEPT !.hold = n] \in Bridges
                             /\ [b EXCEPT !.epoch = n] \in Bridges
           /\ \A p \in Panes \cup {NoPane} : [b EXCEPT !.reading = p] \in Bridges
           /\ \A p \in Panes : [b EXCEPT !.pane = p] \in Bridges
           /\ \A x \in {"hold", "forward"} : [b EXCEPT !.phase = x] \in Bridges
           /\ \A x \in BOOLEAN : [b EXCEPT !.degraded = x] \in Bridges
           /\ \A S \in SUBSET Nat : /\ [b EXCEPT !.held = S] \in Bridges
                                    /\ [b EXCEPT !.foreign = S] \in Bridges
BY DEF Bridges

LEMMA TypeTmux ==
    ASSUME TypeOK, NEW p \in Panes, PaneOutput(p) \/ SelectPane(p)
    PROVE  TypeOK'
<1>1. CASE PaneOutput(p)
  BY <1>1 DEF PaneOutput, TypeOK, TmuxTypeOK, ServerTypeOK, NetTypeOK,
    ClientTypeOK, serverVars, netVars, clientVars
<1>2. CASE SelectPane(p)
  BY <1>2, SessionAssumption DEF SelectPane, Disturb, TypeOK, TmuxTypeOK,
    ServerTypeOK, NetTypeOK, ClientTypeOK, serverVars, netVars, clientVars
<1> QED
  BY <1>1, <1>2

LEMMA NumberedType ==
    ASSUME NEW b \in Bridges, NEW f \in SUBSET Nat
    PROVE  [b EXCEPT !.offset = @ + 1, !.reading = NoPane, !.foreign = f] \in Bridges
<1>1. b.offset + 1 \in Nat
  BY DEF Bridges
<1> QED
  BY <1>1, BridgeUpdate

LEMMA RecordType ==
    ASSUME TypeOK, NEW own \in BOOLEAN, Record(own)
    PROVE  bridge' \in Bridges /\ toClient' \in Seq(ServerMessages)
<1>1. bridge.offset \in Nat /\ bridge.epoch \in Nat /\ bridge.pane \in Panes
  BY DEF TypeOK, ServerTypeOK, Bridges
<1>2. bridge' \in Bridges
  <2> DEFINE foreign == IF own THEN bridge.foreign
                        ELSE bridge.foreign \cup {bridge.offset}
             numbered == [bridge EXCEPT !.offset = @ + 1, !.reading = NoPane,
                                        !.foreign = foreign]
  <2>1. foreign \in SUBSET Nat
    BY <1>1 DEF TypeOK, ServerTypeOK, Bridges
  <2>2. numbered \in Bridges
    BY <2>1, <1>1, NumberedType DEF TypeOK, ServerTypeOK
  <2>3. bridge' \in {numbered,
                     [numbered EXCEPT !.held = @ \cup {bridge.offset}]}
    BY DEF Record
  <2> HIDE DEF numbered
  <2> QED
    BY <1>1, <2>2, <2>3 DEF Bridges
<1>3. "live" \in Kinds
  BY DEF Kinds
<1>4. Output(bridge.epoch, bridge.pane, bridge.offset, "live", own) \in ServerMessages
  BY <1>1, <1>3, ServerMessageTypes
<1> QED
  BY <1>2, <1>4 DEF Record, Send, TypeOK, NetTypeOK

LEMMA TypeReader ==
    ASSUME TypeOK, Reader
    PROVE  TypeOK'
<1>1. ASSUME NEW p \in Panes, ReadOutput(p) PROVE TypeOK'
  <2>1. bridge' \in Bridges /\ toClient' \in Seq(ServerMessages)
    BY <1>1, RecordType DEF ReadOutput, TypeOK, ServerTypeOK, NetTypeOK, Bridges
  <2>2. lag' \in [Panes -> Nat]
    BY <1>1 DEF ReadOutput, TypeOK, TmuxTypeOK
  <2> QED
    BY <1>1, <2>1, <2>2 DEF ReadOutput, TypeOK, TmuxTypeOK, ServerTypeOK,
      NetTypeOK, ClientTypeOK, clientVars
<1>2. CASE ResumeReading
  <2>1. bridge' \in Bridges /\ toClient' \in Seq(ServerMessages)
    BY <1>2, RecordType DEF ResumeReading
  <2> QED
    BY <1>2, <2>1 DEF ResumeReading, TypeOK, TmuxTypeOK, ServerTypeOK,
      NetTypeOK, ClientTypeOK, tmuxVars, clientVars
<1> QED
  BY <1>1, <1>2 DEF Reader

LEMMA BridgeFields ==
    ASSUME TypeOK
    PROVE  /\ bridge \in Bridges
           /\ bridge.session \in Sessions /\ bridge.pane \in Panes
           /\ bridge.offset \in Nat /\ bridge.epoch \in Nat
           /\ bridge.cutoff \in Nat /\ bridge.hold \in Nat
           /\ bridge.degraded \in BOOLEAN
           /\ bridge.held \in SUBSET Nat /\ bridge.foreign \in SUBSET Nat
           /\ bridge.reading \in Panes \cup {NoPane}
BY DEF TypeOK, ServerTypeOK, Bridges

LEMMA BeginReseedType ==
    ASSUME TypeOK, NEW task \in {"main", "watch", "stabilize"},
           NEW reason \in SeedReasons, NEW next \in Panes \cup {NoPane},
           BeginReseed(task, reason, next)
    PROVE  /\ TmuxTypeOK' /\ ClientTypeOK'
           /\ bridge' \in Bridges /\ job' \in Jobs
           /\ toClient' \in Seq(ServerMessages)
           /\ <<sendLock, pending, stabilizer, connected, acks>>'
                = <<sendLock, pending, stabilizer, connected, acks>>
<1> DEFINE kept == KeptBy(reason)
           pane == IF next = NoPane THEN bridge.pane ELSE next
           resume == IF kept = {} THEN bridge.offset ELSE Least(kept)
<1>1. kept \in SUBSET Nat
  BY BridgeFields DEF KeptBy
<1>2. resume \in Nat
  BY <1>1, LeastNat, BridgeFields
<1>3. pane \in Panes /\ bridge.epoch + 1 \in Nat
  BY BridgeFields
<1>4. bridge' = [bridge EXCEPT !.hold = 0, !.phase = "hold", !.held = kept,
                               !.pane = pane, !.epoch = bridge.epoch + 1]
  BY DEF BeginReseed
<1>5. job' = [NoJob EXCEPT !.task = task, !.pc = "startAck",
                           !.reason = reason, !.resume = resume]
  BY DEF BeginReseed
<1>6. toClient' = Append(toClient, SeedStart(bridge.epoch + 1))
  BY DEF BeginReseed, Send
<1>7. UNCHANGED <<tmuxVars, clientVars>>
      /\ <<sendLock, pending, stabilizer, connected, acks>>'
           = <<sendLock, pending, stabilizer, connected, acks>>
  BY DEF BeginReseed
<1>8. bridge' \in Bridges
  <2> HIDE DEF kept, pane
  <2>1. [bridge EXCEPT !.hold = 0] \in Bridges
    BY BridgeFields, BridgeUpdate
  <2>2. [bridge EXCEPT !.hold = 0, !.phase = "hold"] \in Bridges
    BY <2>1, BridgeUpdate
  <2>3. [bridge EXCEPT !.hold = 0, !.phase = "hold", !.held = kept] \in Bridges
    BY <1>1, <2>2, BridgeUpdate
  <2>4. [bridge EXCEPT !.hold = 0, !.phase = "hold", !.held = kept,
                       !.pane = pane] \in Bridges
    BY <1>3, <2>3, BridgeUpdate
  <2> QED
    BY <1>3, <1>4, <2>4, BridgeUpdate
<1>9. job' \in Jobs
  <2> HIDE DEF resume
  <2> QED
    BY <1>2, <1>5 DEF NoJob, Jobs
<1>10. toClient' \in Seq(ServerMessages)
  <2>1. SeedStart(bridge.epoch + 1) \in ServerMessages
    BY <1>3 DEF ServerMessages, SeedStart
  <2> QED
    BY <1>6, <2>1 DEF TypeOK, NetTypeOK
<1> QED
  BY <1>7, <1>8, <1>9, <1>10 DEF TypeOK, TmuxTypeOK, ClientTypeOK, tmuxVars, clientVars

LEMMA PlaceTypes ==
    /\ \A x \in {"initial", "idle", "busy", "release", "switch", "closed"} :
         MainAt(x) \in MainStates
    /\ \A x \in {"up", "waiting", "seeding", "down"} : WatcherAt(x) \in WatcherStates
    /\ NoJob \in Jobs
BY DEF MainAt, MainStates, WatcherAt, WatcherStates, NoJob, Jobs, SeedReasons

LEMMA NextRequestType ==
    ASSUME TypeOK, NEW type, NextRequest(type)
    PROVE  /\ requests' \in Seq(ClientRequests)
           /\ Head(requests) \in ClientRequests /\ Head(requests).type = type
BY RequestType DEF TypeOK, NextRequest

\* Every step that starts a reseed.
LEMMA TypeBeginReseed ==
    ASSUME TypeOK,
           \/ MainReseed \/ HandleReseedRequest \/ HandleActivity
           \/ WatchReseed \/ Stabilize
    PROVE  TypeOK'
<1> USE DEF TypeOK, ServerTypeOK, NetTypeOK
<1>1. CASE MainReseed
  <2> DEFINE reason == IF main.at = "initial" THEN "initial" ELSE "session-switch"
  <2>1. reason \in SeedReasons /\ "main" \in {"main", "watch", "stabilize"}
    BY DEF SeedReasons
  <2>2. BeginReseed("main", reason, NoPane) /\ main' = MainAt("busy")
        /\ UNCHANGED <<watcher, requests>>
    BY <1>1 DEF MainReseed
  <2> HIDE DEF reason
  <2> QED
    BY <2>1, <2>2, BeginReseedType, PlaceTypes
<1>2. CASE HandleReseedRequest
  <2>1. PICK reason \in {"history", "resize"} :
          /\ NextRequest(IF reason = "history" THEN "history-reseed" ELSE "resize")
          /\ BeginReseed("main", reason, NoPane)
          /\ main' = MainAt("busy") /\ UNCHANGED watcher
    BY <1>2 DEF HandleReseedRequest
  <2>2. reason \in SeedReasons
    BY DEF SeedReasons
  <2> QED
    BY <2>1, <2>2, BeginReseedType, PlaceTypes, NextRequestType
<1>3. CASE HandleActivity
  <2>1. requests' \in Seq(ClientRequests)
    BY <1>3, NextRequestType DEF HandleActivity
  <2>2. "activity" \in SeedReasons
    BY DEF SeedReasons
  <2>3. CASE BeginReseed("main", "activity", NoPane) /\ main' = MainAt("busy")
             /\ UNCHANGED watcher
    BY <2>1, <2>2, <2>3, BeginReseedType, PlaceTypes
  <2>4. CASE UNCHANGED <<tmuxVars, serverVars, connected, toClient, acks, clientVars>>
    BY <2>1, <2>4 DEF TmuxTypeOK, ClientTypeOK, tmuxVars, serverVars, clientVars
  <2> QED
    BY <1>3, <2>3, <2>4 DEF HandleActivity
<1>4. CASE WatchReseed
  <2>1. watcher.next \in Panes \cup {NoPane} /\ "pane-change" \in SeedReasons
    BY DEF WatcherStates, SeedReasons
  <2>2. BeginReseed("watch", "pane-change", watcher.next)
        /\ watcher' = WatcherAt("seeding") /\ UNCHANGED <<main, requests>>
    BY <1>4 DEF WatchReseed
  <2> QED
    BY <2>1, <2>2, BeginReseedType, PlaceTypes
<1>5. CASE Stabilize
  <2>1. "stabilize" \in SeedReasons
    BY DEF SeedReasons
  <2> QED
    BY <1>5, <2>1, BeginReseedType DEF Stabilize
<1> QED
  BY <1>1, <1>2, <1>3, <1>4, <1>5

LEMMA PaneContentType ==
    ASSUME TypeOK
    PROVE  PaneContent \in Nat
<1>1. lag[bridge.pane] \in Nat
  BY BridgeFields DEF TypeOK, TmuxTypeOK
<1> QED
  BY <1>1, BridgeFields DEF PaneContent

\* One field of the job gets another value.
LEMMA JobUpdate ==
    ASSUME NEW j \in Jobs
    PROVE  /\ \A x \in {"idle", "startAck", "capture", "verify", "linearize",
                        "seedAck", "flush", "flushing", "flushAck", "selectionAck"} :
                [j EXCEPT !.pc = x] \in Jobs
           /\ \A n \in Nat : /\ [j EXCEPT !.candidate = n] \in Jobs
                             /\ [j EXCEPT !.snap = n] \in Jobs
BY DEF Jobs

LEMMA InstallType ==
    ASSUME TypeOK, NEW cutoff \in Nat, NEW exact \in BOOLEAN, Install(cutoff, exact)
    PROVE  /\ bridge' \in Bridges /\ job' \in Jobs
           /\ toClient' \in Seq(ServerMessages)
<1> DEFINE held == {s \in bridge.held : s >= cutoff}
<1>1. held \in SUBSET Nat
  BY BridgeFields
<1>2. bridge' = [bridge EXCEPT !.cutoff = cutoff, !.degraded = ~exact, !.held = held]
  BY DEF Install
<1>3. bridge' \in Bridges
  <2> HIDE DEF held
  <2>1. [bridge EXCEPT !.cutoff = cutoff] \in Bridges
    BY BridgeFields, BridgeUpdate
  <2>2. (~exact) \in BOOLEAN
    OBVIOUS
  <2>3. [bridge EXCEPT !.cutoff = cutoff, !.degraded = ~exact] \in Bridges
    BY <2>1, <2>2, BridgeUpdate
  <2> QED
    BY <1>1, <1>2, <2>3, BridgeUpdate
<1>4. job' \in Jobs
  BY JobUpdate DEF Install, Goto, TypeOK, ServerTypeOK
<1>5. SeedData(bridge.epoch, bridge.pane, cutoff, job.snap, exact) \in ServerMessages
  BY BridgeFields DEF SeedData, ServerMessages, TypeOK, ServerTypeOK, Jobs
<1> QED
  BY <1>3, <1>4, <1>5 DEF Install, Send, TypeOK, NetTypeOK

\* The steps of a reseed from the first acknowledgement to the flush.
LEMMA TypeSeed ==
    ASSUME TypeOK,
           \/ StartAcked \/ TakeSnapshot \/ AcceptSnapshot \/ RetryCapture
           \/ GiveUp \/ InstallDegraded \/ SeedAcked
    PROVE  TypeOK'
<1> USE DEF TypeOK, ServerTypeOK, NetTypeOK
<1>1. job.candidate \in Nat /\ job.resume \in Nat /\ job \in Jobs
  BY DEF Jobs
<1>2. CASE TakeSnapshot
  <2> DEFINE j == [job EXCEPT !.pc = "verify"]
  <2>1. [j EXCEPT !.candidate = bridge.offset] \in Jobs
    BY <1>1, BridgeFields, JobUpdate
  <2>2. [[j EXCEPT !.candidate = bridge.offset] EXCEPT !.snap = PaneContent] \in Jobs
    BY <2>1, JobUpdate, PaneContentType
  <2>3. job' \in Jobs
    BY <1>2, <2>2 DEF TakeSnapshot
  <2> QED
    BY <1>2, <2>3 DEF TakeSnapshot, TmuxTypeOK, ClientTypeOK, tmuxVars, netVars,
      clientVars
<1>3. CASE AcceptSnapshot
  <2>1. Install(job.candidate, TRUE)
    BY <1>3 DEF AcceptSnapshot
  <2>2. bridge' \in Bridges /\ job' \in Jobs /\ toClient' \in Seq(ServerMessages)
    BY <1>1, <2>1, InstallType
  <2> QED
    BY <1>3, <2>2 DEF AcceptSnapshot, TmuxTypeOK, ClientTypeOK, tmuxVars, clientVars
<1>4. CASE InstallDegraded
  <2>1. Install(bridge.offset, FALSE)
    BY <1>4 DEF InstallDegraded
  <2>2. bridge' \in Bridges /\ job' \in Jobs /\ toClient' \in Seq(ServerMessages)
    BY BridgeFields, <2>1, InstallType
  <2> QED
    BY <1>4, <2>2 DEF InstallDegraded, TmuxTypeOK, ClientTypeOK, tmuxVars, clientVars
<1>5. CASE GiveUp
  <2>1. CASE job.reason \in Resumable
    <3>1. [bridge EXCEPT !.cutoff = job.resume] \in Bridges
      BY <1>1, BridgeUpdate
    <3>2. [bridge EXCEPT !.cutoff = job.resume, !.degraded = TRUE] \in Bridges
      BY <3>1, BridgeUpdate
    <3>3. SeedResume(bridge.epoch, bridge.pane, job.resume) \in ServerMessages
      BY <1>1, BridgeFields DEF SeedResume, ServerMessages
    <3>4. job' \in Jobs
      BY <1>5, <2>1, <1>1, JobUpdate DEF GiveUp, Goto
    <3>5. toClient' \in Seq(ServerMessages) /\ bridge' \in Bridges
      BY <1>5, <2>1, <3>2, <3>3 DEF GiveUp, Send
    <3> QED
      BY <1>5, <3>4, <3>5 DEF GiveUp, Disturb, TmuxTypeOK, ClientTypeOK, clientVars
  <2>2. CASE job.reason \notin Resumable
    <3>1. [job EXCEPT !.pc = "linearize"] \in Jobs
      BY <1>1, JobUpdate
    <3>2. [job EXCEPT !.pc = "linearize", !.snap = PaneContent] \in Jobs
      BY <3>1, JobUpdate, PaneContentType
    <3>3. job' \in Jobs /\ UNCHANGED <<bridge, toClient>>
      BY <1>5, <2>2, <3>2 DEF GiveUp
    <3> QED
      BY <1>5, <3>3 DEF GiveUp, Disturb, TmuxTypeOK, ClientTypeOK, clientVars
  <2> QED
    BY <2>1, <2>2
<1>6. CASE StartAcked
  <2>1. job' \in Jobs /\ acks' \in SUBSET Acks
    BY <1>1, <1>6, JobUpdate DEF StartAcked, Goto, Acknowledged
  <2> QED
    BY <1>6, <2>1 DEF StartAcked, TmuxTypeOK, ClientTypeOK, tmuxVars, clientVars
<1>7. CASE RetryCapture
  <2>1. job' \in Jobs
    BY <1>1, <1>7, JobUpdate DEF RetryCapture, Goto
  <2> QED
    BY <1>7, <2>1 DEF RetryCapture, TmuxTypeOK, ClientTypeOK, tmuxVars, netVars,
      clientVars
<1>8. CASE SeedAcked
  <2>1. job' \in Jobs /\ acks' \in SUBSET Acks
    BY <1>1, <1>8, JobUpdate DEF SeedAcked, Goto, Acknowledged
  <2> QED
    BY <1>8, <2>1 DEF SeedAcked, TmuxTypeOK, ClientTypeOK, tmuxVars, clientVars
<1> QED
  BY <1>2, <1>3, <1>4, <1>5, <1>6, <1>7, <1>8

LEMMA TaskReturnsType ==
    ASSUME TypeOK, TaskReturns
    PROVE  main' \in MainStates /\ watcher' \in WatcherStates
BY PlaceTypes DEF TaskReturns, WatcherReturns, TypeOK, ServerTypeOK

\* The steps of a flush, and the notice of the watcher.
LEMMA TypeFlush ==
    ASSUME TypeOK,
           \/ BeginFlush \/ SendHeld \/ EndFlush \/ FlushAcked
           \/ WatchNotice \/ StabilizerStops
    PROVE  TypeOK'
<1> USE DEF TypeOK, ServerTypeOK, NetTypeOK
<1>1. CASE BeginFlush
  <2>1. PostSeed \in SUBSET Nat
    BY BridgeFields DEF PostSeed
  <2>2. bridge' \in Bridges /\ job' \in Jobs
    BY <1>1, BridgeUpdate, JobUpdate DEF BeginFlush, Goto
  <2> QED
    BY <1>1, <2>1, <2>2 DEF BeginFlush, TmuxTypeOK, ClientTypeOK, tmuxVars, netVars,
      clientVars
<1>2. CASE SendHeld
  <2>1. Least(pending) \in Nat
    BY <1>2, LeastNat DEF SendHeld
  <2> DEFINE kind == IF sendLock = "flush" THEN "postseed" ELSE "selection-held"
             own == Least(pending) \notin bridge.foreign
  <2>2. kind \in Kinds /\ own \in BOOLEAN
    BY DEF Kinds
  <2>3. Output(bridge.epoch, bridge.pane, Least(pending), kind, own) \in ServerMessages
    <3> HIDE DEF kind, own
    <3> QED
      BY <2>1, <2>2, BridgeFields, ServerMessageTypes
  <2>4. Send(Output(bridge.epoch, bridge.pane, Least(pending), kind, own))
        /\ pending' \in SUBSET Nat
    BY <1>2 DEF SendHeld
  <2>5. toClient' \in Seq(ServerMessages)
    <3> HIDE DEF kind, own
    <3> QED
      BY <2>3, <2>4, SendType
  <2> QED
    BY <1>2, <2>4, <2>5 DEF SendHeld, TmuxTypeOK, ClientTypeOK, tmuxVars, clientVars
<1>3. CASE EndFlush
  <2>1. PostFlush(bridge.epoch) \in ServerMessages
    BY BridgeFields DEF PostFlush, ServerMessages
  <2>2. job' \in Jobs
    BY <1>3, JobUpdate DEF EndFlush, Goto
  <2>3. toClient' \in Seq(ServerMessages)
    BY <1>3, <2>1, SendType DEF EndFlush
  <2> QED
    BY <1>3, <2>2, <2>3 DEF EndFlush, TmuxTypeOK, ClientTypeOK, tmuxVars, clientVars
<1>4. CASE FlushAcked
  <2>1. SeedOpen(bridge.epoch, bridge.pane, bridge.cutoff) \in ServerMessages
    BY BridgeFields DEF SeedOpen, ServerMessages
  <2>2. bridge' \in Bridges
    BY <1>4, BridgeUpdate DEF FlushAcked
  <2>3. toClient' \in Seq(ServerMessages)
    BY <1>4, <2>1, SendType DEF FlushAcked
  <2>4. main' \in MainStates /\ watcher' \in WatcherStates
    BY <1>4, TaskReturnsType DEF FlushAcked
  <2>5. stabilizer' \in BOOLEAN
    BY <1>4, BridgeFields DEF FlushAcked, NeedsStabilizer
  <2>6. acks' \in SUBSET Acks
    BY <1>4 DEF FlushAcked, Acknowledged
  <2> QED
    BY <1>4, <2>2, <2>4, <2>5, <2>6, <2>3, PlaceTypes DEF FlushAcked, TmuxTypeOK,
      ClientTypeOK, tmuxVars, clientVars
<1>5. CASE WatchNotice
  <2>1. watcher' \in WatcherStates
    BY <1>5, BridgeFields DEF WatchNotice, WatcherStates, TmuxTypeOK
  <2> QED
    BY <1>5, <2>1 DEF WatchNotice, TmuxTypeOK, ClientTypeOK, tmuxVars, netVars,
      clientVars
<1>6. CASE StabilizerStops
  BY <1>6 DEF StabilizerStops, TmuxTypeOK, ClientTypeOK, tmuxVars, netVars, clientVars
<1> QED
  BY <1>1, <1>2, <1>3, <1>4, <1>5, <1>6

\* The locks, the acknowledgements and the request id of a selection.
LEMMA AnswerType ==
    ASSUME TypeOK, NEW id \in Nat, NEW ok \in BOOLEAN, Answer(id, ok)
    PROVE  main' \in MainStates /\ toClient' \in Seq(ServerMessages)
<1>1. SelectionResult(id, ok) \in ServerMessages
  BY SelectionMessageTypes
<1>2. toClient' \in Seq(ServerMessages)
  BY <1>1, SendType DEF Answer, TypeOK
<1>3. main' \in MainStates
  BY DEF Answer, TypeOK, ServerTypeOK, MainStates
<1> QED
  BY <1>2, <1>3

LEMMA TypeSelectionHold ==
    ASSUME TypeOK, HandleSwitch \/ HoldForSelection \/ RejectSelection
    PROVE  TypeOK'
<1> USE DEF TypeOK, ServerTypeOK, NetTypeOK
<1>1. CASE HandleSwitch
  <2>1. Head(requests).session \in Sessions /\ requests' \in Seq(ClientRequests)
    BY <1>1, NextRequestType, RequestFields DEF HandleSwitch
  <2>2. CASE Head(requests).session = bridge.session
    BY <1>1, <2>1, <2>2 DEF HandleSwitch, TmuxTypeOK, ClientTypeOK, tmuxVars,
      serverVars, clientVars
  <2>3. CASE Head(requests).session # bridge.session
    <3>1. bridge' \in Bridges
      BY <1>1, <2>1, <2>3, BridgeFields, NewBridgeType DEF HandleSwitch
    <3>2. lag' \in [Panes -> Nat]
      BY <1>1, <2>3 DEF HandleSwitch
    <3>3. toClient' \in Seq(ServerMessages)
      BY <1>1, <2>1, <2>3, SendType, ReadyType DEF HandleSwitch
    <3>4. main' \in MainStates /\ watcher' \in WatcherStates /\ job' \in Jobs
      BY <1>1, <2>3, PlaceTypes DEF HandleSwitch
    <3>5. UNCHANGED <<activePane, produced, spent, connected, acks, clientVars>>
          /\ sendLock' = "free" /\ pending' = {} /\ stabilizer' = FALSE
      BY <1>1, <2>3 DEF HandleSwitch
    <3> QED
      BY <2>1, <3>1, <3>2, <3>3, <3>4, <3>5 DEF TmuxTypeOK, ClientTypeOK, clientVars
  <2> QED
    BY <2>2, <2>3
<1>2. CASE HoldForSelection
  <2> DEFINE request == Head(requests)
  <2>1. request.id \in Nat \ {0} /\ requests' \in Seq(ClientRequests)
    BY <1>2, NextRequestType, RequestFields DEF HoldForSelection
  <2>2. /\ bridge' = [bridge EXCEPT !.phase = "hold", !.held = {}, !.hold = request.id]
        /\ job' = [NoJob EXCEPT !.task = "main", !.pc = "selectionAck",
                                !.candidate = bridge.offset]
        /\ main' = [at |-> "busy", id |-> request.id]
        /\ Send(SelectionCheck(request.id))
    BY <1>2 DEF HoldForSelection
  <2>3. bridge' \in Bridges
    <3>1. [bridge EXCEPT !.phase = "hold"] \in Bridges
      BY BridgeFields, BridgeUpdate
    <3>2. [bridge EXCEPT !.phase = "hold", !.held = {}] \in Bridges
      BY <3>1, BridgeUpdate
    <3> QED
      BY <2>1, <2>2, <3>2, BridgeUpdate
  <2>4. job' \in Jobs
    BY <2>2, BridgeFields DEF NoJob, Jobs, SeedReasons
  <2>5. main' \in MainStates
    BY <2>1, <2>2 DEF MainStates
  <2>6. toClient' \in Seq(ServerMessages)
    BY <2>1, <2>2, SelectionMessageTypes, SendType
  <2> QED
    BY <1>2, <2>1, <2>3, <2>4, <2>5, <2>6 DEF HoldForSelection, TmuxTypeOK,
      ClientTypeOK, tmuxVars, clientVars
<1>3. CASE RejectSelection
  <2>1. /\ Head(requests).id \in Nat \ {0} /\ requests' \in Seq(ClientRequests)
        /\ Answer(Head(requests).id, FALSE)
    BY <1>3, NextRequestType, RequestFields DEF RejectSelection
  <2>2. main' \in MainStates /\ toClient' \in Seq(ServerMessages)
    BY <2>1, AnswerType
  <2> QED
    BY <1>3, <2>1, <2>2 DEF RejectSelection, TmuxTypeOK, ClientTypeOK, tmuxVars,
      clientVars
<1> QED
  BY <1>1, <1>2, <1>3

LEMMA TypeSelectionEnd ==
    ASSUME TypeOK,
           \/ SelectionAcked \/ SelectionAckTimeout
           \/ BeginRelease \/ EndRelease \/ BeginSpeech \/ EndSpeech
    PROVE  TypeOK'
<1> USE DEF TypeOK, ServerTypeOK, NetTypeOK
<1>1. main.id \in Nat
  BY DEF MainStates
<1>2. CASE SelectionAcked
  <2>1. PICK ack \in acks, ok \in BOOLEAN :
          acks' = acks \ {ack} /\ Answer(main.id, ok)
    BY <1>2 DEF SelectionAcked
  <2>2. main' \in MainStates /\ toClient' \in Seq(ServerMessages)
    BY <1>1, <2>1, AnswerType
  <2> QED
    BY <1>2, <2>1, <2>2, PlaceTypes DEF SelectionAcked, TmuxTypeOK, ClientTypeOK,
      tmuxVars, clientVars
<1>3. CASE SelectionAckTimeout
  <2>1. main' \in MainStates /\ toClient' \in Seq(ServerMessages)
    BY <1>1, <1>3, AnswerType DEF SelectionAckTimeout
  <2> QED
    BY <1>3, <2>1, PlaceTypes DEF SelectionAckTimeout, Disturb, TmuxTypeOK,
      ClientTypeOK, clientVars
<1>4. CASE BeginRelease
  <2>1. bridge' \in Bridges
    <3>1. bridge' = bridge \/ bridge' = [bridge EXCEPT !.held = {}]
      BY <1>4 DEF BeginRelease
    <3>2. {} \in SUBSET Nat /\ bridge \in Bridges
      OBVIOUS
    <3>3. [bridge EXCEPT !.held = {}] \in Bridges
      BY <3>2, BridgeUpdate
    <3> QED
      BY <3>1, <3>2, <3>3
  <2>2. pending' \in SUBSET Nat
    BY <1>4, BridgeFields DEF BeginRelease
  <2> QED
    BY <1>4, <2>1, <2>2, PlaceTypes DEF BeginRelease, TmuxTypeOK, ClientTypeOK,
      tmuxVars, netVars, clientVars
<1>5. CASE EndRelease
  <2>1. [bridge EXCEPT !.hold = 0] \in Bridges
    BY BridgeFields, BridgeUpdate
  <2>2. bridge' \in Bridges
    BY <1>5, <2>1, BridgeUpdate DEF EndRelease
  <2> QED
    BY <1>5, <2>2, PlaceTypes DEF EndRelease, TmuxTypeOK, ClientTypeOK,
      tmuxVars, netVars, clientVars
<1>6. CASE BeginSpeech
  BY <1>6 DEF BeginSpeech, Disturb, TmuxTypeOK, ClientTypeOK, netVars, clientVars
<1>7. CASE EndSpeech
  BY <1>7 DEF EndSpeech, TmuxTypeOK, ClientTypeOK, tmuxVars, netVars, clientVars
<1> QED
  BY <1>2, <1>3, <1>4, <1>5, <1>6, <1>7

\* Losing the connection and opening one.
LEMMA CloseConnectionType ==
    ASSUME TypeOK, CloseConnection
    PROVE  /\ ServerTypeOK'
           /\ connected' \in BOOLEAN /\ requests' \in Seq(ClientRequests)
           /\ acks' \in SUBSET Acks
<1>1. bridge' \in Bridges
  <2>1. [bridge EXCEPT !.reading = NoPane] \in Bridges
    BY BridgeFields, BridgeUpdate
  <2> QED
    BY <2>1 DEF CloseConnection
<1>2. requests' \in Seq(ClientRequests)
  BY DEF CloseConnection
<1> QED
  BY <1>1, <1>2, PlaceTypes DEF CloseConnection, TypeOK, ServerTypeOK

\* One field of the browser's state gets another value.
LEMMA ClientUpdate ==
    ASSUME NEW c \in Clients
    PROVE  /\ \A n \in Nat : /\ [c EXCEPT !.epoch = n] \in Clients
                             /\ [c EXCEPT !.cutoff = n] \in Clients
                             /\ [c EXCEPT !.revision = n] \in Clients
                             /\ [c EXCEPT !.queued = n] \in Clients
                             /\ [c EXCEPT !.selections = n] \in Clients
           /\ \A b \in BOOLEAN : /\ [c EXCEPT !.authoritative = b] \in Clients
                                 /\ [c EXCEPT !.seedInFlight = b] \in Clients
                                 /\ [c EXCEPT !.reseedPending = b] \in Clients
                                 /\ [c EXCEPT !.ready = b] \in Clients
           /\ \A s \in Sessions : /\ [c EXCEPT !.selected = s] \in Clients
                                  /\ [c EXCEPT !.active = s] \in Clients
           /\ \A p \in Panes : [c EXCEPT !.pane = p] \in Clients
           /\ \A x \in [id: Nat, epoch: Nat, checkedAt: Nat] :
                [c EXCEPT !.selection = x] \in Clients
BY DEF Clients

LEMMA NoSelectionType == NoSelection \in [id: Nat, epoch: Nat, checkedAt: Nat]
BY DEF NoSelection

LEMMA ConnectType ==
    ASSUME TypeOK, Connect
    PROVE  TypeOK'
<1>1. client \in Clients /\ client.selected \in Sessions
  BY DEF TypeOK, ClientTypeOK, Clients
<1>2. bridge' \in Bridges
  BY <1>1, NewBridgeType DEF Connect
<1>3. client' \in Clients
  <2> DEFINE c1 == [client EXCEPT !.authoritative = FALSE]
             c2 == [c1 EXCEPT !.seedInFlight = FALSE]
             c3 == [c2 EXCEPT !.reseedPending = FALSE]
             c4 == [c3 EXCEPT !.queued = 0]
             c5 == [c4 EXCEPT !.selection = NoSelection]
  <2>1. client' = [c5 EXCEPT !.ready = FALSE]
    BY DEF Connect
  <2>2. c1 \in Clients
    BY <1>1, ClientUpdate
  <2>3. c2 \in Clients
    BY <2>2, ClientUpdate
  <2>4. c3 \in Clients
    BY <2>3, ClientUpdate
  <2>5. c4 \in Clients
    BY <2>4, ClientUpdate
  <2>6. c5 \in Clients
    BY <2>5, ClientUpdate, NoSelectionType
  <2> HIDE DEF c5
  <2> QED
    BY <2>1, <2>6, ClientUpdate
<1>4. toClient' \in Seq(ServerMessages) /\ requests' \in Seq(ClientRequests)
  BY <1>1, ReadyType DEF Connect
<1>5. ServerTypeOK'
  BY <1>2, PlaceTypes DEF Connect, TypeOK, ServerTypeOK
<1>6. TmuxTypeOK'
  BY DEF Connect, TypeOK, TmuxTypeOK
<1> QED
  BY <1>3, <1>4, <1>5, <1>6 DEF Connect, TypeOK, NetTypeOK, ClientTypeOK

LEMMA TypeConnection ==
    ASSUME TypeOK, StartAckTimeout \/ JobFails \/ Drop \/ Reconnect
    PROVE  TypeOK'
<1>1. CASE StartAckTimeout
  BY <1>1, CloseConnectionType DEF StartAckTimeout, Disturb, TypeOK, TmuxTypeOK,
    NetTypeOK, ClientTypeOK, clientVars
<1>2. CASE Drop
  BY <1>2, CloseConnectionType DEF Drop, Disturb, TypeOK, TmuxTypeOK,
    NetTypeOK, ClientTypeOK, clientVars
<1>3. CASE Reconnect
  BY <1>3, ConnectType DEF Reconnect
<1>4. CASE JobFails
  <2>1. TmuxTypeOK' /\ ClientTypeOK' /\ UNCHANGED toClient
    BY <1>4 DEF JobFails, Disturb, TypeOK, TmuxTypeOK, ClientTypeOK, clientVars
  <2>2. CASE CloseConnection
    BY <2>1, <2>2, CloseConnectionType DEF TypeOK, NetTypeOK
  <2>3. CASE /\ job' = NoJob
             /\ sendLock' = IF job.pc = "flushAck" THEN "free" ELSE sendLock
             /\ watcher' = IF job.task = "watch" THEN WatcherAt("down") ELSE watcher
             /\ UNCHANGED <<bridge, pending, main, stabilizer, connected,
                            requests, acks>>
    BY <2>1, <2>3, PlaceTypes DEF TypeOK, ServerTypeOK, NetTypeOK
  <2> QED
    BY <1>4, <2>2, <2>3 DEF JobFails
<1> QED
  BY <1>1, <1>2, <1>3, <1>4

-----------------------------------------------------------------------------
(* Types: the browser                                                      *)

LEMMA ClientFields ==
    ASSUME TypeOK
    PROVE  /\ client \in Clients
           /\ client.epoch \in Nat /\ client.cutoff \in Nat
           /\ client.revision \in Nat /\ client.queued \in Nat
           /\ client.selections \in Nat
           /\ client.selection \in [id: Nat, epoch: Nat, checkedAt: Nat]
           /\ client.authoritative \in BOOLEAN
BY DEF TypeOK, ClientTypeOK, Clients

LEMMA TakenType ==
    ASSUME TypeOK
    PROVE  Taken \in Clients /\ Taken.revision \in Nat
           /\ Taken.selection \in [id: Nat, epoch: Nat, checkedAt: Nat]
<1>1. (IF client.queued = 0 THEN 0 ELSE client.queued - 1) \in Nat
  BY ClientFields
<1>2. Taken \in Clients
  BY <1>1, ClientFields, ClientUpdate DEF Taken
<1> QED
  BY <1>2 DEF Clients

LEMMA ReceivedType ==
    ASSUME TypeOK, toClient # <<>>
    PROVE  /\ Head(toClient) \in ServerMessages
           /\ Tail(toClient) \in Seq(ServerMessages)
BY ReceiveType DEF TypeOK

LEMMA SendAckType ==
    ASSUME TypeOK, NEW of \in {"seed-start", "seed-end", "post-flush", "selection-check"},
           NEW id \in Nat, NEW ok \in BOOLEAN, SendAck(of, id, ok)
    PROVE  acks' \in SUBSET Acks
<1>1. Ack(of, id, ok) \in Acks
  BY DEF Ack, Acks
<1> QED
  BY <1>1 DEF SendAck, TypeOK, NetTypeOK

LEMMA FlushResizeType ==
    ASSUME TypeOK, FlushResize
    PROVE  spent' \in Nat /\ requests' \in Seq(ClientRequests)
<1>1. Request("resize") \in ClientRequests
  BY DEF Request, ClientRequests
<1>2. CASE Disturb("resize") /\ Ask(Request("resize"))
  BY <1>1, <1>2, AskType DEF Disturb, TypeOK, TmuxTypeOK, NetTypeOK
<1>3. CASE UNCHANGED <<spent, requests>>
  BY <1>3 DEF TypeOK, TmuxTypeOK, NetTypeOK
<1> QED
  BY <1>2, <1>3 DEF FlushResize

\* The steps that begin, fill and end a seed.
LEMMA TypeClientSeed ==
    ASSUME TypeOK,
           ClientSeedStart \/ ClientSeedResume \/ ClientSeedData \/ ClientSeedOpen
    PROVE  TypeOK'
<1> USE DEF TypeOK, NetTypeOK, ClientTypeOK
<1> DEFINE m == Head(toClient)
<1>1. CASE ClientSeedStart
  <2>1. m.epoch \in Nat /\ toClient' \in Seq(ServerMessages)
    BY <1>1, ReceivedType, MessageFields DEF ClientSeedStart, Receive
  <2>2. acks' \in SUBSET Acks
    BY <1>1, <2>1, SendAckType DEF ClientSeedStart
  <2>3. client' \in Clients
    <3> DEFINE c1 == [client EXCEPT !.seedInFlight = TRUE]
               c2 == [c1 EXCEPT !.authoritative = FALSE]
               c3 == [c2 EXCEPT !.reseedPending = FALSE]
    <3>1. c1 \in Clients
      BY ClientFields, ClientUpdate
    <3>2. c2 \in Clients
      BY <3>1, ClientUpdate
    <3>3. c3 \in Clients
      BY <3>2, ClientUpdate
    <3>4. client' = [c3 EXCEPT !.queued = 0]
      BY <1>1 DEF ClientSeedStart, SeedBegun
    <3> HIDE DEF c3
    <3> QED
      BY <3>3, <3>4, ClientUpdate
  <2> QED
    BY <1>1, <2>1, <2>2, <2>3 DEF ClientSeedStart, TmuxTypeOK, ServerTypeOK,
      tmuxVars, serverVars
<1>2. CASE ClientSeedResume
  <2>1. /\ m.epoch \in Nat /\ m.cutoff \in Nat
        /\ Tail(toClient) \in Seq(ServerMessages)
    BY <1>2, ReceivedType, MessageFields DEF ClientSeedResume
  <2>2. CASE MayResume(m)
    <3>1. [Taken EXCEPT !.epoch = m.epoch] \in Clients
      BY <2>1, TakenType, ClientUpdate
    <3>2. [Taken EXCEPT !.epoch = m.epoch, !.cutoff = m.cutoff] \in Clients
      BY <2>1, <3>1, ClientUpdate
    <3>3. client' = [Taken EXCEPT !.epoch = m.epoch, !.cutoff = m.cutoff]
          /\ toClient' = Tail(toClient)
          /\ UNCHANGED <<tmuxVars, serverVars, connected, requests, acks, screen>>
      BY <1>2, <2>2 DEF ClientSeedResume
    <3> QED
      BY <2>1, <3>2, <3>3 DEF TmuxTypeOK, ServerTypeOK, tmuxVars, serverVars
  <2>3. CASE ~MayResume(m)
    BY <1>2, <2>3, ConnectType DEF ClientSeedResume
  <2> QED
    BY <2>2, <2>3
<1>3. CASE ClientSeedData
  <2>1. /\ m.epoch \in Nat /\ m.cutoff \in Nat /\ m.pane \in Panes
        /\ m.content \in Nat /\ m.exact \in BOOLEAN
        /\ toClient' \in Seq(ServerMessages)
    BY <1>3, ReceivedType, MessageFields DEF ClientSeedData, Receive
  <2>2. acks' \in SUBSET Acks
    BY <1>3, <2>1, SendAckType DEF ClientSeedData
  <2>3. client' \in Clients
    <3> DEFINE c1 == [Taken EXCEPT !.epoch = m.epoch]
               c2 == [c1 EXCEPT !.pane = m.pane]
               c3 == [c2 EXCEPT !.cutoff = m.cutoff]
    <3>1. c1 \in Clients
      BY <2>1, TakenType, ClientUpdate
    <3>2. c2 \in Clients
      BY <2>1, <3>1, ClientUpdate
    <3>3. c3 \in Clients
      BY <2>1, <3>2, ClientUpdate
    <3>4. client' = [c3 EXCEPT !.revision = m.cutoff]
      BY <1>3 DEF ClientSeedData
    <3> HIDE DEF c3
    <3> QED
      BY <2>1, <3>3, <3>4, ClientUpdate
  <2>4. screen' \in Screens
    BY <1>3, <2>1 DEF ClientSeedData, Screens
  <2> QED
    BY <1>3, <2>1, <2>2, <2>3, <2>4 DEF ClientSeedData, TmuxTypeOK, ServerTypeOK,
      tmuxVars, serverVars
<1>4. CASE ClientSeedOpen
  <2>1. toClient' \in Seq(ServerMessages)
    BY <1>4, ReceivedType DEF ClientSeedOpen, Receive
  <2>2. [Taken EXCEPT !.seedInFlight = FALSE] \in Clients
        /\ [Taken EXCEPT !.authoritative = FALSE] \in Clients
    BY TakenType, ClientUpdate
  <2>3. [Taken EXCEPT !.seedInFlight = FALSE, !.authoritative = TRUE] \in Clients
    BY <2>2, ClientUpdate
  <2>4. client' \in Clients
    BY <1>4, <2>2, <2>3 DEF ClientSeedOpen
  <2>5. spent' \in Nat /\ requests' \in Seq(ClientRequests)
    BY <1>4, FlushResizeType DEF ClientSeedOpen, TmuxTypeOK
  <2> QED
    BY <1>4, <2>1, <2>4, <2>5 DEF ClientSeedOpen, TmuxTypeOK, ServerTypeOK,
      serverVars
<1> QED
  BY <1>1, <1>2, <1>3, <1>4

\* Output, and the other messages.
LEMMA TypeClientOutput ==
    ASSUME TypeOK,
           \/ ClientDropOutput \/ ClientOutput \/ ClientPostFlush \/ ClientReady
           \/ ClientSelectionCheck \/ ClientSelectionResult
    PROVE  TypeOK'
<1> USE DEF TypeOK, NetTypeOK, ClientTypeOK
<1> DEFINE m == Head(toClient)
<1>1. CASE ClientDropOutput
  BY <1>1, ReceivedType DEF ClientDropOutput, Receive, TmuxTypeOK, ServerTypeOK,
    tmuxVars, serverVars, clientVars
<1>2. CASE ClientOutput
  <2>1. /\ m.start \in Nat /\ m.own \in BOOLEAN
        /\ Tail(toClient) \in Seq(ServerMessages)
    BY <1>2, ReceivedType, MessageFields DEF ClientOutput
  <2>2. CASE ~InOrder(m)
    BY <1>2, <2>2, ConnectType DEF ClientOutput
  <2>3. CASE InOrder(m)
    <3>1. Taken.revision + 1 \in Nat
      BY TakenType
    <3>2. [Taken EXCEPT !.revision = Taken.revision + 1] \in Clients
      BY <3>1, TakenType, ClientUpdate
    <3>3. /\ toClient' = Tail(toClient)
          /\ client' = [Taken EXCEPT !.revision = Taken.revision + 1]
          /\ UNCHANGED <<tmuxVars, serverVars, connected, requests, acks>>
          /\ screen' = IF Counted(m) THEN screen
                       ELSE [screen EXCEPT
                               !.shown = m.start + 1,
                               !.torn = @ \/ ~m.own \/ screen.shown # m.start]
      BY <1>2, <2>3 DEF ClientOutput
    <3>4. screen' \in Screens
      <4> DEFINE torn == screen.torn \/ ~m.own \/ screen.shown # m.start
      <4>1. torn \in BOOLEAN /\ m.start + 1 \in Nat
        BY <2>1
      <4>2. [screen EXCEPT !.shown = m.start + 1, !.torn = torn] \in Screens
        <5> HIDE DEF torn, m
        <5> QED
          BY <4>1 DEF Screens
      <4> QED
        BY <3>3, <4>2
    <3> QED
      BY <2>1, <3>2, <3>3, <3>4 DEF TmuxTypeOK, ServerTypeOK, tmuxVars, serverVars
  <2> QED
    BY <2>2, <2>3
<1>3. CASE ClientPostFlush
  <2>1. m.epoch \in Nat /\ toClient' \in Seq(ServerMessages)
    BY <1>3, ReceivedType, MessageFields DEF ClientPostFlush, Receive
  <2>2. acks' \in SUBSET Acks
    BY <1>3, <2>1, SendAckType DEF ClientPostFlush
  <2> QED
    BY <1>3, <2>1, <2>2, TakenType DEF ClientPostFlush, TmuxTypeOK, ServerTypeOK,
      tmuxVars, serverVars
<1>4. CASE ClientReady
  <2>1. client' \in Clients
    <3> DEFINE session == m.session
               c1 == [Taken EXCEPT !.authoritative = FALSE]
               c2 == [c1 EXCEPT !.ready = TRUE]
               c3 == [c2 EXCEPT !.active = session]
    <3>1. session \in Sessions
      BY <1>4, ReceivedType, MessageFields DEF ClientReady, Receive
    <3>2. client' = [c3 EXCEPT !.selected = session]
      BY <1>4 DEF ClientReady
    <3> HIDE DEF session
    <3>3. c1 \in Clients
      BY TakenType, ClientUpdate
    <3>4. c2 \in Clients
      BY <3>3, ClientUpdate
    <3>5. c3 \in Clients
      BY <3>1, <3>4, ClientUpdate
    <3> HIDE DEF c3
    <3> QED
      BY <3>1, <3>2, <3>5, ClientUpdate
  <2>2. spent' \in Nat /\ requests' \in Seq(ClientRequests)
    BY <1>4, FlushResizeType DEF ClientReady, TmuxTypeOK
  <2> QED
    BY <1>4, <2>1, <2>2, ReceivedType DEF ClientReady, Receive, TmuxTypeOK,
      ServerTypeOK, serverVars
<1>5. CASE ClientSelectionCheck
  <2>1. m.id \in Nat /\ toClient' \in Seq(ServerMessages)
    BY <1>5, ReceivedType, MessageFields DEF ClientSelectionCheck, Receive
  <2>2. SelectionIsCurrent(m.id) \in BOOLEAN
    BY ClientFields DEF SelectionIsCurrent
  <2>3. acks' \in SUBSET Acks
    <3>1. SendAck("selection-check", m.id, SelectionIsCurrent(m.id))
      BY <1>5 DEF ClientSelectionCheck
    <3> QED
      BY <2>1, <2>2, <3>1, SendAckType
  <2>4. [Taken.selection EXCEPT !.checkedAt = client.revision]
          \in [id: Nat, epoch: Nat, checkedAt: Nat]
    BY TakenType, ClientFields
  <2>5. [Taken EXCEPT !.selection.checkedAt = client.revision] \in Clients
    <3>1. [Taken EXCEPT !.selection =
             [Taken.selection EXCEPT !.checkedAt = client.revision]] \in Clients
      BY <2>4, TakenType, ClientUpdate
    <3> QED
      BY <3>1
  <2>6. client' \in Clients
    BY <1>5, <2>5, TakenType DEF ClientSelectionCheck
  <2> QED
    BY <1>5, <2>1, <2>3, <2>6 DEF ClientSelectionCheck, TmuxTypeOK, ServerTypeOK,
      tmuxVars, serverVars
<1>6. CASE ClientSelectionResult
  <2>1. client' \in Clients
    BY <1>6, TakenType, ClientUpdate, NoSelectionType DEF ClientSelectionResult
  <2> QED
    BY <1>6, <2>1, ReceivedType DEF ClientSelectionResult, Receive, TmuxTypeOK,
      ServerTypeOK, tmuxVars, serverVars
<1> QED
  BY <1>1, <1>2, <1>3, <1>4, <1>5, <1>6

LEMMA RecoveryReseedType ==
    ASSUME TypeOK, NEW arrived \in Nat, RecoveryReseed(arrived)
    PROVE  client' \in Clients /\ requests' \in Seq(ClientRequests)
<1>1. Request("history-reseed") \in ClientRequests
  BY DEF Request, ClientRequests
<1>2. requests' \in Seq(ClientRequests)
  BY <1>1, AskType DEF RecoveryReseed, TypeOK
<1>3. client' \in Clients
  <2>1. [client EXCEPT !.authoritative = FALSE] \in Clients
    BY ClientFields, ClientUpdate
  <2>2. [client EXCEPT !.authoritative = FALSE, !.reseedPending = TRUE] \in Clients
    BY <2>1, ClientUpdate
  <2>3. [client EXCEPT !.authoritative = FALSE, !.reseedPending = TRUE,
                       !.queued = arrived] \in Clients
    BY <2>2, ClientUpdate
  <2> QED
    BY <2>3 DEF RecoveryReseed
<1> QED
  BY <1>2, <1>3

LEMMA RecoveryWatchdogType ==
    ASSUME TypeOK, RecoveryWatchdog, spent' \in Nat
    PROVE  TypeOK'
<1>1. PICK arrived \in 0..Len(toClient) : RecoveryReseed(arrived)
  BY DEF RecoveryWatchdog
<1>2. Len(toClient) \in Nat
  BY DEF TypeOK, NetTypeOK
<1>3. client' \in Clients /\ requests' \in Seq(ClientRequests)
  BY <1>1, <1>2, RecoveryReseedType
<1> QED
  BY <1>3 DEF RecoveryWatchdog, TypeOK, TmuxTypeOK, ServerTypeOK, NetTypeOK,
    ClientTypeOK, serverVars

LEMMA TypeClientUser ==
    ASSUME TypeOK,
           \/ WatchdogWhenStuck \/ SlowWatchdog \/ ClientBacklog \/ ClientRequest
           \/ ClientSelect \/ ClientSelectionTimeout \/ ClientSwitch
    PROVE  TypeOK'
<1> USE DEF TypeOK, TmuxTypeOK, ServerTypeOK, NetTypeOK, ClientTypeOK
<1>1. CASE WatchdogWhenStuck
  BY <1>1, RecoveryWatchdogType DEF WatchdogWhenStuck
<1>2. CASE SlowWatchdog
  BY <1>2, RecoveryWatchdogType DEF SlowWatchdog, Disturb
<1>3. CASE ClientBacklog
  <2>1. client' \in Clients /\ requests' \in Seq(ClientRequests)
    BY <1>3, RecoveryReseedType DEF ClientBacklog
  <2> QED
    BY <1>3, <2>1 DEF ClientBacklog, Disturb, serverVars
<1>4. CASE ClientRequest
  <2>1. PICK type \in {"resize", "history-reseed", "activity"} :
          Ask(Request(type)) /\ Disturb(type)
    BY <1>4 DEF ClientRequest
  <2>2. Request(type) \in ClientRequests
    BY DEF Request, ClientRequests
  <2>3. requests' \in Seq(ClientRequests)
    BY <2>1, <2>2, AskType
  <2> QED
    BY <1>4, <2>1, <2>3 DEF ClientRequest, Disturb, serverVars, clientVars
<1>5. CASE ClientSelect
  <2> DEFINE id == client.selections + 1
             selection == [id |-> id, epoch |-> client.epoch,
                           checkedAt |-> client.revision]
  <2>1. id \in Nat \ {0}
    BY ClientFields
  <2>2. PICK alternate \in BOOLEAN : Ask(SelectionRequest(id, alternate))
    BY <1>5 DEF ClientSelect
  <2>3. SelectionRequest(id, alternate) \in ClientRequests
    <3> HIDE DEF id
    <3> QED
      BY <2>1, ClientFields DEF SelectionRequest, ClientRequests
  <2>4. requests' \in Seq(ClientRequests)
    <3> HIDE DEF id
    <3> QED
      BY <2>2, <2>3, AskType
  <2>5. selection \in [id: Nat, epoch: Nat, checkedAt: Nat]
    BY <2>1, ClientFields
  <2>6. client' = [client EXCEPT !.selections = id, !.selection = selection]
    BY <1>5 DEF ClientSelect
  <2>7. client' \in Clients
    <3> HIDE DEF id, selection
    <3>1. [client EXCEPT !.selections = id] \in Clients
      BY <2>1, ClientFields, ClientUpdate
    <3> QED
      BY <2>5, <2>6, <3>1, ClientUpdate
  <2> QED
    BY <1>5, <2>4, <2>7 DEF ClientSelect, Disturb, serverVars
<1>6. CASE ClientSelectionTimeout
  <2>1. client' \in Clients
    BY <1>6, ClientFields, ClientUpdate, NoSelectionType DEF ClientSelectionTimeout
  <2> QED
    BY <1>6, <2>1 DEF ClientSelectionTimeout, Disturb, serverVars, netVars
<1>7. CASE ClientSwitch
  <2>1. PICK session \in Sessions :
          /\ Ask(SwitchRequest(session)) \/ UNCHANGED requests
          /\ client' = [client EXCEPT !.selected = session, !.authoritative = FALSE]
          /\ UNCHANGED <<activePane, lag, produced, serverVars, connected,
                         toClient, acks>>
          /\ spent' = spent + 1 /\ screen' = [screen EXCEPT !.painted = TRUE]
    BY <1>7 DEF ClientSwitch, Disturb
  <2>2. SwitchRequest(session) \in ClientRequests
    BY DEF SwitchRequest, ClientRequests
  <2>3. requests' \in Seq(ClientRequests)
    BY <2>1, <2>2, AskType
  <2>4. [client EXCEPT !.selected = session] \in Clients
    BY ClientFields, ClientUpdate
  <2>5. client' \in Clients
    BY <2>1, <2>4, ClientUpdate
  <2>6. screen' \in Screens
    BY <2>1 DEF Screens
  <2> QED
    BY <2>1, <2>3, <2>5, <2>6 DEF serverVars
<1> QED
  BY <1>1, <1>2, <1>3, <1>4, <1>5, <1>6, <1>7

LEMMA TypeStep == TypeOK /\ [Next]_vars => TypeOK'
<1> SUFFICES ASSUME TypeOK, [Next]_vars PROVE TypeOK'
  OBVIOUS
<1>1. CASE Reader
  BY <1>1, TypeReader
<1>2. CASE Server
  BY <1>2, TypeBeginReseed, TypeSeed, TypeFlush, TypeSelectionHold,
    TypeSelectionEnd DEF Server
<1>3. CASE Browser
  BY <1>3, TypeClientSeed, TypeClientOutput, TypeClientUser, TypeConnection
    DEF Browser
<1>4. CASE Environment
  BY <1>4, TypeTmux, TypeSeed, TypeConnection, TypeSelectionEnd, TypeClientUser
    DEF Environment
<1>5. CASE UNCHANGED vars
  BY <1>5, TypeStutter
<1> QED
  BY <1>1, <1>2, <1>3, <1>4, <1>5 DEF Next, Progress

\* Every variable keeps its type, however the messages, tasks and failures of
\* TerminalSeed interleave: in particular no counter of the browser falls below
\* zero, and every message and request on its way is well-formed.
THEOREM TypeCorrect == Spec => []TypeOK
BY InitType, TypeStep, PTL DEF Spec

-----------------------------------------------------------------------------
(* The hold buffer                                                         *)

holdVars == <<bridge, sendLock, job, main>>

LEMMA IntervalElement ==
    ASSUME NEW a \in Nat, NEW b \in Nat
    PROVE  \A n : n \in Interval(a, b) <=> n \in Nat /\ a <= n /\ n < b
BY DEF Interval

LEMMA IntervalGrows ==
    ASSUME NEW a \in Nat, NEW b \in Nat, a <= b
    PROVE  Interval(a, b + 1) = Interval(a, b) \cup {b} /\ Interval(b, b) = {}
<1>1. b + 1 \in Nat
  OBVIOUS
<1>2. \A n : n \in Interval(a, b + 1) <=> n \in Interval(a, b) \/ n = b
  BY <1>1, IntervalElement
<1>3. \A n : n \notin Interval(b, b)
  BY IntervalElement
<1> QED
  BY <1>2, <1>3

\* A suffix that is cut off at some offset is the interval from there on.
LEMMA SuffixFrom ==
    ASSUME TypeOK, HeldIsSuffix, NEW s \in bridge.held
    PROVE  {t \in bridge.held : t >= s} = Interval(s, bridge.offset)
<1>1. s \in Nat /\ bridge.offset \in Nat /\ bridge.held \in SUBSET Nat
  BY BridgeFields
<1>2. \A t \in bridge.held : t < bridge.offset
  BY DEF HeldIsSuffix
<1>3. s..(bridge.offset - 1) \subseteq bridge.held
  BY DEF HeldIsSuffix
<1>4. ASSUME NEW t \in Nat, s <= t, t < bridge.offset PROVE t \in bridge.held
  BY <1>1, <1>3, <1>4
<1> QED
  BY <1>1, <1>2, <1>4, IntervalElement

LEMMA HoldStutter ==
    ASSUME HoldInvariant, UNCHANGED holdVars
    PROVE  HoldInvariant'
BY DEF HoldInvariant, holdVars, JobsOwned, LiveEmpty, HeldIsSuffix, ResumeHeld,
       SeedHeld, SelectionHeld, HoldIsSelections, FlushLocked, ReleaseLocked

LEMMA HoldInit == Init => HoldInvariant
BY DEF Init, NewBridge, NoJob, MainAt, HoldInvariant, JobsOwned, LiveEmpty,
       HeldIsSuffix, ResumeHeld, SeedHeld, SelectionHeld, HoldIsSelections,
       FlushLocked, ReleaseLocked

-----------------------------------------------------------------------------
(* The reader                                                              *)

LEMMA RecordEffect ==
    ASSUME TypeOK, NEW own \in BOOLEAN, Record(own)
    PROVE  /\ bridge'.offset = bridge.offset + 1
           /\ bridge'.phase = bridge.phase /\ bridge'.cutoff = bridge.cutoff
           /\ bridge'.hold = bridge.hold
           /\ bridge.phase = "hold" => bridge'.held = bridge.held \cup {bridge.offset}
           /\ bridge.phase # "hold" => bridge'.held = bridge.held
BY BridgeFields DEF Record, HoldsOutput, Bridges

LEMMA RecordHolds ==
    ASSUME TypeOK, HoldInvariant, NEW own \in BOOLEAN, Record(own),
           sendLock = "free", UNCHANGED <<sendLock, job, main>>
    PROVE  HoldInvariant'
<1> USE DEF HoldInvariant
<1>1. /\ bridge.offset \in Nat /\ bridge.cutoff \in Nat
      /\ bridge.held \in SUBSET Nat /\ bridge.phase \in {"hold", "forward"}
      /\ job.resume \in Nat /\ job.candidate \in Nat
  BY BridgeFields DEF TypeOK, ServerTypeOK, Bridges, Jobs
<1>2. CASE bridge.phase = "forward"
  <2>1. bridge.held = {} /\ bridge'.held = {} /\ job.pc = "idle"
        /\ bridge'.hold = bridge.hold
    BY <1>2, RecordEffect DEF LiveEmpty
  <2> QED
    BY <2>1 DEF JobsOwned, LiveEmpty, HeldIsSuffix, ResumeHeld, SeedHeld,
      SelectionHeld, HoldIsSelections, FlushLocked, ReleaseLocked
<1>3. CASE bridge.phase = "hold"
  <2>1. /\ bridge'.offset = bridge.offset + 1 /\ bridge'.phase = "hold"
        /\ bridge'.held = bridge.held \cup {bridge.offset}
        /\ bridge'.hold = bridge.hold /\ bridge'.cutoff = bridge.cutoff
    BY <1>3, RecordEffect
  <2>2. JobsOwned' /\ LiveEmpty' /\ HoldIsSelections' /\ FlushLocked' /\ ReleaseLocked'
    BY <2>1 DEF JobsOwned, LiveEmpty, HoldIsSelections, FlushLocked, ReleaseLocked
  <2>3. HeldIsSuffix'
    BY <1>1, <2>1 DEF HeldIsSuffix
  <2>4. ResumeHeld'
    <3>1. CASE ~(job.pc \in {"startAck", "capture", "verify"}
                   /\ job.reason \in Resumable)
      BY <3>1 DEF ResumeHeld
    <3>2. CASE /\ job.pc \in {"startAck", "capture", "verify"}
               /\ job.reason \in Resumable
      <4>1. job.resume <= bridge.offset
            /\ bridge.held = Interval(job.resume, bridge.offset)
        BY <3>2 DEF ResumeHeld
      <4>2. bridge'.held = Interval(job.resume, bridge.offset + 1)
        BY <1>1, <2>1, <4>1, IntervalGrows
      <4>3. job.resume <= bridge.offset + 1
        BY <1>1, <4>1
      <4> QED
        BY <2>1, <4>2, <4>3 DEF ResumeHeld
    <3> QED
      BY <3>1, <3>2
  <2>5. SeedHeld'
    <3>1. CASE job.pc \in {"seedAck", "flush"}
      <4>1. bridge.cutoff <= bridge.offset
            /\ bridge.held = Interval(bridge.cutoff, bridge.offset)
        BY <3>1 DEF SeedHeld
      <4>2. Interval(bridge.cutoff, bridge.offset + 1)
              = Interval(bridge.cutoff, bridge.offset) \cup {bridge.offset}
        BY <1>1, <4>1, IntervalGrows
      <4>3. bridge.cutoff <= bridge.offset + 1
        BY <1>1, <4>1
      <4> QED
        BY <2>1, <4>1, <4>2, <4>3 DEF SeedHeld
    <3>2. CASE job.pc \notin {"seedAck", "flush"}
      BY <3>2 DEF SeedHeld
    <3> QED
      BY <3>1, <3>2
  <2>6. SelectionHeld'
    <3>1. CASE job.pc = "selectionAck"
      <4>1. /\ main.at = "busy" /\ job.task = "main"
            /\ main.id # 0 /\ bridge.hold = main.id
            /\ job.candidate <= bridge.offset
            /\ bridge.held = Interval(job.candidate, bridge.offset)
        BY <3>1 DEF SelectionHeld
      <4>2. bridge'.held = Interval(job.candidate, bridge.offset + 1)
        BY <1>1, <2>1, <4>1, IntervalGrows
      <4>3. job.candidate <= bridge.offset + 1
        BY <1>1, <4>1
      <4> QED
        BY <2>1, <4>1, <4>2, <4>3 DEF SelectionHeld
    <3>2. CASE job.pc # "selectionAck"
      BY <3>2 DEF SelectionHeld
    <3> QED
      BY <3>1, <3>2
  <2> QED
    BY <2>2, <2>3, <2>4, <2>5, <2>6
<1> QED
  BY <1>1, <1>2, <1>3

LEMMA HoldReader ==
    ASSUME TypeOK, HoldInvariant, Reader
    PROVE  HoldInvariant'
<1>1. ASSUME NEW p \in Panes, ReadOutput(p) PROVE HoldInvariant'
  <2>1. CASE Record(TRUE) /\ MayNumber
    BY <1>1, <2>1, RecordHolds DEF ReadOutput, MayNumber
  <2>2. CASE bridge' = [bridge EXCEPT !.reading = p]
    <3>1. /\ bridge'.held = bridge.held /\ bridge'.offset = bridge.offset
          /\ bridge'.phase = bridge.phase /\ bridge'.hold = bridge.hold
          /\ bridge'.cutoff = bridge.cutoff
      BY <2>2, BridgeFields DEF Bridges
    <3>2. UNCHANGED <<sendLock, job, main>>
      BY <1>1 DEF ReadOutput
    <3> QED
      BY <3>1, <3>2 DEF HoldInvariant, JobsOwned, LiveEmpty, HeldIsSuffix,
        ResumeHeld, SeedHeld, SelectionHeld, HoldIsSelections, FlushLocked,
        ReleaseLocked
  <2>3. CASE UNCHANGED bridge
    BY <1>1, <2>3, HoldStutter DEF ReadOutput, holdVars
  <2> QED
    BY <1>1, <2>1, <2>2, <2>3 DEF ReadOutput
<1>2. CASE ResumeReading
  BY <1>2, RecordHolds DEF ResumeReading, MayNumber
<1> QED
  BY <1>1, <1>2 DEF Reader

-----------------------------------------------------------------------------
(* Reseeds                                                                 *)

LEMMA BeginReseedEffect ==
    ASSUME TypeOK, NEW task, NEW reason, NEW next, BeginReseed(task, reason, next)
    PROVE  /\ job.task = "none" /\ sendLock = "free" /\ sendLock' = "free"
           /\ bridge'.hold = 0 /\ bridge'.phase = "hold"
           /\ bridge'.held = KeptBy(reason) /\ bridge'.offset = bridge.offset
           /\ job'.task = task /\ job'.pc = "startAck" /\ job'.reason = reason
           /\ job'.resume = IF KeptBy(reason) = {} THEN bridge.offset
                            ELSE Least(KeptBy(reason))
BY BridgeFields DEF BeginReseed, SeedLockFree, NoJob, Bridges

LEMMA BeginReseedHolds ==
    ASSUME TypeOK, HoldInvariant, NEW task \in {"main", "watch", "stabilize"},
           NEW reason, NEW next, BeginReseed(task, reason, next),
           UNCHANGED main \/ main' = MainAt("busy")
    PROVE  HoldInvariant'
<1> USE DEF HoldInvariant
<1> DEFINE kept == KeptBy(reason)
<1>1. /\ bridge.offset \in Nat /\ bridge.held \in SUBSET Nat
      /\ kept = {} \/ kept = bridge.held
  BY BridgeFields DEF KeptBy
<1>2. JobsOwned' /\ LiveEmpty' /\ SeedHeld' /\ SelectionHeld' /\ FlushLocked'
      /\ ReleaseLocked'
  BY BeginReseedEffect DEF JobsOwned, LiveEmpty, SeedHeld, SelectionHeld,
    FlushLocked, ReleaseLocked
<1>3. HoldIsSelections'
  BY BeginReseedEffect DEF HoldIsSelections, MainAt
<1>4. CASE kept = {}
  <2>1. bridge'.held = {} /\ bridge'.offset = bridge.offset
        /\ job'.resume = bridge.offset
    BY <1>4, BeginReseedEffect
  <2>2. HeldIsSuffix'
    BY <2>1 DEF HeldIsSuffix
  <2>3. ResumeHeld'
    BY <1>1, <2>1, IntervalGrows DEF ResumeHeld
  <2> QED
    BY <1>2, <1>3, <2>2, <2>3
<1>5. CASE kept = bridge.held /\ kept # {}
  <2>1. bridge'.held = bridge.held /\ bridge'.offset = bridge.offset
        /\ job'.resume = Least(bridge.held)
    BY <1>5, BeginReseedEffect
  <2>2. HeldIsSuffix'
    BY <2>1 DEF HeldIsSuffix
  <2>3. /\ Least(bridge.held) \in bridge.held
        /\ \A t \in bridge.held : Least(bridge.held) <= t
    BY <1>1, <1>5, LeastNat
  <2>4. bridge.held = Interval(Least(bridge.held), bridge.offset)
    <3>1. {t \in bridge.held : t >= Least(bridge.held)} = bridge.held
      BY <1>1, <2>3
    <3> QED
      BY <2>3, <3>1, SuffixFrom
  <2>5. Least(bridge.held) <= bridge.offset
    BY <1>1, <2>3 DEF HeldIsSuffix
  <2>6. ResumeHeld'
    BY <2>1, <2>4, <2>5 DEF ResumeHeld
  <2> QED
    BY <1>2, <1>3, <2>2, <2>6
<1> QED
  BY <1>1, <1>4, <1>5

LEMMA HoldBeginReseed ==
    ASSUME TypeOK, HoldInvariant,
           \/ MainReseed \/ HandleReseedRequest \/ HandleActivity
           \/ WatchReseed \/ Stabilize
    PROVE  HoldInvariant'
<1>1. CASE MainReseed
  BY <1>1, BeginReseedHolds DEF MainReseed
<1>2. CASE HandleReseedRequest
  BY <1>2, BeginReseedHolds DEF HandleReseedRequest
<1>3. CASE HandleActivity
  <2>1. CASE BeginReseed("main", "activity", NoPane) /\ main' = MainAt("busy")
    BY <2>1, BeginReseedHolds
  <2>2. CASE UNCHANGED serverVars
    BY <2>2, HoldStutter DEF serverVars, holdVars
  <2> QED
    BY <1>3, <2>1, <2>2 DEF HandleActivity
<1>4. CASE WatchReseed
  BY <1>4, BeginReseedHolds DEF WatchReseed
<1>5. CASE Stabilize
  BY <1>5, BeginReseedHolds DEF Stabilize
<1> QED
  BY <1>1, <1>2, <1>3, <1>4, <1>5

LEMMA InstallHolds ==
    ASSUME TypeOK, HoldInvariant, NEW exact, Install(bridge.offset, exact),
           job.pc \in {"verify", "linearize"}, UNCHANGED <<sendLock, main>>
    PROVE  HoldInvariant'
<1> USE DEF HoldInvariant
<1>1. /\ bridge.offset \in Nat /\ bridge.held \in SUBSET Nat
      /\ bridge.phase \in {"hold", "forward"} /\ job \in Jobs
  BY BridgeFields DEF TypeOK, ServerTypeOK, Bridges
<1>2. /\ bridge'.cutoff = bridge.offset /\ bridge'.offset = bridge.offset
      /\ bridge'.held = {s \in bridge.held : s >= bridge.offset}
      /\ bridge'.phase = bridge.phase /\ bridge'.hold = bridge.hold
  BY BridgeFields DEF Install, Bridges
<1>3. job'.pc = "seedAck" /\ job'.task = job.task
  BY <1>1 DEF Install, Goto, Jobs
<1>4. bridge'.held = {}
  BY <1>1, <1>2 DEF HeldIsSuffix
<1>5. SeedHeld'
  BY <1>1, <1>2, <1>4, IntervalGrows DEF SeedHeld
<1>6. bridge.phase = "hold" /\ sendLock # "release"
  BY <1>1 DEF LiveEmpty, ReleaseLocked
<1> QED
  BY <1>2, <1>3, <1>4, <1>5, <1>6 DEF JobsOwned, LiveEmpty, HeldIsSuffix,
    ResumeHeld, SelectionHeld, HoldIsSelections, FlushLocked, ReleaseLocked

LEMMA GotoEffect ==
    ASSUME TypeOK, NEW pc, Goto(pc)
    PROVE  /\ job'.pc = pc /\ job'.task = job.task /\ job'.reason = job.reason
           /\ job'.resume = job.resume
BY DEF Goto, TypeOK, ServerTypeOK, Jobs

\* The steps from the first acknowledgement to the flush.
LEMMA HoldSeed ==
    ASSUME TypeOK, HoldInvariant,
           \/ StartAcked \/ TakeSnapshot \/ AcceptSnapshot \/ RetryCapture
           \/ GiveUp \/ InstallDegraded \/ SeedAcked
    PROVE  HoldInvariant'
<1> USE DEF HoldInvariant
<1>1. CASE StartAcked \/ RetryCapture
  <2>1. /\ job'.pc = "capture" /\ job.pc \in {"startAck", "verify"}
        /\ job'.task = job.task /\ job'.reason = job.reason
        /\ job'.resume = job.resume /\ UNCHANGED <<bridge, sendLock, main>>
    BY <1>1, GotoEffect DEF StartAcked, RetryCapture, At
  <2> QED
    BY <2>1 DEF JobsOwned, LiveEmpty, HeldIsSuffix, ResumeHeld, SeedHeld,
      SelectionHeld, HoldIsSelections, FlushLocked, ReleaseLocked
<1>2. CASE TakeSnapshot
  <2>1. /\ job'.pc = "verify" /\ job.pc = "capture"
        /\ job'.task = job.task /\ job'.reason = job.reason
        /\ job'.resume = job.resume /\ UNCHANGED <<bridge, sendLock, main>>
    BY <1>2 DEF TakeSnapshot, At, TypeOK, ServerTypeOK, Jobs
  <2> QED
    BY <2>1 DEF JobsOwned, LiveEmpty, HeldIsSuffix, ResumeHeld, SeedHeld,
      SelectionHeld, HoldIsSelections, FlushLocked, ReleaseLocked
<1>3. CASE AcceptSnapshot
  <2>1. Install(bridge.offset, TRUE) /\ job.pc = "verify"
        /\ UNCHANGED <<sendLock, main>>
    BY <1>3 DEF AcceptSnapshot, CutoffHeld, At
  <2> QED
    BY <2>1, InstallHolds
<1>4. CASE InstallDegraded
  BY <1>4, InstallHolds DEF InstallDegraded, At
<1>5. CASE GiveUp
  <2>1. CASE job.reason \in Resumable
    <3>1. /\ job'.pc = "flush" /\ job.pc \in {"capture", "verify"}
          /\ job'.task = job.task /\ UNCHANGED <<sendLock, main>>
          /\ bridge'.cutoff = job.resume /\ bridge'.held = bridge.held
          /\ bridge'.offset = bridge.offset /\ bridge'.phase = bridge.phase
          /\ bridge'.hold = bridge.hold
      <4>1. /\ Goto("flush") /\ job.pc \in {"capture", "verify"}
            /\ bridge' = [bridge EXCEPT !.cutoff = job.resume, !.degraded = TRUE]
            /\ UNCHANGED <<sendLock, main>>
        BY <1>5, <2>1 DEF GiveUp
      <4>2. job'.pc = "flush" /\ job'.task = job.task
        BY <4>1, GotoEffect
      <4> QED
        BY <4>1, <4>2, BridgeFields DEF Bridges
    <3>2. /\ job.resume <= bridge.offset /\ job.resume \in Nat
          /\ bridge.offset \in Nat
          /\ bridge.held = Interval(job.resume, bridge.offset)
      BY <2>1, <3>1, BridgeFields DEF ResumeHeld, TypeOK, ServerTypeOK, Jobs
    <3>3. SeedHeld'
      BY <3>1, <3>2 DEF SeedHeld
    <3> QED
      BY <3>1, <3>3 DEF JobsOwned, LiveEmpty, HeldIsSuffix, ResumeHeld,
        SelectionHeld, HoldIsSelections, FlushLocked, ReleaseLocked
  <2>2. CASE job.reason \notin Resumable
    <3>1. /\ job'.pc = "linearize" /\ job.pc \in {"capture", "verify"}
          /\ job'.task = job.task /\ UNCHANGED <<bridge, sendLock, main>>
      BY <1>5, <2>2 DEF GiveUp, TypeOK, ServerTypeOK, Jobs
    <3> QED
      BY <3>1 DEF JobsOwned, LiveEmpty, HeldIsSuffix, ResumeHeld, SeedHeld,
        SelectionHeld, HoldIsSelections, FlushLocked, ReleaseLocked
  <2> QED
    BY <2>1, <2>2
<1>6. CASE SeedAcked
  <2>1. /\ job'.pc = "flush" /\ job.pc = "seedAck"
        /\ job'.task = job.task /\ UNCHANGED <<bridge, sendLock, main>>
    BY <1>6, GotoEffect DEF SeedAcked, At
  <2> QED
    BY <2>1 DEF JobsOwned, LiveEmpty, HeldIsSuffix, ResumeHeld, SeedHeld,
      SelectionHeld, HoldIsSelections, FlushLocked, ReleaseLocked
<1> QED
  BY <1>1, <1>2, <1>3, <1>4, <1>5, <1>6

\* The flush of a seed, under send_lock.
LEMMA HoldFlush ==
    ASSUME TypeOK, HoldInvariant, BeginFlush \/ EndFlush \/ FlushAcked
    PROVE  HoldInvariant'
<1> USE DEF HoldInvariant
<1>1. CASE BeginFlush
  <2>1. /\ job'.pc = "flushing" /\ job.pc = "flush" /\ job'.task = job.task
        /\ sendLock' = "flush" /\ UNCHANGED main
        /\ bridge'.held = {} /\ bridge'.phase = bridge.phase
        /\ bridge'.hold = bridge.hold
    BY <1>1, GotoEffect, BridgeFields DEF BeginFlush, At, Bridges
  <2> QED
    BY <2>1 DEF JobsOwned, LiveEmpty, HeldIsSuffix, ResumeHeld, SeedHeld,
      SelectionHeld, HoldIsSelections, FlushLocked, ReleaseLocked
<1>2. CASE EndFlush
  <2>1. /\ job'.pc = "flushAck" /\ job.pc = "flushing" /\ job'.task = job.task
        /\ UNCHANGED <<bridge, sendLock, main>>
    BY <1>2, GotoEffect DEF EndFlush, At
  <2> QED
    BY <2>1 DEF JobsOwned, LiveEmpty, HeldIsSuffix, ResumeHeld, SeedHeld,
      SelectionHeld, HoldIsSelections, FlushLocked, ReleaseLocked
<1>3. CASE FlushAcked
  <2>1. /\ job.pc = "flushAck" /\ job' = NoJob /\ sendLock' = "free"
        /\ bridge'.phase = "forward" /\ bridge'.held = bridge.held
        /\ main' = MainAt("idle") \/ main' = main
    BY <1>3, BridgeFields DEF FlushAcked, At, TaskReturns, Bridges
  <2>2. bridge'.held = {}
    BY <2>1 DEF FlushLocked
  <2> QED
    BY <2>1, <2>2 DEF NoJob, MainAt, JobsOwned, LiveEmpty, HeldIsSuffix,
      ResumeHeld, SeedHeld, SelectionHeld, HoldIsSelections, FlushLocked,
      ReleaseLocked
<1> QED
  BY <1>1, <1>2, <1>3

-----------------------------------------------------------------------------
(* Selections                                                              *)

\* The hold of a selection begins, its check ends and its result is sent.
LEMMA HoldSelection ==
    ASSUME TypeOK, HoldInvariant,
           \/ HoldForSelection \/ RejectSelection
           \/ SelectionAcked \/ SelectionAckTimeout
    PROVE  HoldInvariant'
<1> USE DEF HoldInvariant
<1>1. CASE HoldForSelection
  <2> DEFINE id == Head(requests).id
  <2>1. id \in Nat \ {0} /\ bridge.offset \in Nat
    BY <1>1, NextRequestType, RequestFields, BridgeFields DEF HoldForSelection
  <2>2. /\ bridge'.phase = "hold" /\ bridge'.held = {} /\ bridge'.hold = id
        /\ bridge'.offset = bridge.offset
        /\ job'.task = "main" /\ job'.pc = "selectionAck"
        /\ job'.candidate = bridge.offset
        /\ main'.at = "busy" /\ main'.id = id
        /\ sendLock = "free" /\ sendLock' = "free"
    BY <1>1, BridgeFields DEF HoldForSelection, SelectionLocksFree, NoJob, Bridges
  <2>3. SelectionHeld'
    BY <2>1, <2>2, IntervalGrows DEF SelectionHeld
  <2> QED
    BY <2>2, <2>3 DEF JobsOwned, LiveEmpty, HeldIsSuffix, ResumeHeld, SeedHeld,
      HoldIsSelections, FlushLocked, ReleaseLocked
<1>2. CASE RejectSelection
  <2>1. Head(requests).id # 0
    BY <1>2, NextRequestType, RequestFields DEF RejectSelection
  <2>2. /\ main'.at = "release" /\ main'.id = Head(requests).id
        /\ main.at = "idle" /\ UNCHANGED <<bridge, sendLock, job>>
    BY <1>2 DEF RejectSelection, Answer, NextRequest, TypeOK, ServerTypeOK,
      MainStates
  <2>3. sendLock # "release" /\ job.pc # "selectionAck"
    BY <2>2 DEF ReleaseLocked, SelectionHeld
  <2> QED
    BY <2>1, <2>2, <2>3 DEF JobsOwned, LiveEmpty, HeldIsSuffix, ResumeHeld,
      SeedHeld, SelectionHeld, HoldIsSelections, FlushLocked, ReleaseLocked
<1>3. CASE SelectionAcked \/ SelectionAckTimeout
  <2>1. /\ job.pc = "selectionAck" /\ job' = NoJob
        /\ main'.at = "release" /\ main'.id = main.id
        /\ UNCHANGED <<bridge, sendLock>>
    BY <1>3 DEF SelectionAcked, SelectionAckTimeout, Answer, At, TypeOK,
      ServerTypeOK, MainStates
  <2>2. main.id # 0 /\ sendLock # "release"
    BY <2>1 DEF SelectionHeld, ReleaseLocked
  <2> QED
    BY <2>1, <2>2 DEF NoJob, JobsOwned, LiveEmpty, HeldIsSuffix, ResumeHeld,
      SeedHeld, SelectionHeld, HoldIsSelections, FlushLocked, ReleaseLocked
<1> QED
  BY <1>1, <1>2, <1>3

\* The hold is released, and a speech result takes send_lock.
LEMMA HoldRelease ==
    ASSUME TypeOK, HoldInvariant, BeginRelease \/ EndRelease \/ BeginSpeech \/ EndSpeech
    PROVE  HoldInvariant'
<1> USE DEF HoldInvariant
<1>1. CASE BeginRelease
  <2>1. main.at = "release" /\ main.id # 0 /\ UNCHANGED job
    BY <1>1 DEF BeginRelease, MayRelease, HoldIsSelections
  <2>2. CASE bridge.hold # main.id
    <3>1. main' = MainAt("idle") /\ sendLock = "free" /\ UNCHANGED <<bridge, sendLock>>
      BY <1>1, <2>2 DEF BeginRelease
    <3> QED
      BY <2>1, <3>1 DEF MainAt, JobsOwned, LiveEmpty, HeldIsSuffix, ResumeHeld,
        SeedHeld, SelectionHeld, HoldIsSelections, FlushLocked, ReleaseLocked
  <2>3. CASE bridge.hold = main.id
    <3>1. /\ sendLock' = "release" /\ UNCHANGED main
          /\ bridge'.held = {} /\ bridge'.phase = bridge.phase
          /\ bridge'.hold = bridge.hold
      BY <1>1, <2>3, BridgeFields DEF BeginRelease, Bridges
    <3>2. job.pc = "idle"
      BY <2>1, <2>3 DEF HoldIsSelections, SelectionHeld
    <3> QED
      BY <2>1, <3>1, <3>2 DEF JobsOwned, LiveEmpty, HeldIsSuffix, ResumeHeld,
        SeedHeld, SelectionHeld, HoldIsSelections, FlushLocked, ReleaseLocked
  <2> QED
    BY <2>2, <2>3
<1>2. CASE EndRelease
  <2>1. /\ sendLock = "release" /\ sendLock' = "free" /\ main' = MainAt("idle")
        /\ bridge'.held = bridge.held /\ UNCHANGED job
    BY <1>2, BridgeFields DEF EndRelease, Bridges
  <2>2. bridge'.held = {} /\ job.pc = "idle"
    BY <2>1 DEF ReleaseLocked
  <2> QED
    BY <2>1, <2>2 DEF MainAt, JobsOwned, LiveEmpty, HeldIsSuffix, ResumeHeld,
      SeedHeld, SelectionHeld, HoldIsSelections, FlushLocked, ReleaseLocked
<1>3. CASE BeginSpeech \/ EndSpeech
  <2>1. /\ sendLock \in {"free", "speech"} /\ sendLock' \in {"free", "speech"}
        /\ UNCHANGED <<bridge, job, main>>
    BY <1>3 DEF BeginSpeech, EndSpeech
  <2> QED
    BY <2>1 DEF JobsOwned, LiveEmpty, HeldIsSuffix, ResumeHeld, SeedHeld,
      SelectionHeld, HoldIsSelections, FlushLocked, ReleaseLocked
<1> QED
  BY <1>1, <1>2, <1>3

-----------------------------------------------------------------------------
(* Connections                                                             *)

LEMMA NewBridgeHolds ==
    ASSUME NEW session, NEW epoch, bridge' = NewBridge(session, epoch),
           job' = NoJob, sendLock' = "free", main'.at # "release"
    PROVE  HoldInvariant'
BY DEF NewBridge, NoJob, HoldInvariant, JobsOwned, LiveEmpty, HeldIsSuffix,
       ResumeHeld, SeedHeld, SelectionHeld, HoldIsSelections, FlushLocked,
       ReleaseLocked

LEMMA ConnectHolds ==
    ASSUME Connect
    PROVE  HoldInvariant'
BY NewBridgeHolds DEF Connect, MainAt

LEMMA CloseConnectionHolds ==
    ASSUME TypeOK, HoldInvariant, CloseConnection
    PROVE  HoldInvariant'
<1>1. /\ bridge'.phase = bridge.phase /\ bridge'.held = bridge.held
      /\ bridge'.offset = bridge.offset
      /\ job' = NoJob /\ sendLock' = "free" /\ main'.at = "closed"
  BY BridgeFields DEF CloseConnection, MainAt, Bridges
<1> QED
  BY <1>1 DEF NoJob, HoldInvariant, JobsOwned, LiveEmpty, HeldIsSuffix,
    ResumeHeld, SeedHeld, SelectionHeld, HoldIsSelections, FlushLocked,
    ReleaseLocked

LEMMA HoldConnection ==
    ASSUME TypeOK, HoldInvariant,
           \/ HandleSwitch \/ StartAckTimeout \/ JobFails \/ Drop \/ Reconnect
    PROVE  HoldInvariant'
<1>1. CASE HandleSwitch
  <2>1. CASE UNCHANGED serverVars
    BY <2>1, HoldStutter DEF serverVars, holdVars
  <2>2. CASE ~UNCHANGED serverVars
    <3>1. /\ bridge' = NewBridge(Head(requests).session, bridge.epoch)
          /\ job' = NoJob /\ sendLock' = "free" /\ main'.at = "switch"
      BY <1>1, <2>2 DEF HandleSwitch, MainAt
    <3> QED
      BY <3>1, NewBridgeHolds
  <2> QED
    BY <2>1, <2>2
<1>2. CASE StartAckTimeout \/ Drop
  BY <1>2, CloseConnectionHolds DEF StartAckTimeout, Drop
<1>3. CASE Reconnect
  BY <1>3, ConnectHolds DEF Reconnect
<1>4. CASE JobFails
  <2>1. CASE CloseConnection
    BY <2>1, CloseConnectionHolds
  <2>2. CASE ~CloseConnection
    <3>1. /\ job.pc \in {"capture", "linearize", "seedAck", "flushAck"}
          /\ job' = NoJob /\ UNCHANGED <<bridge, main>>
          /\ sendLock' = IF job.pc = "flushAck" THEN "free" ELSE sendLock
      BY <1>4, <2>2 DEF JobFails
    <3> QED
      BY <3>1 DEF NoJob, HoldInvariant, JobsOwned, LiveEmpty, HeldIsSuffix,
        ResumeHeld, SeedHeld, SelectionHeld, HoldIsSelections, FlushLocked,
        ReleaseLocked
  <2> QED
    BY <2>1, <2>2
<1> QED
  BY <1>1, <1>2, <1>3, <1>4

\* The browser opens a new connection when a message does not fit its state;
\* nothing else it does, or tmux, reaches the bridge.
LEMMA HoldElsewhere ==
    ASSUME TypeOK, HoldInvariant,
           \/ SendHeld \/ WatchNotice \/ StabilizerStops
           \/ ClientSeedStart \/ ClientSeedResume \/ ClientSeedData
           \/ ClientDropOutput \/ ClientOutput \/ ClientPostFlush \/ ClientSeedOpen
           \/ ClientSelectionCheck \/ ClientSelectionResult \/ ClientReady
           \/ WatchdogWhenStuck \/ SlowWatchdog \/ ClientBacklog \/ ClientRequest
           \/ ClientSelect \/ ClientSelectionTimeout \/ ClientSwitch
           \/ \E p \in Panes : PaneOutput(p) \/ SelectPane(p)
    PROVE  HoldInvariant'
<1>1. CASE ClientSeedResume \/ ClientOutput
  <2>1. Connect \/ UNCHANGED serverVars
    BY <1>1 DEF ClientSeedResume, ClientOutput
  <2> QED
    BY <2>1, ConnectHolds, HoldStutter DEF serverVars, holdVars
<1>2. CASE SendHeld \/ WatchNotice \/ StabilizerStops
  BY <1>2, HoldStutter DEF SendHeld, WatchNotice, StabilizerStops, holdVars
<1>3. CASE \/ ClientSeedStart \/ ClientSeedData
           \/ ClientDropOutput \/ ClientPostFlush \/ ClientSeedOpen
           \/ ClientSelectionCheck \/ ClientSelectionResult \/ ClientReady
  <2>1. UNCHANGED serverVars
    BY <1>3 DEF ClientSeedStart, ClientSeedData, ClientDropOutput,
      ClientPostFlush, ClientSeedOpen, ClientSelectionCheck,
      ClientSelectionResult, ClientReady
  <2> QED
    BY <2>1, HoldStutter DEF serverVars, holdVars
<1>4. CASE \/ WatchdogWhenStuck \/ SlowWatchdog \/ ClientBacklog \/ ClientRequest
           \/ ClientSelect \/ ClientSelectionTimeout \/ ClientSwitch
           \/ \E p \in Panes : PaneOutput(p) \/ SelectPane(p)
  <2>1. UNCHANGED serverVars
    BY <1>4 DEF WatchdogWhenStuck, SlowWatchdog, RecoveryWatchdog, ClientBacklog,
      ClientRequest, ClientSelect, ClientSelectionTimeout, ClientSwitch,
      PaneOutput, SelectPane
  <2> QED
    BY <2>1, HoldStutter DEF serverVars, holdVars
<1> QED
  BY <1>1, <1>2, <1>3, <1>4

-----------------------------------------------------------------------------
(* Theorems                                                                *)

LEMMA HoldStep == TypeOK /\ HoldInvariant /\ [Next]_vars => HoldInvariant'
<1> SUFFICES ASSUME TypeOK, HoldInvariant, [Next]_vars PROVE HoldInvariant'
  OBVIOUS
<1>1. CASE Reader
  BY <1>1, HoldReader
<1>2. CASE Server
  BY <1>2, HoldBeginReseed, HoldSeed, HoldFlush, HoldSelection, HoldRelease,
    HoldConnection, HoldElsewhere DEF Server
<1>3. CASE Browser
  BY <1>3, HoldConnection, HoldElsewhere DEF Browser
<1>4. CASE Environment
  BY <1>4, HoldSeed, HoldSelection, HoldRelease, HoldConnection, HoldElsewhere
    DEF Environment
<1>5. CASE UNCHANGED vars
  BY <1>5, HoldStutter DEF vars, serverVars, holdVars
<1> QED
  BY <1>1, <1>2, <1>3, <1>4, <1>5 DEF Next, Progress

\* The inductive invariant of the hold buffer holds in every reachable state.
THEOREM HoldsCorrect == Spec => [](TypeOK /\ HoldInvariant)
<1>1. Init => TypeOK /\ HoldInvariant
  BY InitType, HoldInit
<1>2. (TypeOK /\ HoldInvariant) /\ [Next]_vars => (TypeOK /\ HoldInvariant)'
  BY TypeStep, HoldStep
<1> QED
  BY <1>1, <1>2, PTL DEF Spec

\* From the installation of a seed to its flush the bridge holds every byte
\* numbered since the cutoff, and during a selection every byte numbered since
\* the hold: no interleaving of the three tasks that reseed, of the reader, of
\* selections, failures and reconnects loses one before it is replayed.
THEOREM ReplayIsComplete == Spec => []ReplayComplete
<1>1. TypeOK /\ HoldInvariant => ReplayComplete
  <2> SUFFICES ASSUME TypeOK, HoldInvariant PROVE ReplayComplete
    OBVIOUS
  <2>1. ASSUME bridge.held = Interval(bridge.cutoff, bridge.offset)
        PROVE  \A s \in bridge.held : s >= bridge.cutoff
    BY <2>1, BridgeFields, IntervalElement
  <2> QED
    BY <2>1 DEF HoldInvariant, SeedHeld, SelectionHeld, ReplayComplete
<1> QED
  BY <1>1, HoldsCorrect, PTL

\* No byte stays in the hold buffer while later ones are forwarded live.
THEOREM NothingIsOvertaken == Spec => []NothingOvertaken
<1>1. HoldInvariant => NothingOvertaken
  BY DEF HoldInvariant, LiveEmpty, NothingOvertaken
<1> QED
  BY <1>1, HoldsCorrect, PTL
=============================================================================
