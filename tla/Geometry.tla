------------------------------ MODULE Geometry ------------------------------
(***************************************************************************)
(* The size of the terminal, between the browser's layout, the resize      *)
(* messages and seeds of one connection, and the tmux window it shares     *)
(* with an ordinary client.                                                *)
(*                                                                         *)
(* The browser keeps the size its layout wants (desired), the last size a  *)
(* seed has shown (delivered) and a watchdog that sends the first again    *)
(* while the second differs (app.js, flushTerminalResize).  The server     *)
(* makes its control client the latest one of the window and repaints the  *)
(* browser (server.py, set_size, reclaim_geometry, reseed).  tmux gives    *)
(* the window the size of its latest client, unless it is manual.          *)
(* A size stands for columns and rows; 0 is no size.                       *)
(***************************************************************************)
EXTENDS Integers, Sequences

CONSTANTS Sizes,       \* sizes the layout of the browser can want
          DeskSizes,   \* sizes of the ordinary client, and manual sizes
          Default,     \* the size of a window no browser has sized: 140x40
          MaxEvents    \* bound on what users, panes and the network do

ASSUME SizeAssumption ==
    /\ Sizes \subseteq Nat \ {0} /\ Sizes # {}
    /\ DeskSizes \subseteq Nat \ {0}
    /\ Default \in Nat \ {0}
ASSUME EventAssumption == MaxEvents \in Nat

VARIABLES browser,     \* app.js: the size bookkeeping of the terminal
          toServer,    \* requests on their way, and the queue of the server
          toClient,    \* messages on their way, and the queue of the browser
          main,        \* the message loop of the connection
          job,         \* the reseed that holds seed_lock
          bridge,      \* TmuxBridge: last_reported_dimensions, seed_degraded
          stored,      \* terminal_sizes of the session
          tmux,        \* the window and the clients attached to it
          asked,       \* a user has claimed the window in the browser, and
                       \* nobody outside it since
          events
vars == <<browser, toServer, toClient, main, job, bridge, stored, tmux, asked,
          events>>
serverVars == <<main, job, bridge, stored>>

Shown == Sizes \cup DeskSizes \cup {Default}
PaneSizes == Shown \cup {-s : s \in Shown}
Reasons == {"resize", "activity", "initial", "history", "pane", "stabilize"}
Requests == [type : {"resize"}, size : Sizes]
            \cup [type : {"activity", "history-reseed"}]
Messages == [type : {"ready", "seed-start", "seed-open"}]
            \cup [type : {"seed-data", "seed-resume"}, size : PaneSizes]

-----------------------------------------------------------------------------
(* tmux: the window takes the size of its latest client.                   *)

\* A pane of a split window is smaller than the window: -s, for a window of s.
PaneSize == IF tmux.split /\ tmux.window > 0 THEN -tmux.window ELSE tmux.window

Sized(t) ==
    [t EXCEPT !.window = IF t.manual # 0 THEN t.manual
                         ELSE IF t.latest = "browser" THEN t.control
                         ELSE IF t.latest = "desk" THEN t.desk ELSE @]

\* Mutant: a manual size is left in force.
ClaimedManual(s) == Sized([tmux EXCEPT !.control = s, !.latest = "browser"])
\* set-option -wu window-size, refresh-client -C, select-window
Claimed(s) ==
    Sized([tmux EXCEPT !.manual = 0, !.control = s, !.latest = "browser"])

\* The control client is gone: the other one is the latest, if there is one.
Detached(t) ==
    Sized([t EXCEPT !.control = 0,
                    !.latest = IF t.latest # "browser" THEN @
                               ELSE IF t.desk # 0 THEN "desk" ELSE "none"])

-----------------------------------------------------------------------------
(* Browser: desired, sent and delivered sizes.                             *)

Differs(b) == b.desired # b.delivered

\* scheduleTerminalResizeWatchdog
Watch(b) == [b EXCEPT !.timer = b.pending /\ Differs(b)]

\* setDesiredTerminalSize
Desire(b, s) ==
    IF s = b.desired THEN b
    ELSE Watch([b EXCEPT !.desired = s, !.dirty = TRUE, !.pending = TRUE])

\* resetDeliveredTerminalSize
Reset(b) == Watch([b EXCEPT !.delivered = 0, !.sent = FALSE, !.pending = TRUE])

\* Mutant: a size that was shown ends the wait for the one that was asked for.
AcknowledgeEnds(b, s) ==
    Watch([b EXCEPT !.delivered = s, !.sent = FALSE, !.pending = FALSE,
                    !.dirty = FALSE])
\* acknowledgeTerminalSize
Acknowledge(b, s) ==
    Watch([b EXCEPT !.delivered = s, !.sent = FALSE,
                    !.pending = (b.desired # s), !.dirty = (b.desired # s)])

\* flushTerminalResize: what it sends, and what it keeps.  A size sent less
\* than a watchdog ago (recent) is not sent again.
CanSend(b) == b.open /\ ~b.seeding
Sends(b, recent) == CanSend(b) /\ Differs(b) /\ ~recent
Flushed(b, recent) ==
    IF Differs(b)
    THEN Watch([b EXCEPT !.pending = TRUE,
                         !.dirty = @ /\ ~Sends(b, recent),
                         !.sent = @ \/ Sends(b, recent)])
    ELSE [b EXCEPT !.pending = (@ \/ b.dirty) /\ ~CanSend(b),
                   !.dirty = @ /\ ~CanSend(b), !.timer = FALSE]

Flush(b, recent) ==
    /\ browser' = Flushed(b, recent)
    /\ toServer' = IF Sends(b, recent)
                   THEN Append(toServer, [type |-> "resize", size |-> b.desired])
                   ELSE toServer

-----------------------------------------------------------------------------
NoJob == [at |-> "idle", reason |-> "initial", want |-> 0, own |-> FALSE]
MainAt(at) == [at |-> at, reason |-> "initial", want |-> 0]
Waits(reason, want) == [at |-> "waits", reason |-> reason, want |-> want]

Init ==
    /\ \E s \in Sizes :
         browser = [desired |-> s, delivered |-> 0, term |-> s, dirty |-> TRUE,
                    pending |-> TRUE, timer |-> TRUE, sent |-> FALSE,
                    seeding |-> FALSE, open |-> FALSE]
    /\ toServer = <<>> /\ toClient = <<>>
    /\ main = MainAt("off") /\ job = NoJob
    /\ bridge = [reported |-> Default, degraded |-> FALSE]
    /\ stored = 0
    /\ \E desk \in DeskSizes \cup {0} :
         tmux = [window |-> IF desk = 0 THEN Default ELSE desk,
                 latest |-> IF desk = 0 THEN "none" ELSE "desk",
                 control |-> 0, desk |-> desk, manual |-> 0, split |-> FALSE]
    /\ asked = FALSE
    /\ events = 0

Happens == /\ events < MaxEvents
           /\ events' = events + 1

-----------------------------------------------------------------------------
(* Environment: layout, users, tmux, network and time.                     *)

\* fitTerminal: the layout fits xterm, wants that size and sends it.
Fit(s) ==
    /\ Happens
    /\ \E recent \in {FALSE, browser.sent} :
         Flush([Desire(browser, s) EXCEPT !.term = s], recent)
    /\ UNCHANGED <<toClient, serverVars, tmux, asked>>

\* reportActivity; a request for more history
Asks(type) ==
    /\ Happens
    /\ browser.open
    /\ toServer' = Append(toServer, [type |-> type])
    /\ UNCHANGED <<browser, toClient, serverVars, tmux, asked>>

\* The ordinary client attaches, is typed in or changes its size.
DeskUsed(s) ==
    /\ Happens
    /\ tmux' = Sized([tmux EXCEPT !.desk = s, !.latest = "desk"])
    /\ asked' = FALSE
    /\ UNCHANGED <<browser, toServer, toClient, serverVars>>

\* resize-window makes the size of the window manual.
ResizeWindow(s) ==
    /\ Happens
    /\ tmux' = Sized([tmux EXCEPT !.manual = s])
    /\ asked' = FALSE
    /\ UNCHANGED <<browser, toServer, toClient, serverVars>>

SplitWindow ==
    /\ Happens
    /\ tmux' = [tmux EXCEPT !.split = ~@]
    /\ UNCHANGED <<browser, toServer, toClient, serverVars, asked>>

\* watch_tabs reseeds for another active pane.
PaneChange ==
    /\ Happens
    /\ main.at \in {"free", "waits"} /\ job.at = "idle"
    /\ job' = [NoJob EXCEPT !.at = "starts", !.reason = "pane"]
    /\ UNCHANGED <<browser, toServer, toClient, main, bridge, stored, tmux, asked>>

\* Mutant: the reseed of a lost connection goes on.
LostKeepsJob(t) ==
    /\ browser' = Reset([browser EXCEPT !.open = FALSE, !.seeding = FALSE])
    /\ toServer' = <<>> /\ toClient' = <<>>
    /\ main' = MainAt("off") /\ UNCHANGED job
    /\ tmux' = Detached(t)
    /\ UNCHANGED <<bridge, stored, asked>>
\* The socket is closed: by the network, a timeout or a failed tmux command.
Lost(t) ==
    /\ browser' = Reset([browser EXCEPT !.open = FALSE, !.seeding = FALSE])
    /\ toServer' = <<>> /\ toClient' = <<>>
    /\ main' = MainAt("off") /\ job' = NoJob
    /\ tmux' = Detached(t)
    /\ UNCHANGED <<bridge, stored, asked>>

Drop ==
    /\ Happens
    /\ main.at # "off"
    /\ \E t \in {tmux} \cup (IF job.at = "acked"
                             THEN {Sized([tmux EXCEPT !.manual = 0])} ELSE {}) :
         Lost(t)

-----------------------------------------------------------------------------
(* Server.                                                                 *)

\* connect; TmuxBridge.open; send_ready
Connect ==
    /\ main.at = "off"
    /\ browser' = Reset(browser)
    /\ LET size == IF stored = 0 THEN Default ELSE stored
       IN  /\ tmux' = Claimed(size)
           /\ bridge' = [reported |-> size, degraded |-> FALSE]
    /\ main' = Waits("initial", 0)
    /\ toClient' = <<[type |-> "ready"]>>
    /\ UNCHANGED <<toServer, job, stored, asked, events>>

Takes(type) ==
    /\ main.at = "free"
    /\ toServer # <<>> /\ Head(toServer).type = type
    /\ toServer' = Tail(toServer)
    /\ UNCHANGED <<browser, toClient, job, bridge, events>>

\* handle_command, "resize"
TakeResize ==
    /\ Takes("resize")
    /\ stored' = Head(toServer).size
    /\ main' = Waits("resize", Head(toServer).size)
    /\ asked' = TRUE
    /\ UNCHANGED tmux

\* claim_geometry ignores what follows another claim too fast.
ThrottleActivity ==
    /\ Takes("activity")
    /\ UNCHANGED <<main, stored, tmux, asked>>

\* reclaim_geometry: a window of the right size is claimed without a reseed.
ClaimSameSize ==
    /\ Takes("activity")
    /\ tmux.window = bridge.reported
    /\ tmux' = Sized([tmux EXCEPT !.manual = 0, !.latest = "browser"])
    /\ asked' = TRUE
    /\ UNCHANGED <<main, stored>>

ClaimOtherSize ==
    /\ Takes("activity")
    /\ tmux.window # bridge.reported
    /\ main' = Waits("activity", bridge.reported)
    /\ asked' = TRUE
    /\ UNCHANGED <<stored, tmux>>

TakeHistory ==
    /\ Takes("history-reseed")
    /\ main' = Waits("history", 0)
    /\ UNCHANGED <<stored, tmux, asked>>

\* reseed: the message loop gets seed_lock
OwnReseed ==
    /\ main.at = "waits" /\ job.at = "idle"
    /\ main' = [main EXCEPT !.at = "in"]
    /\ job' = [at |-> "starts", reason |-> main.reason, want |-> main.want,
               own |-> TRUE]
    /\ UNCHANGED <<browser, toServer, toClient, bridge, stored, tmux, asked, events>>

\* _stabilize_when_quiet
Stabilize ==
    /\ main.at \in {"free", "waits"} /\ job.at = "idle"
    /\ bridge.degraded
    /\ job' = [NoJob EXCEPT !.at = "starts", !.reason = "stabilize"]
    /\ UNCHANGED <<browser, toServer, toClient, main, bridge, stored, tmux, asked, events>>

SendStart ==
    /\ job.at = "starts"
    /\ job' = [job EXCEPT !.at = "started"]
    /\ toClient' = Append(toClient, [type |-> "seed-start"])
    /\ UNCHANGED <<browser, toServer, main, bridge, stored, tmux, asked, events>>

\* mutate, or the size of the browser for the first seed.  The acknowledgement
\* has left that size in want.
SetSize ==
    /\ job.at = "acked"
    /\ job' = [job EXCEPT !.at = "captures"]
    /\ IF job.reason \in {"resize", "activity", "initial"}
       THEN /\ tmux' = Claimed(job.want)
            /\ bridge' = [bridge EXCEPT !.reported = job.want]
       ELSE UNCHANGED <<tmux, bridge>>
    /\ UNCHANGED <<browser, toServer, toClient, main, stored, asked, events>>

CaptureExact ==
    /\ job.at = "captures"
    /\ job' = [job EXCEPT !.at = "sent"]
    /\ bridge' = [bridge EXCEPT !.degraded = FALSE]
    /\ toClient' = Append(toClient, [type |-> "seed-data", size |-> PaneSize])
    /\ UNCHANGED <<browser, toServer, main, stored, tmux, asked, events>>

\* A busy pane: the browser keeps its buffer and learns the size of the pane,
\* or gets a capture that is not exact.
CaptureDegraded ==
    /\ Happens
    /\ job.at = "captures"
    /\ job' = [job EXCEPT !.at = "sent"]
    /\ bridge' = [bridge EXCEPT !.degraded = TRUE]
    /\ toClient' = Append(toClient,
            [type |-> IF job.reason \in {"resize", "activity"}
                      THEN "seed-resume" ELSE "seed-data", size |-> PaneSize])
    /\ UNCHANGED <<browser, toServer, main, stored, tmux, asked>>

\* _flush_seed_output, after the acknowledgement of the browser
Opens ==
    /\ job.at = "shown"
    /\ job' = NoJob
    /\ main' = IF job.own THEN MainAt("free") ELSE main
    /\ toClient' = Append(toClient, [type |-> "seed-open"])
    /\ UNCHANGED <<browser, toServer, bridge, stored, tmux, asked, events>>

-----------------------------------------------------------------------------
(* Browser: messages and watchdog.                                         *)

Receives(types) ==
    /\ toClient # <<>> /\ Head(toClient).type \in types
    /\ toClient' = Tail(toClient)
    /\ UNCHANGED <<main, bridge, stored, tmux, asked, events>>

ClientReady ==
    /\ Receives({"ready"})
    /\ Flush(Reset([browser EXCEPT !.open = TRUE]), FALSE)
    /\ UNCHANGED job

ClientSeedStart ==
    /\ Receives({"seed-start"})
    /\ browser' = [browser EXCEPT !.seeding = TRUE]
    /\ job' = [job EXCEPT !.at = "acked",
                          !.want = IF job.reason = "initial"
                                   THEN browser.term ELSE @]
    /\ UNCHANGED toServer

\* applyTerminalSeed, or the handler of seed-resume
ClientSeedSize ==
    /\ Receives({"seed-data", "seed-resume"})
    /\ browser' = Acknowledge([browser EXCEPT !.term = Head(toClient).size],
                              Head(toClient).size)
    /\ job' = [job EXCEPT !.at = "shown"]
    /\ UNCHANGED toServer

ClientSeedOpen ==
    /\ Receives({"seed-open"})
    /\ \E recent \in {FALSE, browser.sent} :
         Flush([browser EXCEPT !.seeding = FALSE], recent)
    /\ UNCHANGED job

\* The watchdog was set when the size was sent, and is as long: the size is not
\* a recent one any more.  It may fire early, while the seed is on its way.
WatchdogFires ==
    /\ Happens
    /\ browser.timer /\ browser.pending /\ Differs(browser)
    /\ CanSend(browser)
    /\ Flush(browser, FALSE)
    /\ UNCHANGED <<toClient, serverVars, tmux, asked>>

-----------------------------------------------------------------------------
Environment ==
    \/ \E s \in Sizes : Fit(s)
    \/ \E type \in {"activity", "history-reseed"} : Asks(type)
    \/ \E s \in DeskSizes : DeskUsed(s) \/ ResizeWindow(s)
    \/ SplitWindow \/ PaneChange \/ Drop \/ CaptureDegraded \/ WatchdogFires

Progress ==
    \/ Connect \/ TakeResize \/ ThrottleActivity \/ ClaimSameSize
    \/ ClaimOtherSize \/ TakeHistory \/ OwnReseed \/ Stabilize \/ SendStart
    \/ SetSize \/ CaptureExact \/ Opens
    \/ ClientReady \/ ClientSeedStart \/ ClientSeedSize \/ ClientSeedOpen

Next == Progress \/ Environment
Spec == Init /\ [][Next]_vars
\* The event loops run on, an open socket delivers and a closed one is opened
\* again.  The watchdog is not assumed to fire.
FairSpec == Spec /\ WF_vars(Progress)

-----------------------------------------------------------------------------
(* Properties.                                                             *)

\* The message loop is in a reseed exactly while it holds the lock.
LoopInReseed ==
    /\ job.own <=> main.at = "in"
    /\ job.own => job.at # "idle"

\* A lost connection leaves nothing behind.
OffIsIdle ==
    main.at = "off" => /\ job = NoJob
                       /\ toServer = <<>> /\ toClient = <<>>
                       /\ ~browser.open

\* A size is known before the window gets it.
SizesKnown ==
    /\ main.reason \in {"resize", "activity"} => main.want # 0
    /\ job.reason \in {"resize", "activity"} => job.want # 0
    /\ job.at = "acked" /\ job.reason = "initial" => job.want # 0
    /\ tmux.latest = "browser" \/ main.at # "off" => tmux.control # 0
    /\ tmux.latest = "desk" => tmux.desk # 0

Browsers == [desired : Sizes, delivered : PaneSizes \cup {0}, term : PaneSizes,
             dirty : BOOLEAN, pending : BOOLEAN, timer : BOOLEAN,
             sent : BOOLEAN, seeding : BOOLEAN, open : BOOLEAN]
Windows == [window : PaneSizes, latest : {"none", "desk", "browser"},
            control : PaneSizes \cup {0}, desk : DeskSizes \cup {0},
            manual : DeskSizes \cup {0}, split : BOOLEAN]
Jobs == [at : {"idle", "starts", "started", "acked", "captures", "sent", "shown"},
         reason : Reasons, want : PaneSizes \cup {0}, own : BOOLEAN]
Mains == [at : {"off", "free", "waits", "in"}, reason : Reasons,
          want : PaneSizes \cup {0}]

\* Types; what a lost connection sets free; and no size is asked of tmux that
\* the program does not know yet (TmuxBridge.reseed, set_size, close).
TypeOK ==
    /\ browser \in Browsers
    /\ toServer \in Seq(Requests) /\ toClient \in Seq(Messages)
    /\ main \in Mains
    /\ job \in Jobs
    /\ bridge \in [reported : PaneSizes, degraded : BOOLEAN]
    /\ stored \in Sizes \cup {0}
    /\ tmux \in Windows
    /\ asked \in BOOLEAN
    /\ events \in 0..MaxEvents
    /\ LoopInReseed /\ OffIsIdle /\ SizesKnown

\* A size the layout wants and no seed has shown is never forgotten: it is
\* pending, and a watchdog runs to send it (app.js 5295-5317).
NothingForgotten ==
    Differs(browser) => browser.pending /\ browser.timer

\* When the environment is quiet the browser shows the size its layout wants,
\* and if a user claimed the window in the browser last, tmux gives it that
\* size.  A window that is split is exempt: the browser asks for the window and
\* is shown the pane, so it asks for ever (acknowledgeTerminalSize).
Settled ==
    /\ browser.term = browser.desired /\ browser.delivered = browser.desired
    /\ asked => tmux.window = browser.desired
SizeSettles == <>[](tmux.split \/ Settled)
=============================================================================
