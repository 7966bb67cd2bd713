--------------------------- MODULE GeometryProofs ---------------------------
(***************************************************************************)
(* Proofs about Geometry, for all sizes and any number of events: its type *)
(* invariant, and that a size the layout wants is never forgotten.         *)
(***************************************************************************)
EXTENDS Geometry, TLAPS

\* Sizes of panes: none is 0, and half of a window is one.
LEMMA SizesOfPanes ==
    /\ Sizes \subseteq PaneSizes /\ DeskSizes \subseteq PaneSizes
    /\ Default \in PaneSizes
    /\ 0 \notin PaneSizes
    /\ \A x \in PaneSizes : x \in Int /\ (x > 0 => -x \in PaneSizes)
<1>1. Shown \subseteq Nat \ {0}
  BY SizeAssumption DEF Shown
<1>2. \A x \in PaneSizes : x \in Shown \/ \E s \in Shown : x = -s
  BY DEF PaneSizes
<1>3. 0 \notin PaneSizes
  <2>1. \A s \in Shown : -s # 0
    BY <1>1
  <2> QED
    BY <1>1, <1>2, <2>1
<1>4. \A x \in PaneSizes : x \in Int /\ (x > 0 => x \in Shown)
  <2> SUFFICES ASSUME NEW x \in PaneSizes PROVE x \in Int /\ (x > 0 => x \in Shown)
    OBVIOUS
  <2>1. CASE x \in Shown
    BY <1>1, <2>1
  <2>2. CASE \E s \in Shown : x = -s
    BY <1>1, <2>2
  <2> QED
    BY <1>2, <2>1, <2>2
<1> QED
  BY <1>3, <1>4 DEF PaneSizes, Shown

-----------------------------------------------------------------------------
(* tmux.                                                                   *)

\* A client that is the latest one has a size.
Attached(t) == /\ t.latest = "browser" => t.control # 0
               /\ t.latest = "desk" => t.desk # 0

\* The window gets a size its clients have; nothing else changes.
LEMMA SizedWindow ==
    ASSUME NEW t \in Windows, Attached(t)
    PROVE  /\ Sized(t) \in Windows /\ Attached(Sized(t))
           /\ Sized(t).control = t.control
BY SizesOfPanes DEF Windows, Attached, Sized

LEMMA ClaimedWindow ==
    ASSUME tmux \in Windows, NEW s \in PaneSizes
    PROVE  /\ Claimed(s) \in Windows /\ Attached(Claimed(s))
           /\ Claimed(s).control # 0
<1> DEFINE t == [tmux EXCEPT !.manual = 0, !.control = s, !.latest = "browser"]
<1>1. t \in Windows /\ Attached(t) /\ t.control = s
  BY SizesOfPanes DEF Windows, Attached
<1>2. Claimed(s) = Sized(t)
  BY DEF Claimed
<1> HIDE DEF t
<1> QED
  BY <1>1, <1>2, SizedWindow, SizesOfPanes

LEMMA DetachedWindow ==
    ASSUME NEW t \in Windows, Attached(t)
    PROVE  /\ Detached(t) \in Windows /\ Attached(Detached(t))
           /\ Detached(t).latest # "browser"
<1> DEFINE u == [t EXCEPT !.control = 0,
                          !.latest = IF t.latest # "browser" THEN @
                                     ELSE IF t.desk # 0 THEN "desk" ELSE "none"]
<1>1. u \in Windows /\ Attached(u) /\ u.latest # "browser"
  BY DEF Windows, Attached
<1>2. Detached(t) = Sized(u)
  BY DEF Detached
<1>3. Sized(u).latest = u.latest
  BY <1>1 DEF Sized, Windows
<1> HIDE DEF u
<1> QED
  BY <1>1, <1>2, <1>3, SizedWindow

-----------------------------------------------------------------------------
(* Browser.                                                                *)

Remembered(b) == Differs(b) => b.pending /\ b.timer

LEMMA WatchRemembers ==
    ASSUME NEW b \in Browsers
    PROVE  /\ Watch(b) \in Browsers
           /\ b.pending \/ ~Differs(b) => Remembered(Watch(b))
           /\ Watch(b).open = b.open
BY DEF Browsers, Watch, Differs, Remembered

LEMMA DesireRemembers ==
    ASSUME NEW b \in Browsers, NEW s \in Sizes, Remembered(b)
    PROVE  /\ Desire(b, s) \in Browsers /\ Remembered(Desire(b, s))
           /\ Desire(b, s).open = b.open
<1> DEFINE c == [b EXCEPT !.desired = s, !.dirty = TRUE, !.pending = TRUE]
<1>1. c \in Browsers /\ c.pending /\ c.open = b.open
  BY DEF Browsers
<1>2. Desire(b, s) = b \/ Desire(b, s) = Watch(c)
  BY DEF Desire
<1> HIDE DEF c
<1> QED
  BY <1>1, <1>2, WatchRemembers

LEMMA ResetRemembers ==
    ASSUME NEW b \in Browsers
    PROVE  /\ Reset(b) \in Browsers /\ Remembered(Reset(b))
           /\ Reset(b).open = b.open
<1> DEFINE c == [b EXCEPT !.delivered = 0, !.sent = FALSE, !.pending = TRUE]
<1>1. c \in Browsers /\ c.pending /\ c.open = b.open
  BY DEF Browsers
<1>2. Reset(b) = Watch(c)
  BY DEF Reset
<1> HIDE DEF c
<1> QED
  BY <1>1, <1>2, WatchRemembers

LEMMA AcknowledgeRemembers ==
    ASSUME NEW b \in Browsers, NEW s \in PaneSizes
    PROVE  /\ Acknowledge(b, s) \in Browsers /\ Remembered(Acknowledge(b, s))
           /\ Acknowledge(b, s).open = b.open
<1> DEFINE c == [b EXCEPT !.delivered = s, !.sent = FALSE,
                          !.pending = (b.desired # s), !.dirty = (b.desired # s)]
<1>1. c \in Browsers /\ (c.pending \/ ~Differs(c)) /\ c.open = b.open
  BY DEF Browsers, Differs
<1>2. Acknowledge(b, s) = Watch(c)
  BY DEF Acknowledge
<1> HIDE DEF c
<1> QED
  BY <1>1, <1>2, WatchRemembers

LEMMA FlushedRemembers ==
    ASSUME NEW b \in Browsers, NEW recent \in BOOLEAN
    PROVE  /\ Flushed(b, recent) \in Browsers /\ Remembered(Flushed(b, recent))
           /\ Flushed(b, recent).open = b.open
<1> DEFINE c == [b EXCEPT !.pending = TRUE,
                          !.dirty = @ /\ ~Sends(b, recent),
                          !.sent = @ \/ Sends(b, recent)]
           d == [b EXCEPT !.pending = (@ \/ b.dirty) /\ ~CanSend(b),
                          !.dirty = @ /\ ~CanSend(b), !.timer = FALSE]
<1>1. CanSend(b) \in BOOLEAN /\ Sends(b, recent) \in BOOLEAN
  BY DEF CanSend, Sends
<1>2. c \in Browsers /\ c.pending /\ c.open = b.open
  BY <1>1 DEF Browsers
<1>3. CASE Differs(b)
  <2>1. Flushed(b, recent) = Watch(c)
    BY <1>3 DEF Flushed
  <2> HIDE DEF c
  <2> QED
    BY <1>2, <2>1, WatchRemembers
<1>4. CASE ~Differs(b)
  <2>1. Flushed(b, recent) = d
    BY <1>4 DEF Flushed
  <2>2. d \in Browsers /\ d.open = b.open /\ ~Differs(d)
    BY <1>1, <1>4 DEF Browsers, Differs
  <2> HIDE DEF d
  <2> QED
    BY <2>1, <2>2 DEF Remembered
<1> QED
  BY <1>3, <1>4

LEMMA FlushRemembers ==
    ASSUME NEW b \in Browsers, NEW recent \in BOOLEAN,
           toServer \in Seq(Requests), Flush(b, recent)
    PROVE  /\ browser' \in Browsers /\ Remembered(browser')
           /\ browser'.open = b.open
           /\ toServer' \in Seq(Requests)
           /\ ~b.open => toServer' = toServer
<1>1. browser' = Flushed(b, recent)
  BY DEF Flush
<1>2. [type |-> "resize", size |-> b.desired] \in Requests
  BY DEF Requests, Browsers
<1>3. ~b.open => ~Sends(b, recent)
  BY DEF Sends, CanSend
<1> QED
  BY <1>1, <1>2, <1>3, FlushedRemembers DEF Flush

-----------------------------------------------------------------------------
(* The invariant.                                                          *)

IInv == TypeOK /\ NothingForgotten

LEMMA Initially == Init => IInv
<1> SUFFICES ASSUME Init PROVE IInv
  OBVIOUS
<1>1. browser \in Browsers /\ NothingForgotten
  BY SizesOfPanes DEF Init, Browsers, NothingForgotten, Differs
<1>2. tmux \in Windows /\ tmux.latest # "browser" /\ (tmux.latest = "desk" => tmux.desk # 0)
  BY SizesOfPanes DEF Init, Windows
<1>3. main \in Mains /\ job \in Jobs /\ bridge \in [reported : PaneSizes, degraded : BOOLEAN]
  BY SizesOfPanes DEF Init, Mains, Jobs, MainAt, NoJob, Reasons
<1>4. toServer \in Seq(Requests) /\ toClient \in Seq(Messages)
  BY DEF Init
<1>5. LoopInReseed /\ OffIsIdle /\ SizesKnown
  BY <1>2 DEF Init, LoopInReseed, OffIsIdle, SizesKnown, MainAt, NoJob
<1>6. stored = 0 /\ asked = FALSE /\ events \in 0..MaxEvents
  BY EventAssumption DEF Init
<1> QED
  BY <1>1, <1>2, <1>3, <1>4, <1>5, <1>6 DEF TypeOK, IInv

\* Layout and users of the browser.
LEMMA LayoutKeeps ==
    ASSUME IInv, (\E s \in Sizes : Fit(s))
                 \/ (\E type \in {"activity", "history-reseed"} : Asks(type))
                 \/ WatchdogFires
    PROVE  IInv'
<1>1. ASSUME NEW s \in Sizes, Fit(s) PROVE IInv'
  <2>1. PICK recent \in {FALSE, browser.sent} :
            Flush([Desire(browser, s) EXCEPT !.term = s], recent)
    BY <1>1 DEF Fit
  <2>2. recent \in BOOLEAN
    BY DEF IInv, TypeOK, Browsers
  <2>3. [Desire(browser, s) EXCEPT !.term = s] \in Browsers
    BY DesireRemembers, SizesOfPanes DEF IInv, TypeOK, NothingForgotten, Remembered, Browsers
  <2>4. [Desire(browser, s) EXCEPT !.term = s].open = browser.open
    BY DesireRemembers DEF IInv, TypeOK, NothingForgotten, Remembered, Browsers
  <2>5. /\ browser' \in Browsers /\ Remembered(browser')
        /\ browser'.open = browser.open
        /\ toServer' \in Seq(Requests)
        /\ ~browser.open => toServer' = toServer
    BY <2>1, <2>2, <2>3, <2>4, FlushRemembers DEF IInv, TypeOK
  <2> QED
    BY <1>1, <2>5, EventAssumption
    DEF Fit, IInv, TypeOK, NothingForgotten, Remembered, Happens, serverVars,
        LoopInReseed, OffIsIdle, SizesKnown
<1>2. ASSUME NEW type \in {"activity", "history-reseed"}, Asks(type) PROVE IInv'
  <2>1. [type |-> type] \in Requests
    BY DEF Requests
  <2> QED
    BY <1>2, <2>1, EventAssumption
    DEF Asks, IInv, TypeOK, NothingForgotten, Differs, Happens, serverVars,
        LoopInReseed, OffIsIdle, SizesKnown
<1>3. CASE WatchdogFires
  <2>1. /\ browser' \in Browsers /\ Remembered(browser')
        /\ browser'.open = browser.open
        /\ toServer' \in Seq(Requests)
        /\ ~browser.open => toServer' = toServer
    BY <1>3, FlushRemembers DEF IInv, TypeOK, WatchdogFires
  <2> QED
    BY <1>3, <2>1, EventAssumption
    DEF WatchdogFires, Happens, IInv, TypeOK, NothingForgotten, Remembered, serverVars,
        LoopInReseed, OffIsIdle, SizesKnown
<1> QED
  BY <1>1, <1>2, <1>3

\* What others do to the window, and the panes of the session.
LEMMA OthersKeep ==
    ASSUME IInv, (\E s \in DeskSizes : DeskUsed(s) \/ ResizeWindow(s))
                 \/ SplitWindow \/ PaneChange
    PROVE  IInv'
<1>1. ASSUME tmux' \in Windows, Attached(tmux'),
             tmux'.control = tmux.control, asked' \in BOOLEAN, Happens,
             UNCHANGED <<browser, toServer, toClient, serverVars>>
      PROVE  IInv'
  BY <1>1, EventAssumption
  DEF IInv, TypeOK, NothingForgotten, Differs, Happens, serverVars, Attached,
      LoopInReseed, OffIsIdle, SizesKnown
<1>2. Attached(tmux) /\ tmux \in Windows /\ asked \in BOOLEAN
  BY DEF IInv, TypeOK, SizesKnown, Attached
<1>3. ASSUME NEW s \in DeskSizes, DeskUsed(s) PROVE IInv'
  <2> DEFINE t == [tmux EXCEPT !.desk = s, !.latest = "desk"]
  <2>1. t \in Windows /\ Attached(t) /\ t.control = tmux.control
    BY <1>2, SizesOfPanes DEF Windows, Attached
  <2>2. tmux' = Sized(t)
    BY <1>3 DEF DeskUsed
  <2> HIDE DEF t
  <2> QED
    BY <1>1, <1>3, <2>1, <2>2, SizedWindow DEF DeskUsed
<1>4. ASSUME NEW s \in DeskSizes, ResizeWindow(s) PROVE IInv'
  <2> DEFINE t == [tmux EXCEPT !.manual = s]
  <2>1. t \in Windows /\ Attached(t) /\ t.control = tmux.control
    BY <1>2 DEF Windows, Attached
  <2>2. tmux' = Sized(t)
    BY <1>4 DEF ResizeWindow
  <2> HIDE DEF t
  <2> QED
    BY <1>1, <1>4, <2>1, <2>2, SizedWindow DEF ResizeWindow
<1>5. CASE SplitWindow
  <2>1. tmux' \in Windows /\ Attached(tmux') /\ tmux'.control = tmux.control
    BY <1>2, <1>5 DEF SplitWindow, Windows, Attached
  <2> QED
    BY <1>1, <1>2, <1>5, <2>1 DEF SplitWindow
<1>6. CASE PaneChange
  <2>1. job' \in Jobs /\ job'.reason = "pane" /\ ~job'.own /\ job'.at = "starts"
    BY <1>6 DEF PaneChange, Jobs, NoJob, Reasons
  <2>2. /\ UNCHANGED <<browser, toServer, toClient, main, bridge, stored, tmux, asked>>
        /\ main.at \in {"free", "waits"} /\ events' \in 0..MaxEvents
    BY <1>6, EventAssumption DEF PaneChange, Happens, IInv, TypeOK
  <2>3. LoopInReseed' /\ OffIsIdle' /\ SizesKnown'
    BY <2>1, <2>2 DEF IInv, TypeOK, LoopInReseed, OffIsIdle, SizesKnown
  <2> QED
    BY <2>1, <2>2, <2>3 DEF IInv, TypeOK, NothingForgotten, Differs
<1>7. ASSUME NEW s \in DeskSizes, DeskUsed(s) \/ ResizeWindow(s) PROVE IInv'
  BY <1>3, <1>4, <1>7
<1> QED
  BY <1>5, <1>6, <1>7

\* The connection is lost, or opened again.
LEMMA ConnectionKeeps ==
    ASSUME IInv, Drop \/ Connect
    PROVE  IInv'
<1>1. browser \in Browsers /\ tmux \in Windows /\ Attached(tmux)
  BY DEF IInv, TypeOK, SizesKnown, Attached
<1>2. CASE Drop
  <2>1. PICK t \in {tmux, Sized([tmux EXCEPT !.manual = 0])} : Lost(t)
    BY <1>2 DEF Drop
  <2>2. t \in Windows /\ Attached(t)
    <3> DEFINE u == [tmux EXCEPT !.manual = 0]
    <3>1. u \in Windows /\ Attached(u)
      BY <1>1 DEF Windows, Attached
    <3>2. t \in {tmux, Sized(u)}
      BY <2>1
    <3> HIDE DEF u
    <3> QED
      BY <1>1, <3>1, <3>2, SizedWindow
  <2>3. /\ tmux' \in Windows /\ Attached(tmux') /\ tmux'.latest # "browser"
    BY <2>1, <2>2, DetachedWindow DEF Lost
  <2>4. browser' \in Browsers /\ Remembered(browser') /\ ~browser'.open
    <3> DEFINE b == [browser EXCEPT !.open = FALSE, !.seeding = FALSE]
    <3>1. b \in Browsers /\ ~b.open
      BY <1>1 DEF Browsers
    <3>2. browser' = Reset(b)
      BY <2>1 DEF Lost
    <3> HIDE DEF b
    <3> QED
      BY <3>1, <3>2, ResetRemembers
  <2>5. main' \in Mains /\ job' \in Jobs /\ job' = NoJob /\ main' = MainAt("off")
    BY <2>1 DEF Lost, Mains, Jobs, MainAt, NoJob, Reasons
  <2>6. toServer' = <<>> /\ toClient' = <<>>
    BY <2>1 DEF Lost
  <2>7. LoopInReseed' /\ OffIsIdle' /\ SizesKnown'
    BY <2>3, <2>4, <2>5, <2>6
    DEF LoopInReseed, OffIsIdle, SizesKnown, MainAt, NoJob, Attached
  <2>8. toServer' \in Seq(Requests) /\ toClient' \in Seq(Messages)
    BY <2>6
  <2>9. /\ bridge' = bridge /\ stored' = stored /\ asked' = asked
        /\ events' \in 0..MaxEvents
    BY <1>2, <2>1, EventAssumption DEF Lost, Drop, Happens, IInv, TypeOK
  <2> QED
    BY <2>3, <2>4, <2>5, <2>7, <2>8, <2>9
    DEF IInv, TypeOK, NothingForgotten, Remembered
<1>3. CASE Connect
  <2> DEFINE size == IF stored = 0 THEN Default ELSE stored
  <2>1. size \in PaneSizes
    BY SizesOfPanes DEF IInv, TypeOK
  <2>2. tmux' = Claimed(size) /\ bridge' = [reported |-> size, degraded |-> FALSE]
    BY <1>3 DEF Connect
  <2> HIDE DEF size
  <2>3. tmux' \in Windows /\ Attached(tmux') /\ tmux'.control # 0
    BY <1>1, <2>1, <2>2, ClaimedWindow
  <2>4. browser' \in Browsers /\ Remembered(browser')
    BY <1>1, <1>3, ResetRemembers DEF Connect
  <2>5. /\ main' \in Mains /\ main'.at = "waits" /\ main'.reason = "initial"
        /\ job' = job /\ job = NoJob
    BY <1>3 DEF Connect, IInv, TypeOK, OffIsIdle, Mains, Waits, Reasons
  <2>6. toClient' \in Seq(Messages) /\ toServer' = toServer
    BY <1>3 DEF Connect, Messages
  <2>7. LoopInReseed' /\ OffIsIdle' /\ SizesKnown'
    BY <2>3, <2>5 DEF LoopInReseed, OffIsIdle, SizesKnown, NoJob, Attached
  <2> QED
    BY <1>3, <2>1, <2>2, <2>3, <2>4, <2>5, <2>6, <2>7
    DEF Connect, IInv, TypeOK, NothingForgotten, Remembered
<1> QED
  BY <1>2, <1>3

\* The message loop takes a request.
LEMMA LoopKeeps ==
    ASSUME IInv, TakeResize \/ ThrottleActivity \/ ClaimSameSize
                 \/ ClaimOtherSize \/ TakeHistory
    PROVE  IInv'
<1>1. /\ browser \in Browsers /\ tmux \in Windows /\ Attached(tmux)
      /\ main \in Mains /\ job \in Jobs
  BY DEF IInv, TypeOK, SizesKnown, Attached
<1>2. ASSUME NEW type, Takes(type),
             main' \in Mains, main'.at \in {"free", "waits"},
             main'.reason \in {"resize", "activity"} => main'.want # 0,
             tmux' \in Windows, Attached(tmux'), tmux'.control = tmux.control,
             stored' \in Sizes \cup {0}, asked' \in BOOLEAN
      PROVE  IInv'
  <2>1. toServer' \in Seq(Requests)
    BY <1>2 DEF Takes, IInv, TypeOK
  <2>2. UNCHANGED <<browser, toClient, job, bridge, events>> /\ main.at = "free"
    BY <1>2 DEF Takes
  <2>3. LoopInReseed' /\ OffIsIdle' /\ SizesKnown'
    BY <1>2, <2>2
    DEF IInv, TypeOK, LoopInReseed, OffIsIdle, SizesKnown, Attached
  <2> QED
    BY <1>2, <2>1, <2>2, <2>3 DEF IInv, TypeOK, NothingForgotten, Differs
<1>3. CASE TakeResize
  <2>1. Head(toServer).size \in Sizes
    BY <1>3 DEF TakeResize, Takes, IInv, TypeOK, Requests
  <2>2. main' \in Mains /\ main'.at = "waits" /\ main'.want # 0
    BY <1>3, <2>1, SizesOfPanes DEF TakeResize, Waits, Mains, Reasons
  <2> QED
    BY <1>1, <1>2, <1>3, <2>1, <2>2 DEF TakeResize
<1>4. CASE ThrottleActivity
  <2>1. stored \in Sizes \cup {0} /\ asked \in BOOLEAN
        /\ (main.reason \in {"resize", "activity"} => main.want # 0)
    BY DEF IInv, TypeOK, SizesKnown
  <2> QED
    BY <1>1, <1>2, <1>4, <2>1 DEF ThrottleActivity, Takes
<1>5. CASE ClaimSameSize
  <2> DEFINE t == [tmux EXCEPT !.manual = 0, !.latest = "browser"]
  <2>1. tmux.control # 0 /\ stored \in Sizes \cup {0}
        /\ (main.reason \in {"resize", "activity"} => main.want # 0)
    BY <1>5 DEF ClaimSameSize, Takes, IInv, TypeOK, SizesKnown
  <2>2. t \in Windows /\ Attached(t) /\ t.control = tmux.control
    BY <1>1, <2>1 DEF Windows, Attached
  <2>3. tmux' = Sized(t)
    BY <1>5 DEF ClaimSameSize
  <2> HIDE DEF t
  <2> QED
    BY <1>1, <1>2, <1>5, <2>1, <2>2, <2>3, SizedWindow DEF ClaimSameSize, Takes
<1>6. CASE ClaimOtherSize
  <2>1. stored \in Sizes \cup {0} /\ bridge.reported \in PaneSizes
    BY DEF IInv, TypeOK
  <2>2. main' \in Mains /\ main'.at = "waits" /\ main'.want # 0
    BY <1>6, <2>1, SizesOfPanes DEF ClaimOtherSize, Waits, Mains, Reasons
  <2> QED
    BY <1>1, <1>2, <1>6, <2>1, <2>2 DEF ClaimOtherSize
<1>7. CASE TakeHistory
  <2>1. stored \in Sizes \cup {0} /\ asked \in BOOLEAN
    BY DEF IInv, TypeOK
  <2>2. main' \in Mains /\ main'.at = "waits" /\ main'.reason = "history"
    BY <1>7 DEF TakeHistory, Waits, Mains, Reasons
  <2> QED
    BY <1>1, <1>2, <1>7, <2>1, <2>2 DEF TakeHistory
<1> QED
  BY <1>3, <1>4, <1>5, <1>6, <1>7

\* Who gets seed_lock, and what the server does with it.
LEMMA ReseedKeeps ==
    ASSUME IInv, OwnReseed \/ Stabilize \/ SendStart \/ SetSize \/ CaptureExact
                 \/ CaptureDegraded \/ Opens
    PROVE  IInv'
<1>1. /\ tmux \in Windows /\ Attached(tmux) /\ main \in Mains /\ job \in Jobs
      /\ LoopInReseed /\ OffIsIdle /\ SizesKnown
  BY DEF IInv, TypeOK, SizesKnown, Attached
<1>2. ASSUME main' \in Mains, job' \in Jobs,
             bridge' \in [reported : PaneSizes, degraded : BOOLEAN],
             tmux' \in Windows, toClient' \in Seq(Messages),
             LoopInReseed', OffIsIdle', SizesKnown', events' \in 0..MaxEvents,
             UNCHANGED <<browser, toServer, stored, asked>>
      PROVE  IInv'
  BY <1>2 DEF IInv, TypeOK, NothingForgotten, Differs
<1>3. job.at # "idle" => main.at # "off"
  BY <1>1 DEF OffIsIdle, NoJob
<1>4. CASE OwnReseed
  <2>1. /\ main' \in Mains /\ main'.at = "in" /\ main'.reason = main.reason
        /\ main'.want = main.want /\ main.at = "waits"
    BY <1>1, <1>4 DEF OwnReseed, Mains
  <2>2. /\ job' \in Jobs /\ job'.at = "starts" /\ job'.own
        /\ job'.reason = main.reason /\ job'.want = main.want
    BY <1>1, <1>4 DEF OwnReseed, Mains, Jobs
  <2>3. UNCHANGED <<browser, toServer, toClient, bridge, stored, tmux, asked, events>>
    BY <1>4 DEF OwnReseed
  <2>4. LoopInReseed' /\ OffIsIdle' /\ SizesKnown'
    BY <1>1, <2>1, <2>2, <2>3 DEF LoopInReseed, OffIsIdle, SizesKnown
  <2> QED
    BY <1>1, <1>2, <2>1, <2>2, <2>3, <2>4 DEF IInv, TypeOK
<1>5. CASE Stabilize
  <2>1. job' \in Jobs /\ job'.reason = "stabilize" /\ ~job'.own /\ job'.at = "starts"
    BY <1>5 DEF Stabilize, Jobs, NoJob, Reasons
  <2>2. /\ UNCHANGED <<browser, toServer, toClient, main, bridge, stored, tmux, asked, events>>
        /\ main.at \in {"free", "waits"}
    BY <1>5 DEF Stabilize
  <2>3. LoopInReseed' /\ OffIsIdle' /\ SizesKnown'
    BY <1>1, <2>1, <2>2 DEF LoopInReseed, OffIsIdle, SizesKnown
  <2> QED
    BY <1>1, <1>2, <2>1, <2>2, <2>3 DEF IInv, TypeOK
<1>6. ASSUME NEW at \in {"started", "captures", "sent"}, job.at # "idle",
             job' = [job EXCEPT !.at = at], main' = main
      PROVE  /\ main' \in Mains /\ job' \in Jobs /\ LoopInReseed'
             /\ job'.reason = job.reason /\ job'.want = job.want
             /\ job'.at # "acked" /\ main.at # "off"
  BY <1>1, <1>3, <1>6 DEF Jobs, LoopInReseed
<1>7. CASE SendStart
  <2>1. /\ job.at # "idle" /\ job' = [job EXCEPT !.at = "started"]
        /\ toClient' = Append(toClient, [type |-> "seed-start"])
        /\ UNCHANGED <<browser, toServer, main, bridge, stored, tmux, asked, events>>
    BY <1>7 DEF SendStart
  <2>2. toClient' \in Seq(Messages)
    BY <2>1 DEF Messages, IInv, TypeOK
  <2>3. OffIsIdle' /\ SizesKnown'
    BY <1>1, <1>6, <2>1 DEF OffIsIdle, SizesKnown
  <2> QED
    BY <1>1, <1>2, <1>6, <2>1, <2>2, <2>3 DEF IInv, TypeOK
<1>8. CASE SetSize
  <2>1. /\ job.at = "acked" /\ job' = [job EXCEPT !.at = "captures"]
        /\ UNCHANGED <<browser, toServer, toClient, main, stored, asked, events>>
    BY <1>8 DEF SetSize
  <2>2. /\ tmux' \in Windows /\ Attached(tmux') /\ tmux'.control # 0
        /\ bridge' \in [reported : PaneSizes, degraded : BOOLEAN]
    <3>1. CASE job.reason \in {"resize", "activity", "initial"}
      <4>1. job.want \in PaneSizes
        BY <1>1, <2>1, <3>1 DEF SizesKnown, Jobs
      <4>2. tmux' = Claimed(job.want) /\ bridge' = [bridge EXCEPT !.reported = job.want]
        BY <1>8, <3>1 DEF SetSize
      <4> QED
        BY <1>1, <4>1, <4>2, ClaimedWindow DEF IInv, TypeOK
    <3>2. CASE job.reason \notin {"resize", "activity", "initial"}
      BY <1>1, <1>3, <1>8, <2>1, <3>2 DEF SetSize, SizesKnown, IInv, TypeOK
    <3> QED
      BY <3>1, <3>2
  <2>3. OffIsIdle' /\ SizesKnown'
    BY <1>1, <1>6, <2>1, <2>2 DEF OffIsIdle, SizesKnown, Attached
  <2> QED
    BY <1>1, <1>2, <1>6, <2>1, <2>2, <2>3 DEF IInv, TypeOK
<1>9. PaneSize \in PaneSizes
  BY <1>1, SizesOfPanes DEF PaneSize, Windows
<1>10. CASE CaptureExact \/ CaptureDegraded
  <2>1. /\ job.at # "idle" /\ job' = [job EXCEPT !.at = "sent"]
        /\ UNCHANGED <<browser, toServer, main, stored, tmux, asked>>
    BY <1>10 DEF CaptureExact, CaptureDegraded
  <2>2. toClient' \in Seq(Messages)
    <3>1. PICK type \in {"seed-data", "seed-resume"} :
              toClient' = Append(toClient, [type |-> type, size |-> PaneSize])
      BY <1>10 DEF CaptureExact, CaptureDegraded
    <3>2. [type |-> type, size |-> PaneSize] \in Messages
      BY <1>9 DEF Messages
    <3> QED
      BY <3>1, <3>2 DEF IInv, TypeOK
  <2>3. bridge' \in [reported : PaneSizes, degraded : BOOLEAN]
    BY <1>10 DEF CaptureExact, CaptureDegraded, IInv, TypeOK
  <2>4. events' \in 0..MaxEvents
    BY <1>10, EventAssumption DEF CaptureExact, CaptureDegraded, Happens, IInv, TypeOK
  <2>5. OffIsIdle' /\ SizesKnown'
    BY <1>1, <1>6, <2>1 DEF OffIsIdle, SizesKnown
  <2> QED
    BY <1>1, <1>2, <1>6, <2>1, <2>2, <2>3, <2>4, <2>5
<1>11. CASE Opens
  <2>1. /\ job.at = "shown" /\ job' = NoJob
        /\ main' = IF job.own THEN MainAt("free") ELSE main
        /\ toClient' = Append(toClient, [type |-> "seed-open"])
        /\ UNCHANGED <<browser, toServer, bridge, stored, tmux, asked, events>>
    BY <1>11 DEF Opens
  <2>2. job' \in Jobs /\ main' \in Mains /\ main'.at \notin {"off", "in"}
    BY <1>1, <1>3, <2>1 DEF Jobs, NoJob, Mains, MainAt, Reasons, LoopInReseed
  <2>3. toClient' \in Seq(Messages)
    BY <2>1 DEF Messages, IInv, TypeOK
  <2>4. main'.reason \in {"resize", "activity"} => main'.want # 0
    BY <1>1, <2>1 DEF MainAt, SizesKnown
  <2>5. LoopInReseed' /\ OffIsIdle' /\ SizesKnown'
    BY <1>1, <1>3, <2>1, <2>2, <2>4 DEF LoopInReseed, OffIsIdle, SizesKnown, NoJob
  <2> QED
    BY <1>1, <1>2, <2>1, <2>2, <2>3, <2>5 DEF IInv, TypeOK
<1> QED
  BY <1>4, <1>5, <1>7, <1>8, <1>10, <1>11

\* What arrives in the browser.
LEMMA MessageKeeps ==
    ASSUME IInv, ClientReady \/ ClientSeedStart \/ ClientSeedSize \/ ClientSeedOpen
    PROVE  IInv'
<1>1. /\ browser \in Browsers /\ job \in Jobs /\ toServer \in Seq(Requests)
      /\ toClient \in Seq(Messages) /\ LoopInReseed /\ OffIsIdle /\ SizesKnown
      /\ tmux \in Windows
  BY DEF IInv, TypeOK
<1>2. ASSUME NEW types, Receives(types),
             browser' \in Browsers, Remembered(browser'),
             toServer' \in Seq(Requests), job' \in Jobs,
             job'.own = job.own, job'.own => job'.at # "idle",
             job'.reason \in {"resize", "activity"} => job'.want # 0,
             job'.at = "acked" /\ job'.reason = "initial" => job'.want # 0
      PROVE  IInv'
  <2>1. main.at # "off" /\ toClient' \in Seq(Messages)
    BY <1>1, <1>2 DEF Receives, OffIsIdle
  <2>2. UNCHANGED <<main, bridge, stored, tmux, asked, events>>
    BY <1>2 DEF Receives
  <2>3. LoopInReseed' /\ OffIsIdle' /\ SizesKnown'
    BY <1>1, <1>2, <2>1, <2>2 DEF LoopInReseed, OffIsIdle, SizesKnown
  <2> QED
    BY <1>2, <2>1, <2>2, <2>3 DEF IInv, TypeOK, NothingForgotten, Remembered
<1>3. /\ job.own <=> main.at = "in"
      /\ job.own => job.at # "idle"
      /\ job.reason \in {"resize", "activity"} => job.want # 0
      /\ job.at = "acked" /\ job.reason = "initial" => job.want # 0
  BY <1>1 DEF LoopInReseed, SizesKnown
<1>4. CASE ClientReady
  <2> DEFINE b == Reset([browser EXCEPT !.open = TRUE])
  <2>1. b \in Browsers
    <3>1. [browser EXCEPT !.open = TRUE] \in Browsers
      BY <1>1 DEF Browsers
    <3> QED
      BY <3>1, ResetRemembers
  <2>2. Receives({"ready"}) /\ Flush(b, FALSE) /\ job' = job
    BY <1>4 DEF ClientReady
  <2> HIDE DEF b
  <2>3. browser' \in Browsers /\ Remembered(browser') /\ toServer' \in Seq(Requests)
    BY <1>1, <2>1, <2>2, FlushRemembers
  <2> QED
    BY <1>1, <1>2, <1>3, <2>2, <2>3
<1>5. CASE ClientSeedStart
  <2>1. job' \in Jobs /\ job'.own = job.own /\ job'.reason = job.reason
    BY <1>1, <1>5 DEF ClientSeedStart, Jobs, Browsers
  <2>2. job'.want # 0 \/ (job.reason # "initial" /\ job'.want = job.want)
    BY <1>1, <1>5, SizesOfPanes DEF ClientSeedStart, Jobs, Browsers
  <2>3. browser' \in Browsers /\ Remembered(browser') /\ toServer' = toServer
    BY <1>1, <1>5
    DEF ClientSeedStart, Browsers, Remembered, Differs, IInv, NothingForgotten
  <2>4. job'.at = "acked"
    BY <1>1, <1>5 DEF ClientSeedStart, Jobs
  <2> QED
    BY <1>1, <1>2, <1>3, <1>5, <2>1, <2>2, <2>3, <2>4 DEF ClientSeedStart
<1>6. CASE ClientSeedSize
  <2> DEFINE s == Head(toClient).size
             b == [browser EXCEPT !.term = s]
  <2>1. s \in PaneSizes
    BY <1>1, <1>6 DEF ClientSeedSize, Receives, Messages
  <2>2. b \in Browsers
    BY <1>1, <2>1 DEF Browsers
  <2>3. browser' = Acknowledge(b, s) /\ toServer' = toServer
        /\ job' = [job EXCEPT !.at = "shown"]
    BY <1>6 DEF ClientSeedSize
  <2> HIDE DEF s, b
  <2>4. browser' \in Browsers /\ Remembered(browser')
    BY <2>1, <2>2, <2>3, AcknowledgeRemembers
  <2>5. /\ job' \in Jobs /\ job'.own = job.own /\ job'.reason = job.reason
        /\ job'.want = job.want /\ job'.at = "shown"
    BY <1>1, <2>3 DEF Jobs
  <2> QED
    BY <1>1, <1>2, <1>3, <1>6, <2>3, <2>4, <2>5 DEF ClientSeedSize
<1>7. CASE ClientSeedOpen
  <2> DEFINE b == [browser EXCEPT !.seeding = FALSE]
  <2>1. b \in Browsers
    BY <1>1 DEF Browsers
  <2>2. PICK recent \in {FALSE, browser.sent} : Flush(b, recent)
    BY <1>7 DEF ClientSeedOpen
  <2>3. recent \in BOOLEAN
    BY <1>1 DEF Browsers
  <2> HIDE DEF b
  <2>4. browser' \in Browsers /\ Remembered(browser') /\ toServer' \in Seq(Requests)
    BY <1>1, <2>1, <2>2, <2>3, FlushRemembers
  <2> QED
    BY <1>1, <1>2, <1>3, <1>7, <2>4 DEF ClientSeedOpen
<1> QED
  BY <1>4, <1>5, <1>6, <1>7

LEMMA NextKeeps == IInv /\ [Next]_vars => IInv'
<1>1. ASSUME IInv, Next PROVE IInv'
  BY <1>1, LayoutKeeps, OthersKeep, ConnectionKeeps, LoopKeeps, ReseedKeeps,
     MessageKeeps
  DEF Next, Progress, Environment
<1>2. ASSUME IInv, UNCHANGED vars PROVE IInv'
  BY <1>2
  DEF vars, IInv, TypeOK, NothingForgotten, Differs, LoopInReseed, OffIsIdle,
      SizesKnown
<1> QED
  BY <1>1, <1>2

-----------------------------------------------------------------------------
(* The theorems.                                                           *)

LEMMA InvariantHolds == Spec => []IInv
BY Initially, NextKeeps, PTL DEF Spec

\* For any sizes: every size in a message, in the bookkeeping of the browser and
\* of tmux is one; a lost connection leaves no request, message or reseed behind;
\* and set_size is called only with a size that is known (TmuxBridge.reseed,
\* set_size; connect and onclose of the browser).
THEOREM GeometryTypes == Spec => []TypeOK
<1>1. IInv => TypeOK
  BY DEF IInv
<1> QED
  BY <1>1, InvariantHolds, PTL

\* For any sizes, layouts, users, seeds and losses of the connection: a size the
\* layout wants and no seed has shown is pending, and a watchdog runs for it
\* (setDesiredTerminalSize, acknowledgeTerminalSize, flushTerminalResize).
THEOREM SizesNotForgotten == Spec => []NothingForgotten
<1>1. IInv => NothingForgotten
  BY DEF IInv
<1> QED
  BY <1>1, InvariantHolds, PTL
=============================================================================
