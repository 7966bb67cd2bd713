------------------------- MODULE TerminalSeedPipeline -------------------------
(***************************************************************************)
(* The pipeline from the bridge to the screen has no gap, for every set of *)
(* sessions and panes, every bound and every kind of disturbance.          *)
(*                                                                         *)
(* PipelineInvariant is inductive together with TypeOK and HoldInvariant.  *)
(* A step appends one message to the wire, takes its first one, leaves it  *)
(* alone, or starts a new connection; the first section says what each of  *)
(* these does to the positions of messages and to the stream of output.    *)
(*                                                                         *)
(* SelectionInvariant, of the selections that use the same pipeline, is    *)
(* inductive together with these three; the last sections prove it.        *)
(***************************************************************************)
EXTENDS TerminalSeedProofs, SequenceTheorems

-----------------------------------------------------------------------------
(* The wire                                                                *)

Appended(m) ==
    /\ Len(toClient) \in Nat
    /\ Len(toClient') = Len(toClient) + 1
    /\ \A i \in 1..Len(toClient) : toClient'[i] = toClient[i]
    /\ toClient'[Len(toClient) + 1] = m
Popped ==
    /\ Len(toClient) \in Nat /\ Len(toClient') \in Nat
    /\ Len(toClient) = Len(toClient') + 1
    /\ \A i \in 1..Len(toClient') : toClient'[i] = toClient[i + 1]

LEMMA AppendWire ==
    ASSUME TypeOK, NEW m, Send(m)
    PROVE  Appended(m)
<1> DEFINE Any == ServerMessages \cup {m}
<1>1. toClient \in Seq(ServerMessages)
  BY DEF TypeOK, NetTypeOK
<1>2. toClient \in Seq(Any)
  BY <1>1, SeqMonotonic
<1>3. toClient' = Append(toClient, m) /\ m \in Any
  BY DEF Send
<1> HIDE DEF Any
<1> QED
  BY <1>2, <1>3 DEF Appended

LEMMA PopWire ==
    ASSUME TypeOK, toClient # <<>>, toClient' = Tail(toClient)
    PROVE  Popped /\ Head(toClient) = toClient[1] /\ 1 \in 1..Len(toClient)
<1>1. toClient \in Seq(ServerMessages)
  BY DEF TypeOK, NetTypeOK
<1>2. Len(toClient) \in Nat \ {0} /\ Len(Tail(toClient)) = Len(toClient) - 1
  BY <1>1
<1>3. \A i \in 1..Len(toClient') : toClient'[i] = toClient[i + 1]
  BY <1>1
<1> QED
  BY <1>1, <1>2, <1>3 DEF Popped

LEMMA WireElement ==
    ASSUME TypeOK, NEW i \in 1..Len(toClient)
    PROVE  toClient[i] \in ServerMessages
BY DEF TypeOK, NetTypeOK

LEMMA BehindAppend ==
    ASSUME NEW m, Appended(m), NEW T, m.type \in T
    PROVE  \A i \in Nat : Behind(i, T) => Behind(i, T)'
BY DEF Behind, Appended

LEMMA BehindLast ==
    ASSUME NEW m, Appended(m), NEW T
    PROVE  \A i : i = Len(toClient) + 1 => Behind(i, T)'
BY DEF Behind, Appended

LEMMA BehindPop ==
    ASSUME Popped, NEW T
    PROVE  /\ \A i \in Nat : Behind(i + 1, T) => Behind(i, T)'
           /\ Behind(0, T) => Behind(0, T)'
BY DEF Behind, Popped

LEMMA BehindWeaker ==
    ASSUME NEW T, NEW U, T \subseteq U
    PROVE  \A i : Behind(i, T) => Behind(i, U)
BY DEF Behind

LEMMA BehindSame ==
    ASSUME UNCHANGED toClient, NEW T
    PROVE  \A i : Behind(i, T)' <=> Behind(i, T)
BY DEF Behind

LEMMA TypesAppend ==
    ASSUME NEW m, Appended(m), NEW T
    PROVE  /\ \A i : i \in OnTheirWay(T)' <=>
                i \in OnTheirWay(T) \/ (i = Len(toClient) + 1 /\ m.type \in T)
           /\ \A i \in OnTheirWay(T) :
                i \in 1..Len(toClient) /\ toClient'[i] = toClient[i]
           /\ Len(toClient) \in Nat /\ toClient'[Len(toClient) + 1] = m
BY DEF OnTheirWay, Appended

LEMMA OthersAppend ==
    ASSUME NEW m, Appended(m), NEW T, m.type \notin T
    PROVE  OnTheirWay(T)' = OnTheirWay(T)
<1>1. \A i : i \in OnTheirWay(T)' <=> i \in OnTheirWay(T)
  BY TypesAppend
<1> QED
  BY <1>1

LEMMA Positions ==
    ASSUME NEW T, NEW i \in OnTheirWay(T)
    PROVE  i \in Nat /\ i \in 1..Len(toClient) /\ toClient[i].type \in T
BY DEF OnTheirWay

LEMMA TypesPop ==
    ASSUME Popped, NEW T
    PROVE  /\ \A i : i \in OnTheirWay(T)' <=> i \in Nat \ {0} /\ i + 1 \in OnTheirWay(T)
           /\ \A i \in OnTheirWay(T)' : toClient'[i] = toClient[i + 1]
BY DEF OnTheirWay, Popped

LEMMA TypesSame ==
    ASSUME UNCHANGED toClient, NEW T
    PROVE  OnTheirWay(T)' = OnTheirWay(T)
BY DEF OnTheirWay

\* Nothing of some types is on its way if everything is of others.
LEMMA NoneOf ==
    ASSUME NEW T, NEW U, Behind(0, T), T \cap U = {}
    PROVE  OnTheirWay(U) = {}
BY DEF Behind, OnTheirWay

-----------------------------------------------------------------------------
(* The stream of output                                                    *)

\* The offset of an output on its way.
LEMMA OutputStart ==
    ASSUME TypeOK, NEW i \in Outputs
    PROVE  i \in 1..Len(toClient) /\ toClient[i].start \in Nat
           /\ toClient[i].start \in Starts
BY WireElement, MessageFields DEF Outputs, OnTheirWay, Starts

LEMMA StreamOther ==
    ASSUME Outputs' = Outputs, \A i \in Outputs : toClient'[i] = toClient[i],
           Waiting' = Waiting, bridge'.offset = bridge.offset,
           NEW from, Stream(from)
    PROVE  Stream(from)'
<1>1. Starts' = Starts
  BY DEF Starts
<1> QED
  BY <1>1 DEF Stream

LEMMA StreamAppendOther ==
    ASSUME NEW m, Appended(m), m.type # "terminal-output",
           Waiting' = Waiting, bridge'.offset = bridge.offset
    PROVE  \A from : Stream(from) => Stream(from)'
<1>1. \A i : i \in Outputs' <=> i \in Outputs
  BY TypesAppend DEF Outputs
<1>2. \A i \in Outputs : toClient'[i] = toClient[i]
  BY TypesAppend DEF Outputs
<1>3. Outputs' = Outputs
  BY <1>1
<1> QED
  BY <1>2, <1>3, StreamOther

LEMMA StreamSame ==
    ASSUME UNCHANGED toClient, Waiting' = Waiting, bridge'.offset = bridge.offset
    PROVE  \A from : Stream(from) => Stream(from)'
<1>1. Outputs' = Outputs
  BY TypesSame DEF Outputs
<1> QED
  BY <1>1, StreamOther

\* The bytes numbered since are held while nothing is on its way or all of it is
\* older.
LEMMA StreamHolds ==
    ASSUME TypeOK, UNCHANGED toClient,
           Waiting' = Waiting \cup {bridge.offset},
           bridge'.offset = bridge.offset + 1
    PROVE  \A from \in Nat : Stream(from) => Stream(from)'
<1> SUFFICES ASSUME NEW from \in Nat, Stream(from)
             PROVE  Stream(from)'
  OBVIOUS
<1>1. Outputs' = Outputs /\ Starts' = Starts
  BY TypesSame DEF Outputs, Starts
<1>2. bridge.offset \in Nat
  BY BridgeFields
<1>3. Interval(from, bridge.offset + 1) = Interval(from, bridge.offset) \cup {bridge.offset}
  BY <1>2, IntervalGrows DEF Stream
<1>4. \A s \in Starts : s < bridge.offset
  BY <1>2, IntervalElement DEF Stream
<1>5. \A s \in Starts', t \in Waiting' : s < t
  BY <1>1, <1>4 DEF Stream
<1>6. Starts' \cup Waiting' = Interval(from, bridge'.offset)
  BY <1>1, <1>3 DEF Stream
<1>7. \A i, j \in Outputs' : i < j => toClient'[i].start < toClient'[j].start
  BY <1>1 DEF Stream
<1> QED
  BY <1>2, <1>5, <1>6, <1>7 DEF Stream

\* Output is appended that is younger than what is on its way and older than what
\* is left.
LEMMA StreamAppendOutput ==
    ASSUME TypeOK, NEW m, Appended(m), m.type = "terminal-output", m.start \in Nat,
           NEW from, Stream(from), from <= bridge'.offset,
           \A s \in Starts : s < m.start,
           \A t \in Waiting' : m.start < t /\ \A s \in Starts : s < t,
           Starts \cup {m.start} \cup Waiting' = Interval(from, bridge'.offset)
    PROVE  Stream(from)'
<1> DEFINE n == Len(toClient) + 1
<1>1. /\ \A i : i \in Outputs' <=> i \in Outputs \/ i = n
      /\ \A i \in Outputs : i \in 1..Len(toClient) /\ toClient'[i] = toClient[i]
      /\ Len(toClient) \in Nat /\ toClient'[n] = m
  BY TypesAppend DEF Outputs
<1> HIDE DEF n
<1>2. Starts' = Starts \cup {m.start}
  <2>1. \A x : x \in Starts' <=> \E i \in Outputs' : x = toClient'[i].start
    BY DEF Starts
  <2>2. \A x : x \in Starts <=> \E i \in Outputs : x = toClient[i].start
    BY DEF Starts
  <2> QED
    BY <1>1, <2>1, <2>2
<1>3. ASSUME NEW i \in Outputs', NEW j \in Outputs', i < j
      PROVE  toClient'[i].start < toClient'[j].start
  <2>1. i # n
    BY <1>1, <1>3 DEF n
  <2>2. i \in Outputs /\ toClient'[i] = toClient[i] /\ toClient[i].start \in Starts
    BY <1>1, <1>3, <2>1 DEF Starts
  <2>3. CASE j = n
    BY <1>1, <2>2, <2>3
  <2>4. CASE j # n
    BY <1>1, <1>3, <2>2, <2>4 DEF Stream
  <2> QED
    BY <2>3, <2>4
<1>4. \A s \in Starts', t \in Waiting' : s < t
  BY <1>2
<1> QED
  BY <1>2, <1>3, <1>4 DEF Stream

LEMMA StreamPopOther ==
    ASSUME TypeOK, Popped, toClient[1].type # "terminal-output",
           Waiting' = Waiting, bridge'.offset = bridge.offset
    PROVE  \A from : Stream(from) => Stream(from)'
<1>1. /\ \A i : i \in Outputs' <=> i \in Nat \ {0} /\ i + 1 \in Outputs
      /\ \A i \in Outputs' : toClient'[i] = toClient[i + 1]
  BY TypesPop DEF Outputs
<1>2. \A i \in Outputs : i \in 1..Len(toClient) /\ i # 1
  BY DEF Outputs, OnTheirWay
<1>3. ASSUME NEW i \in Outputs
      PROVE  i - 1 \in Outputs' /\ toClient'[i - 1] = toClient[i]
  <2>1. i \in Nat /\ i # 1 /\ i # 0
    BY <1>2 DEF Popped
  <2>2. \A k : k \in Nat \ {0} /\ k + 1 = i =>
               k \in Outputs' /\ toClient'[k] = toClient[i]
    BY <1>1
  <2>3. i - 1 \in Nat \ {0} /\ (i - 1) + 1 = i
    BY <2>1
  <2> QED
    BY <2>2, <2>3
<1>4. \A i \in Outputs' : i + 1 \in Outputs /\ toClient'[i] = toClient[i + 1]
  BY <1>1
<1>5. Starts' = Starts
  BY <1>3, <1>4 DEF Starts
<1>6. \A i, j \in Outputs' : i < j => i + 1 < j + 1
  BY <1>1
<1> QED
  BY <1>4, <1>5, <1>6 DEF Stream

\* The first output of a stream is its first byte.
LEMMA StreamPopOutput ==
    ASSUME TypeOK, Popped, 1 \in Outputs,
           Waiting' = Waiting, bridge'.offset = bridge.offset,
           NEW from \in Nat, Stream(from)
    PROVE  toClient[1].start = from /\ Stream(from + 1)'
<1> DEFINE first == toClient[1].start
<1>1. /\ \A i : i \in Outputs' <=> i \in Nat \ {0} /\ i + 1 \in Outputs
      /\ \A i \in Outputs' : toClient'[i] = toClient[i + 1]
  BY TypesPop DEF Outputs
<1>2. \A i \in Outputs : i \in Nat \ {0} /\ toClient[i].start \in Nat
  BY OutputStart DEF Popped
<1>3. ASSUME NEW i \in Outputs, i # 1
      PROVE  i - 1 \in Outputs' /\ toClient'[i - 1] = toClient[i] /\ 1 < i
  <2>1. i \in Nat /\ i # 0
    BY <1>2
  <2>2. \A k : k \in Nat \ {0} /\ k + 1 = i =>
               k \in Outputs' /\ toClient'[k] = toClient[i]
    BY <1>1
  <2>3. i - 1 \in Nat \ {0} /\ (i - 1) + 1 = i /\ 1 < i
    BY <1>3, <2>1
  <2> QED
    BY <2>2, <2>3
<1>4. \A i \in Outputs' : i + 1 \in Outputs /\ toClient'[i] = toClient[i + 1] /\ 1 < i + 1
  BY <1>1
<1>5. \A i, j \in Outputs' : i < j => i + 1 < j + 1
  BY <1>1
<1>6. /\ first \in Starts /\ first \in Nat
      /\ \A s \in Starts' : s \in Starts /\ first < s
      /\ \A s \in Starts : s = first \/ s \in Starts'
  <2>1. first \in Starts /\ first \in Nat
    BY OutputStart
  <2>2. \A i \in Outputs' : toClient'[i].start \in Starts /\ first < toClient'[i].start
    BY <1>4 DEF Stream, Starts
  <2>3. \A i \in Outputs : toClient[i].start = first \/ toClient[i].start \in Starts'
    BY <1>3 DEF Starts
  <2> QED
    BY <2>1, <2>2, <2>3 DEF Starts
<1> HIDE DEF first
<1>7. bridge.offset \in Nat
  BY BridgeFields
<1>8. \A n : n \in Starts \cup Waiting <=> n \in Nat /\ from <= n /\ n < bridge.offset
  BY <1>7, IntervalElement DEF Stream
<1>9. \A n \in Starts \cup Waiting : first <= n
  BY <1>6, <1>8 DEF Stream
<1>10. first = from
  <2>1. from <= first /\ first < bridge.offset
    BY <1>6, <1>8
  <2>2. from \in Starts \cup Waiting
    BY <1>6, <1>7, <1>8, <2>1
  <2>3. first <= from
    BY <1>9, <2>2
  <2> QED
    BY <1>6, <2>1, <2>3
<1>11. Starts' \cup Waiting' = Interval(from + 1, bridge'.offset)
  <2>1. \A n \in Starts' \cup Waiting : first < n
    BY <1>6 DEF Stream
  <2>2. \A n : n \in Starts' \cup Waiting <=> n \in Starts \cup Waiting /\ n # first
    BY <1>6, <1>8, <2>1
  <2>3. \A n : n \in Interval(from + 1, bridge.offset)
                 <=> n \in Nat /\ from + 1 <= n /\ n < bridge.offset
    BY <1>7, IntervalElement
  <2>4. \A n : n \in Starts' \cup Waiting <=> n \in Interval(from + 1, bridge.offset)
    BY <1>8, <1>10, <2>2, <2>3
  <2> QED
    BY <2>4
<1>12. \A s \in Starts', t \in Waiting' : s < t
  BY <1>6 DEF Stream
<1>13. \A i, j \in Outputs' : i < j => toClient'[i].start < toClient'[j].start
  BY <1>4, <1>5 DEF Stream
<1>14. from + 1 <= bridge'.offset
  BY <1>6, <1>7, <1>8, <1>10
<1> QED
  BY <1>10, <1>11, <1>12, <1>13, <1>14 DEF Stream, first

\* The stream that starts at the cutoff when nothing is on its way.
LEMMA StreamBegins ==
    ASSUME Outputs' = {}, NEW from, from <= bridge'.offset,
           Waiting' = Interval(from, bridge'.offset)
    PROVE  Stream(from)'
BY DEF Stream, Starts

-----------------------------------------------------------------------------
(* Steps that leave the pipeline alone, and the reader                     *)

pipeView ==
    <<connected, sendLock, pending, acks, toClient, job.pc,
      bridge.phase, bridge.hold, bridge.held, bridge.offset,
      bridge.epoch, bridge.pane, bridge.cutoff,
      client.authoritative, client.reseedPending,
      client.epoch, client.pane, client.cutoff, client.revision>>

LEMMA PipelineStutter ==
    ASSUME PipelineInvariant, UNCHANGED pipeView
    PROVE  PipelineInvariant'
<1>1. UNCHANGED <<connected, sendLock, pending, acks, toClient>> /\ job'.pc = job.pc
  BY DEF pipeView
<1>2. /\ bridge'.phase = bridge.phase /\ bridge'.hold = bridge.hold
      /\ bridge'.held = bridge.held /\ bridge'.offset = bridge.offset
      /\ bridge'.epoch = bridge.epoch /\ bridge'.pane = bridge.pane
      /\ bridge'.cutoff = bridge.cutoff
  BY DEF pipeView
<1>3. /\ client'.authoritative = client.authoritative
      /\ client'.reseedPending = client.reseedPending
      /\ client'.epoch = client.epoch /\ client'.pane = client.pane
      /\ client'.cutoff = client.cutoff /\ client'.revision = client.revision
  BY DEF pipeView
<1>4. /\ \A T : OnTheirWay(T)' = OnTheirWay(T)
      /\ \A i, T : Behind(i, T)' <=> Behind(i, T)
      /\ Outputs' = Outputs /\ Breaks' = Breaks
      /\ \A of : Sent(of)' <=> Sent(of)
  BY <1>1, <1>2 DEF OnTheirWay, Behind, Outputs, Breaks, Sent
<1>5. Starts' = Starts /\ Waiting' = Waiting
  BY <1>1, <1>2, <1>4 DEF Starts, Waiting
<1>6. GateClosed' /\ AuthoritySettled' /\ PendingOwned' /\ EpochsPast' /\ AcksAnswer'
  BY <1>1, <1>2, <1>3, <1>4 DEF PipelineInvariant, GateClosed, AuthoritySettled,
    PendingOwned, EpochsPast, AcksAnswer
<1>7. StartStage' /\ CaptureStage' /\ LiveStage'
  BY <1>1, <1>2, <1>4 DEF PipelineInvariant, StartStage, CaptureStage, LiveStage, Live
<1>8. DataStage' /\ FlushStage' /\ SeedShown'
  BY <1>1, <1>2, <1>3, <1>4 DEF PipelineInvariant, DataStage, FlushStage, SeedShown,
    OfSeed
<1>9. InStep'
  BY <1>1, <1>2, <1>3, <1>4, <1>5 DEF PipelineInvariant, InStep, Following,
    OutputsCurrent, Live, OfSeed, Stream
<1> QED
  BY <1>6, <1>7, <1>8, <1>9 DEF PipelineInvariant

LEMMA PipelineInit == Init => PipelineInvariant
<1> SUFFICES ASSUME Init PROVE PipelineInvariant
  OBVIOUS
<1>1. /\ bridge.phase = "hold" /\ bridge.hold = 0 /\ job.pc = "idle"
      /\ sendLock = "free" /\ pending = {} /\ acks = {}
      /\ client.authoritative = FALSE
  BY DEF Init, NewBridge, NoJob
<1>2. PICK s \in Sessions : toClient = <<Ready(s)>>
  BY DEF Init
<1>3. \A i \in 1..Len(toClient) : toClient[i].type = "ready"
  BY <1>2 DEF Ready
<1>4. \A T : "ready" \notin T => OnTheirWay(T) = {}
  BY <1>3 DEF OnTheirWay
<1>5. GateClosed /\ EpochsPast /\ AcksAnswer
  BY <1>1, <1>4 DEF GateClosed, EpochsPast, AcksAnswer, EpochTypes, Sent
<1> QED
  BY <1>1, <1>5 DEF PipelineInvariant, AuthoritySettled, PendingOwned, StartStage,
    CaptureStage, DataStage, FlushStage, LiveStage, SeedShown, InStep, Following, Live

\* Reseeds hold the output and selections do not run then.
LEMMA SeedOffline ==
    ASSUME TypeOK, HoldInvariant, job.pc \notin {"idle", "selectionAck"}
    PROVE  ~Live /\ bridge.phase = "hold" /\ bridge.hold = 0
BY BridgeFields DEF HoldInvariant, LiveEmpty, HoldIsSelections, Live, Bridges

\* The stream follows the browser.
LEMMA InStepClient ==
    ASSUME NEW from, client'.revision = from, Stream(from)', OfSeed(client)',
           OnTheirWay({"seed-resume"})' = {}, OutputsCurrent'
    PROVE  InStep'
BY DEF InStep, Stream

LEMMA LiveQuiet ==
    ASSUME PipelineInvariant, connected, Live
    PROVE  OnTheirWay({"seed-resume"}) = {} /\ OnTheirWay({"post-flush"}) = {}
           /\ Breaks = {}
BY NoneOf DEF PipelineInvariant, LiveStage, Breaks

\* While send_lock is free nothing is pending.
LEMMA FreeLock ==
    ASSUME HoldInvariant, PipelineInvariant, sendLock = "free"
    PROVE  pending = {} /\ job.pc \notin {"flushing", "flushAck"}
           /\ Waiting = bridge.held
BY DEF HoldInvariant, FlushLocked, PipelineInvariant, PendingOwned, Waiting

\* What changes neither the browser's place in the stream nor the bridge's seed.
LEMMA InStepKept ==
    ASSUME TypeOK, InStep, Following' => Following, OutputsCurrent => OutputsCurrent',
           \A from \in Nat : Stream(from) => Stream(from)',
           OnTheirWay({"seed-resume"})' = {} <=> OnTheirWay({"seed-resume"}) = {},
           OfSeed(client) => OfSeed(client)',
           client'.revision = client.revision, bridge'.cutoff = bridge.cutoff
    PROVE  InStep'
<1>1. PICK r, c : r = client.revision /\ c = bridge.cutoff
  OBVIOUS
<1>2. r \in Nat /\ c \in Nat
  BY <1>1, ClientFields, BridgeFields
<1>3. client'.revision = r /\ bridge'.cutoff = c
  BY <1>1
<1>4. (Stream(r) => Stream(r)') /\ (Stream(c) => Stream(c)')
  BY <1>2
<1>5. (Stream(client.revision) <=> Stream(r)) /\ (Stream(bridge.cutoff) <=> Stream(c))
  BY <1>1
<1>6. Stream(r)' => Stream(client.revision)'
  BY <1>3 DEF Stream
<1>7. Stream(c)' => Stream(bridge.cutoff)'
  BY <1>3 DEF Stream
<1> QED
  BY <1>4, <1>5, <1>6, <1>7 DEF InStep

\* A byte is numbered and held.
LEMMA PipelineHoldsByte ==
    ASSUME TypeOK, HoldInvariant, PipelineInvariant, NEW own \in BOOLEAN, Record(own),
           sendLock = "free", bridge.phase = "hold",
           UNCHANGED <<sendLock, pending, job, connected, acks, client>>
    PROVE  PipelineInvariant'
<1>1. /\ bridge'.phase = bridge.phase /\ bridge'.hold = bridge.hold
      /\ bridge'.held = bridge.held \cup {bridge.offset}
      /\ bridge'.offset = bridge.offset + 1
      /\ bridge'.epoch = bridge.epoch /\ bridge'.pane = bridge.pane
      /\ bridge'.cutoff = bridge.cutoff /\ UNCHANGED toClient
  BY BridgeFields DEF Record, HoldsOutput, Bridges
<1>2. /\ \A T : OnTheirWay(T)' = OnTheirWay(T)
      /\ \A i, T : Behind(i, T)' <=> Behind(i, T)
      /\ Outputs' = Outputs /\ Breaks' = Breaks
      /\ \A of : Sent(of)' <=> Sent(of)
  BY <1>1 DEF OnTheirWay, Behind, Outputs, Breaks, Sent
<1>3. GateClosed' /\ AuthoritySettled' /\ PendingOwned' /\ EpochsPast' /\ AcksAnswer'
  BY <1>1, <1>2 DEF PipelineInvariant, GateClosed, AuthoritySettled,
    PendingOwned, EpochsPast, AcksAnswer
<1>4. StartStage' /\ CaptureStage' /\ LiveStage' /\ FlushStage' /\ SeedShown'
  BY <1>1, <1>2 DEF PipelineInvariant, StartStage, CaptureStage, LiveStage, Live,
    FlushStage, SeedShown, OfSeed
<1>5. DataStage'
  BY <1>1, <1>2 DEF PipelineInvariant, DataStage, OfSeed
<1>6. \A from \in Nat : Stream(from) => Stream(from)'
  <2>1. Waiting' = Waiting \cup {bridge.offset}
    BY <1>1 DEF Waiting
  <2> QED
    BY <1>1, <2>1, StreamHolds
<1>7. InStep'
  BY <1>1, <1>2, <1>6, InStepKept DEF PipelineInvariant, Following, Live,
    OutputsCurrent, OfSeed
<1> QED
  BY <1>3, <1>4, <1>5, <1>7 DEF PipelineInvariant

\* A message that may be on its way in any stage does not disturb the stages.
LEMMA EpochsAppend ==
    ASSUME EpochsPast, NEW m, Appended(m), bridge.epoch <= bridge'.epoch,
           TypeOK, bridge'.epoch \in Nat,
           m.type \in EpochTypes => m.epoch <= bridge'.epoch,
           connected' => connected, acks' \subseteq acks
    PROVE  EpochsPast'
<1> SUFFICES ASSUME connected PROVE EpochsPast'
  BY DEF EpochsPast
<1>1. ASSUME NEW i \in OnTheirWay(EpochTypes)' PROVE toClient'[i].epoch <= bridge'.epoch
  <2>1. CASE i = Len(toClient) + 1 /\ m.type \in EpochTypes
    BY <2>1, TypesAppend
  <2>2. CASE i \in OnTheirWay(EpochTypes)
    <3>1. toClient'[i] = toClient[i] /\ i \in 1..Len(toClient)
      BY <2>2, TypesAppend
    <3>2. toClient[i].epoch \in Nat
      BY <2>2, <3>1, WireElement, MessageFields DEF OnTheirWay, EpochTypes
    <3>3. toClient[i].epoch <= bridge.epoch
      BY <2>2 DEF EpochsPast
    <3> QED
      BY <3>1, <3>2, <3>3, BridgeFields
  <2> QED
    BY <2>1, <2>2, TypesAppend
<1>2. ASSUME NEW ack \in acks', ack.of # "selection-check" PROVE ack.id <= bridge'.epoch
  <2>1. ack.id \in Nat
    BY DEF TypeOK, NetTypeOK, Acks
  <2>2. ack.id <= bridge.epoch
    BY <1>2 DEF EpochsPast
  <2> QED
    BY <2>1, <2>2, BridgeFields
<1> QED
  BY <1>1, <1>2 DEF EpochsPast

LEMMA OutputsAppend ==
    ASSUME OutputsCurrent, NEW m, Appended(m),
           bridge'.epoch = bridge.epoch, bridge'.pane = bridge.pane,
           m.type = "terminal-output" => m.epoch = bridge.epoch /\ m.pane = bridge.pane
    PROVE  OutputsCurrent'
<1>1. /\ \A i \in Outputs' : i \in Outputs \/ (i = Len(toClient) + 1 /\ m.type = "terminal-output")
      /\ \A i \in Outputs : toClient'[i] = toClient[i]
      /\ toClient'[Len(toClient) + 1] = m
  BY TypesAppend DEF Outputs
<1> QED
  BY <1>1 DEF OutputsCurrent

LEMMA OutputsPop ==
    ASSUME OutputsCurrent, Popped, UNCHANGED bridge
    PROVE  OutputsCurrent'
BY TypesPop DEF OutputsCurrent, Outputs

LEMMA GateAppend ==
    ASSUME GateClosed, NEW m, Appended(m), m.type # "seed-open",
           connected' => connected, client'.authoritative => client.authoritative,
           (bridge'.phase = "hold" /\ bridge'.hold = 0)
             => (bridge.phase = "hold" /\ bridge.hold = 0)
    PROVE  GateClosed'
<1>1. /\ \A i \in OnTheirWay({"seed-open"})' : i \in OnTheirWay({"seed-open"})
      /\ \A i \in Breaks : i \in Breaks'
  BY TypesAppend DEF Breaks
<1> QED
  BY <1>1 DEF GateClosed

\* One byte of output is sent, live, from a flush or from a release.
LEMMA PipelineSendsByte ==
    ASSUME TypeOK, PipelineInvariant, NEW m, Appended(m), m.type = "terminal-output",
           m.epoch = bridge.epoch, m.pane = bridge.pane,
           \A from \in Nat : Stream(from) => Stream(from)',
           job.pc \in {"idle", "flushing"}, job'.pc = job.pc,
           UNCHANGED <<sendLock, connected, acks, client>>, PendingOwned',
           bridge'.phase = bridge.phase, bridge'.hold = bridge.hold,
           bridge'.epoch = bridge.epoch, bridge'.pane = bridge.pane,
           bridge'.cutoff = bridge.cutoff
    PROVE  PipelineInvariant'
<1> USE DEF PipelineInvariant
<1>1. \A of : Sent(of)' <=> Sent(of)
  BY DEF Sent
<1>2. GateClosed' /\ AuthoritySettled'
  BY GateAppend DEF AuthoritySettled
<1>3. EpochsPast' /\ AcksAnswer'
  BY <1>1, EpochsAppend, BridgeFields DEF AcksAnswer
<1>4. StartStage' /\ CaptureStage' /\ DataStage' /\ SeedShown'
  BY DEF StartStage, CaptureStage, DataStage, SeedShown
<1>5. LiveStage'
  BY BehindAppend DEF LiveStage, Live
<1>6. FlushStage'
  <2> SUFFICES ASSUME connected, job.pc = "flushing" PROVE FlushStage'
    BY DEF FlushStage
  <2>1. Behind(0, {"seed-resume", "terminal-output", "post-flush", "selection-result"})'
    BY BehindAppend DEF FlushStage
  <2>2. ASSUME NEW i \in OnTheirWay({"seed-resume"})'
        PROVE  /\ OfSeed(toClient[i])'
               /\ Behind(i, {"terminal-output", "post-flush", "selection-result"})'
               /\ \A j \in Outputs' : i < j
    <3>1. i \in OnTheirWay({"seed-resume"}) /\ i \in 1..Len(toClient)
          /\ toClient'[i] = toClient[i] /\ Len(toClient) \in Nat
      BY <2>2, TypesAppend
    <3>2. OfSeed(toClient[i])
          /\ Behind(i, {"terminal-output", "post-flush", "selection-result"})
          /\ \A j \in Outputs : i < j
      BY <3>1 DEF FlushStage
    <3>3. Behind(i, {"terminal-output", "post-flush", "selection-result"})'
      <4>1. i \in Nat
        BY <3>1
      <4> QED
        BY <3>2, <4>1, BehindAppend
    <3>4. \A j \in Outputs' : i < j
      BY <3>1, <3>2, TypesAppend DEF Outputs
    <3> QED
      BY <3>1, <3>2, <3>3, <3>4 DEF OfSeed
  <2>3. OnTheirWay({"post-flush"})' = {}
    BY TypesAppend DEF FlushStage
  <2>4. ~Sent("post-flush")'
    BY <1>1 DEF AcksAnswer
  <2> QED
    BY <2>1, <2>2, <2>3, <2>4 DEF FlushStage
<1>7. InStep'
  <2>1. OnTheirWay({"seed-resume"})' = OnTheirWay({"seed-resume"})
    BY OthersAppend
  <2>2. OutputsCurrent => OutputsCurrent'
    BY OutputsAppend
  <2> QED
    BY <2>1, <2>2, InStepKept DEF Following, Live, OfSeed
<1> QED
  BY <1>2, <1>3, <1>4, <1>5, <1>6, <1>7

LEMMA PipelineForwardsByte ==
    ASSUME TypeOK, HoldInvariant, PipelineInvariant, NEW own \in BOOLEAN, Record(own),
           sendLock = "free", bridge.phase = "forward",
           UNCHANGED <<sendLock, pending, job, connected, acks, client>>
    PROVE  PipelineInvariant'
<1> DEFINE m == Output(bridge.epoch, bridge.pane, bridge.offset, "live", own)
<1>1. /\ bridge'.phase = bridge.phase /\ bridge'.hold = bridge.hold
      /\ bridge'.held = bridge.held /\ bridge'.offset = bridge.offset + 1
      /\ bridge'.epoch = bridge.epoch /\ bridge'.pane = bridge.pane
      /\ bridge'.cutoff = bridge.cutoff /\ Send(m)
  BY BridgeFields DEF Record, HoldsOutput, Bridges
<1>2. /\ m.type = "terminal-output" /\ m.start = bridge.offset
      /\ m.epoch = bridge.epoch /\ m.pane = bridge.pane
  BY DEF Output
<1> HIDE DEF m
<1>3. Appended(m)
  BY <1>1, AppendWire
<1>4. bridge.held = {} /\ job.pc = "idle" /\ pending = {}
  BY FreeLock DEF HoldInvariant, LiveEmpty
<1>5. Waiting = {} /\ Waiting' = {}
  BY <1>1, <1>4 DEF Waiting
<1>6. bridge.offset \in Nat
  BY BridgeFields
<1>7. ASSUME NEW from \in Nat, Stream(from) PROVE Stream(from)'
  <2>1. from <= bridge.offset /\ from <= bridge'.offset
    BY <1>1, <1>6, <1>7 DEF Stream
  <2>2. Starts = Interval(from, bridge.offset)
    BY <1>5, <1>7 DEF Stream
  <2>3. Starts \cup {m.start} = Interval(from, bridge'.offset)
    BY <1>1, <1>2, <1>6, <2>1, <2>2, IntervalGrows
  <2>4. \A s \in Starts : s < m.start
    BY <1>2, <1>6, <2>2, IntervalElement
  <2>5. Starts \cup {m.start} \cup Waiting' = Interval(from, bridge'.offset)
    BY <1>5, <2>3
  <2> QED
    BY <1>2, <1>3, <1>5, <1>6, <1>7, <2>1, <2>4, <2>5, StreamAppendOutput
<1>8. PendingOwned'
  BY <1>4 DEF PendingOwned, PipelineInvariant
<1> QED
  BY <1>1, <1>2, <1>3, <1>4, <1>7, <1>8, PipelineSendsByte

LEMMA PipelineReader ==
    ASSUME TypeOK, HoldInvariant, PipelineInvariant, Reader
    PROVE  PipelineInvariant'
<1>1. ASSUME NEW own \in BOOLEAN, Record(own), sendLock = "free",
             UNCHANGED <<sendLock, pending, job, connected, acks, client>>
      PROVE  PipelineInvariant'
  <2>1. bridge.phase = "hold" \/ bridge.phase = "forward"
    BY BridgeFields DEF Bridges
  <2> QED
    BY <1>1, <2>1, PipelineHoldsByte, PipelineForwardsByte
<1>2. ASSUME NEW p \in Panes, ReadOutput(p) PROVE PipelineInvariant'
  <2>1. UNCHANGED <<sendLock, pending, job, connected, acks, client>>
    BY <1>2 DEF ReadOutput, clientVars
  <2>2. CASE Record(TRUE) /\ MayNumber
    BY <1>1, <2>1, <2>2 DEF MayNumber
  <2>3. CASE bridge' = [bridge EXCEPT !.reading = p] /\ UNCHANGED toClient
    BY <2>1, <2>3, BridgeFields, PipelineStutter DEF pipeView, Bridges
  <2>4. CASE UNCHANGED <<bridge, toClient>>
    BY <2>1, <2>4, PipelineStutter DEF pipeView
  <2> QED
    BY <1>2, <2>2, <2>3, <2>4 DEF ReadOutput
<1>3. CASE ResumeReading
  BY <1>1, <1>3 DEF ResumeReading, MayNumber, clientVars
<1> QED
  BY <1>2, <1>3 DEF Reader

LEMMA PipelineSendHeld ==
    ASSUME TypeOK, HoldInvariant, PipelineInvariant, SendHeld
    PROVE  PipelineInvariant'
<1> DEFINE start == Least(pending)
           m == Output(bridge.epoch, bridge.pane, start,
                       IF sendLock = "flush" THEN "postseed" ELSE "selection-held",
                       start \notin bridge.foreign)
<1>1. /\ sendLock \in {"flush", "release"} /\ pending # {}
      /\ Send(m) /\ pending' = pending \ {start}
      /\ UNCHANGED <<connected, bridge, sendLock, job, acks, client>>
  BY DEF SendHeld, clientVars
<1>2. /\ m.type = "terminal-output" /\ m.start = start
      /\ m.epoch = bridge.epoch /\ m.pane = bridge.pane
  BY DEF Output
<1>3. pending \in SUBSET Nat /\ bridge.offset \in Nat
  BY BridgeFields DEF TypeOK, ServerTypeOK
<1>4. start \in pending /\ \A t \in pending : start <= t
  BY <1>1, <1>3, LeastNat
<1> HIDE DEF m, start
<1>5. Appended(m)
  BY <1>1, AppendWire
<1>6. job.pc \in {"idle", "flushing"} /\ bridge.held = {}
  BY <1>1 DEF HoldInvariant, FlushLocked, ReleaseLocked, PipelineInvariant, PendingOwned
<1>7. Waiting = pending /\ Waiting' = pending \ {start}
  BY <1>1, <1>6 DEF Waiting
<1>8. ASSUME NEW from \in Nat, Stream(from) PROVE Stream(from)'
  <2>1. \A s \in Starts, t \in pending : s < t
    BY <1>7, <1>8 DEF Stream
  <2>2. \A t \in pending \ {start} : start < t
    BY <1>3, <1>4
  <2>3. Starts \cup {m.start} \cup Waiting' = Interval(from, bridge'.offset)
    BY <1>1, <1>2, <1>4, <1>7, <1>8 DEF Stream
  <2>4. from <= bridge'.offset
    BY <1>1, <1>8 DEF Stream
  <2>5. /\ \A s \in Starts : s < m.start
        /\ \A t \in Waiting' : m.start < t /\ \A s \in Starts : s < t
    BY <1>2, <1>4, <1>7, <2>1, <2>2
  <2>6. m.start \in Nat
    BY <1>2, <1>3, <1>4
  <2> QED
    BY <1>2, <1>5, <1>8, <2>3, <2>4, <2>5, <2>6, StreamAppendOutput
<1>9. PendingOwned'
  BY <1>1 DEF PendingOwned, PipelineInvariant
<1> QED
  BY <1>1, <1>2, <1>5, <1>6, <1>8, <1>9, PipelineSendsByte

-----------------------------------------------------------------------------
(* Results of selections                                                   *)

\* The result of a selection may be on its way in every stage.
LEMMA PipelineResult ==
    ASSUME TypeOK, PipelineInvariant, NEW m, Appended(m), m.type = "selection-result",
           UNCHANGED <<connected, bridge, sendLock, pending, client>>,
           acks' \subseteq acks, \A of : Sent(of)' => Sent(of),
           job'.pc = job.pc \/ (job.pc = "selectionAck" /\ job'.pc = "idle")
    PROVE  PipelineInvariant'
<1> USE DEF PipelineInvariant
<1>1. \A T : "selection-result" \notin T => OnTheirWay(T)' = OnTheirWay(T)
  BY OthersAppend
<1>2. \A T : "selection-result" \in T => \A i \in Nat : Behind(i, T) => Behind(i, T)'
  BY BehindAppend
<1>3. \A T : \A i \in OnTheirWay(T) : i \in Nat /\ toClient'[i] = toClient[i]
  BY Positions, TypesAppend
<1>4. GateClosed' /\ AuthoritySettled' /\ PendingOwned' /\ EpochsPast' /\ AcksAnswer'
  BY GateAppend, EpochsAppend, BridgeFields DEF AuthoritySettled, PendingOwned,
    AcksAnswer, EpochTypes
<1>5. StartStage'
  BY <1>1, <1>2, <1>3 DEF StartStage, EpochTypes
<1>6. CaptureStage' /\ LiveStage' /\ SeedShown'
  BY <1>2 DEF CaptureStage, LiveStage, Live, SeedShown, OfSeed
<1>7. DataStage'
  BY <1>1, <1>2, <1>3 DEF DataStage, OfSeed
<1>8. FlushStage'
  BY <1>1, <1>2, <1>3 DEF FlushStage, OfSeed, Outputs
<1>9. InStep'
  <2>1. Waiting' = Waiting
    BY DEF Waiting
  <2> QED
    BY <1>1, <2>1, StreamAppendOther, OutputsAppend, InStepKept
      DEF Following, Live, OfSeed
<1> QED
  BY <1>4, <1>5, <1>6, <1>7, <1>8, <1>9

LEMMA AnswerSends ==
    ASSUME TypeOK, NEW id, NEW ok, Answer(id, ok)
    PROVE  Appended(SelectionResult(id, ok))
           /\ SelectionResult(id, ok).type = "selection-result"
BY AppendWire DEF Answer, SelectionResult

LEMMA PipelineAnswer ==
    ASSUME TypeOK, PipelineInvariant,
           RejectSelection \/ SelectionAcked \/ SelectionAckTimeout
    PROVE  PipelineInvariant'
<1>1. CASE RejectSelection
  BY <1>1, AnswerSends, PipelineResult DEF RejectSelection, clientVars, Sent
<1>2. CASE SelectionAcked
  <2>1. PICK ack \in acks, ok \in BOOLEAN :
          acks' = acks \ {ack} /\ Answer(main.id, ok)
    BY <1>2 DEF SelectionAcked
  <2>2. job.pc = "selectionAck" /\ job'.pc = "idle"
        /\ UNCHANGED <<connected, bridge, sendLock, pending, client>>
    BY <1>2 DEF SelectionAcked, At, NoJob, clientVars
  <2>3. acks' \subseteq acks /\ \A of : Sent(of)' => Sent(of)
    BY <2>1, <2>2 DEF Sent
  <2> QED
    BY <2>1, <2>2, <2>3, AnswerSends, PipelineResult
<1>3. CASE SelectionAckTimeout
  BY <1>3, AnswerSends, PipelineResult DEF SelectionAckTimeout, At, NoJob,
    clientVars, Sent
<1> QED
  BY <1>1, <1>2, <1>3

-----------------------------------------------------------------------------
(* Reseeds                                                                 *)

\* No acknowledgement of an epoch to come has arrived.
LEMMA NotYetAcked ==
    ASSUME TypeOK, EpochsPast, connected, NEW of, of # "selection-check"
    PROVE  Ack(of, bridge.epoch + 1, TRUE) \notin acks
<1> SUFFICES ASSUME Ack(of, bridge.epoch + 1, TRUE) \in acks PROVE FALSE
  OBVIOUS
<1>1. bridge.epoch + 1 <= bridge.epoch
  BY DEF EpochsPast, Ack
<1> QED
  BY <1>1, BridgeFields

LEMMA PipelineBegin ==
    ASSUME TypeOK, HoldInvariant, PipelineInvariant, NEW task, NEW reason, NEW next,
           BeginReseed(task, reason, next)
    PROVE  PipelineInvariant'
<1> DEFINE m == SeedStart(bridge.epoch + 1)
<1> USE DEF PipelineInvariant
<1>1. /\ bridge'.hold = 0 /\ bridge'.phase = "hold" /\ bridge'.epoch = bridge.epoch + 1
      /\ job'.pc = "startAck" /\ Send(m) /\ sendLock = "free"
      /\ UNCHANGED <<sendLock, pending, connected, acks, client>>
  BY BridgeFields DEF BeginReseed, NoJob, Bridges, clientVars
<1>2. m.type = "seed-start" /\ m.epoch = bridge.epoch + 1
  BY DEF SeedStart
<1> HIDE DEF m
<1>3. Appended(m)
  BY <1>1, AppendWire
<1>4. bridge.epoch \in Nat /\ bridge'.epoch \in Nat /\ Len(toClient) \in Nat
  BY <1>1, <1>3, BridgeFields DEF Appended
<1>5. GateClosed'
  <2>1. Len(toClient) + 1 \in Breaks'
    BY <1>2, <1>3, TypesAppend DEF Breaks
  <2>2. \A i \in OnTheirWay({"seed-open"})' : i < Len(toClient) + 1
    <3>1. \A i \in OnTheirWay({"seed-open"})' : i \in 1..Len(toClient)
      BY <1>2, <1>3, TypesAppend
    <3> QED
      BY <1>4, <3>1
  <2> QED
    BY <2>1, <2>2 DEF GateClosed
<1>6. AuthoritySettled' /\ PendingOwned'
  BY <1>1, FreeLock DEF AuthoritySettled, PendingOwned
<1>7. EpochsPast'
  <2>1. bridge.epoch <= bridge'.epoch /\ m.epoch <= bridge'.epoch
    BY <1>1, <1>2, <1>4
  <2> QED
    BY <1>1, <1>3, <1>4, <2>1, EpochsAppend
<1>8. ASSUME connected, NEW of, of # "selection-check" PROVE ~Sent(of)'
  BY <1>1, <1>8, NotYetAcked DEF Sent
<1>9. AcksAnswer'
  BY <1>1, <1>8 DEF AcksAnswer
<1>10. StartStage'
  <2> SUFFICES ASSUME connected, NEW i \in OnTheirWay(EpochTypes)',
                      toClient'[i].epoch = bridge'.epoch
               PROVE  /\ toClient'[i].type = "seed-start"
                      /\ Behind(i, {"selection-result"})'
    BY <1>1, <1>8 DEF StartStage
  <2>1. i \notin OnTheirWay(EpochTypes)
    <3> SUFFICES ASSUME i \in OnTheirWay(EpochTypes) PROVE FALSE
      OBVIOUS
    <3>1. toClient'[i] = toClient[i]
      BY <1>3, TypesAppend
    <3>2. toClient[i].epoch <= bridge.epoch
      BY DEF EpochsPast
    <3> QED
      BY <1>1, <1>4, <3>1, <3>2
  <2>2. i = Len(toClient) + 1
    BY <1>3, <2>1, TypesAppend
  <2> QED
    BY <1>2, <1>3, <2>2, TypesAppend, BehindLast
<1>11. ~Live'
  BY <1>1 DEF Live
<1> QED
  BY <1>1, <1>5, <1>6, <1>7, <1>9, <1>10, <1>11 DEF CaptureStage, DataStage,
    FlushStage, LiveStage, SeedShown, InStep, Following

LEMMA PipelineBeginReseed ==
    ASSUME TypeOK, HoldInvariant, PipelineInvariant,
           \/ MainReseed \/ HandleReseedRequest \/ HandleActivity
           \/ WatchReseed \/ Stabilize
    PROVE  PipelineInvariant'
<1>1. CASE MainReseed
  BY <1>1, PipelineBegin DEF MainReseed
<1>2. CASE HandleReseedRequest
  BY <1>2, PipelineBegin DEF HandleReseedRequest
<1>3. CASE HandleActivity
  <2>1. CASE BeginReseed("main", "activity", NoPane)
    BY <2>1, PipelineBegin
  <2>2. CASE UNCHANGED <<serverVars, connected, toClient, acks, clientVars>>
    BY <2>2, PipelineStutter DEF serverVars, clientVars, pipeView
  <2> QED
    BY <1>3, <2>1, <2>2 DEF HandleActivity
<1>4. CASE WatchReseed
  BY <1>4, PipelineBegin DEF WatchReseed
<1>5. CASE Stabilize
  BY <1>5, PipelineBegin DEF Stabilize
<1> QED
  BY <1>1, <1>2, <1>3, <1>4, <1>5

\* The job goes on while nothing of its seed has been sent.
LEMMA PipelineCapture ==
    ASSUME TypeOK, HoldInvariant, PipelineInvariant,
           job.pc \in {"startAck", "capture", "verify"},
           job'.pc \in {"capture", "verify", "linearize"},
           connected => Behind(0, {"selection-result"}),
           UNCHANGED <<bridge, sendLock, pending, connected, toClient, client>>,
           acks' \subseteq acks
    PROVE  PipelineInvariant'
<1> USE DEF PipelineInvariant
<1>1. /\ \A T : OnTheirWay(T)' = OnTheirWay(T)
      /\ \A i, T : Behind(i, T)' <=> Behind(i, T)
      /\ Breaks' = Breaks /\ \A of : Sent(of)' => Sent(of)
  BY DEF OnTheirWay, Behind, Breaks, Sent
<1>2. GateClosed' /\ AuthoritySettled' /\ PendingOwned' /\ EpochsPast' /\ AcksAnswer'
  BY <1>1 DEF GateClosed, AuthoritySettled, PendingOwned, EpochsPast, AcksAnswer
<1>3. CaptureStage'
  BY <1>1 DEF CaptureStage
<1>4. ~Live'
  BY SeedOffline DEF Live
<1> QED
  BY <1>2, <1>3, <1>4 DEF StartStage, DataStage, FlushStage, LiveStage,
    SeedShown, InStep, Following

LEMMA PipelineCaptures ==
    ASSUME TypeOK, HoldInvariant, PipelineInvariant,
           StartAcked \/ TakeSnapshot \/ RetryCapture
    PROVE  PipelineInvariant'
<1>1. /\ job.pc \in {"startAck", "capture", "verify"}
      /\ job'.pc \in {"capture", "verify"}
      /\ UNCHANGED <<bridge, sendLock, pending, connected, toClient, client>>
      /\ acks' \subseteq acks
  BY DEF StartAcked, TakeSnapshot, RetryCapture, At, Goto, Acknowledged,
    netVars, clientVars, TypeOK, ServerTypeOK, Jobs
<1>2. connected => Behind(0, {"selection-result"})
  <2>1. CASE StartAcked
    BY <2>1 DEF StartAcked, At, Acknowledged, PipelineInvariant, StartStage, Sent
  <2>2. CASE TakeSnapshot \/ RetryCapture
    BY <2>2 DEF TakeSnapshot, RetryCapture, At, PipelineInvariant, CaptureStage
  <2> QED
    BY <2>1, <2>2
<1> QED
  BY <1>1, <1>2, PipelineCapture

LEMMA InstallEffect ==
    ASSUME TypeOK, HoldInvariant, NEW exact, Install(bridge.offset, exact)
    PROVE  /\ bridge'.phase = bridge.phase /\ bridge'.hold = bridge.hold
           /\ bridge'.epoch = bridge.epoch /\ bridge'.pane = bridge.pane
           /\ bridge'.cutoff = bridge.offset
           /\ \A s \in bridge'.held : bridge'.cutoff <= s
           /\ job'.pc = "seedAck"
           /\ Appended(SeedData(bridge.epoch, bridge.pane, bridge.offset, job.snap, exact))
<1>1. /\ bridge'.phase = bridge.phase /\ bridge'.hold = bridge.hold
      /\ bridge'.epoch = bridge.epoch /\ bridge'.pane = bridge.pane
      /\ bridge'.cutoff = bridge.offset
      /\ bridge'.held = {s \in bridge.held : s >= bridge.offset}
  BY BridgeFields DEF Install, Bridges
<1>2. bridge.held \in SUBSET Nat /\ bridge.offset \in Nat
  BY BridgeFields
<1>3. job'.pc = "seedAck"
  BY GotoEffect DEF Install
<1>4. Appended(SeedData(bridge.epoch, bridge.pane, bridge.offset, job.snap, exact))
  BY AppendWire DEF Install
<1> QED
  BY <1>1, <1>2, <1>3, <1>4

LEMMA PipelineInstall ==
    ASSUME TypeOK, HoldInvariant, PipelineInvariant, NEW exact,
           Install(bridge.offset, exact), job.pc \in {"verify", "linearize"},
           UNCHANGED <<sendLock, pending, connected, acks, client>>
    PROVE  PipelineInvariant'
<1> DEFINE m == SeedData(bridge.epoch, bridge.pane, bridge.offset, job.snap, exact)
<1> USE DEF PipelineInvariant
<1>1. /\ bridge'.phase = bridge.phase /\ bridge'.hold = bridge.hold
      /\ bridge'.epoch = bridge.epoch /\ bridge'.pane = bridge.pane
      /\ bridge'.cutoff = bridge.offset /\ Appended(m) /\ job'.pc = "seedAck"
      /\ \A s \in bridge'.held : bridge'.cutoff <= s
  BY InstallEffect
<1>2. /\ m.type = "seed-data" /\ m.epoch = bridge.epoch /\ m.pane = bridge.pane
      /\ m.cutoff = bridge.offset
  BY DEF SeedData
<1> HIDE DEF m
<1>3. bridge.epoch \in Nat
  BY BridgeFields
<1>4. GateClosed' /\ AuthoritySettled' /\ PendingOwned'
  BY <1>1, <1>2, GateAppend DEF AuthoritySettled, PendingOwned
<1>5. EpochsPast'
  BY <1>1, <1>2, <1>3, EpochsAppend
<1>6. connected => ~Sent("seed-end") /\ ~Sent("post-flush")
  BY DEF AcksAnswer
<1>7. connected => ~Sent("seed-end")' /\ ~Sent("post-flush")'
  BY <1>1, <1>6 DEF Sent
<1>8. AcksAnswer' /\ SeedShown'
  BY <1>1, <1>7 DEF AcksAnswer, SeedShown
<1>9. DataStage'
  <2> SUFFICES ASSUME connected PROVE DataStage'
    BY DEF DataStage
  <2>1. Behind(0, {"selection-result"})
    BY DEF CaptureStage
  <2>2. Behind(0, {"seed-data", "selection-result"})'
    BY <1>1, <1>2, <2>1, BehindWeaker, BehindAppend
  <2>3. OnTheirWay({"seed-data"}) = {}
    BY <2>1, NoneOf
  <2>4. ASSUME NEW i \in OnTheirWay({"seed-data"})'
        PROVE  OfSeed(toClient[i])' /\ Behind(i, {"selection-result"})'
    <3>1. i = Len(toClient) + 1 /\ toClient'[i] = m
      BY <1>1, <2>3, TypesAppend
    <3> QED
      BY <1>1, <1>2, <3>1, BehindLast DEF OfSeed
  <2> QED
    BY <1>1, <1>7, <2>2, <2>4 DEF DataStage
<1>10. ~Live'
  BY <1>1, SeedOffline DEF Live
<1> QED
  BY <1>1, <1>4, <1>5, <1>8, <1>9, <1>10 DEF StartStage, CaptureStage, FlushStage,
    LiveStage, InStep, Following

\* The seed is given up for a resume of what the browser shows.
LEMMA PipelineResume ==
    ASSUME TypeOK, HoldInvariant, PipelineInvariant,
           job.pc \in {"capture", "verify"}, job.reason \in Resumable,
           bridge' = [bridge EXCEPT !.cutoff = job.resume, !.degraded = TRUE],
           Send(SeedResume(bridge.epoch, bridge.pane, job.resume)), Goto("flush"),
           UNCHANGED <<sendLock, pending, connected, acks, client>>
    PROVE  PipelineInvariant'
<1> DEFINE m == SeedResume(bridge.epoch, bridge.pane, job.resume)
<1> USE DEF PipelineInvariant
<1>1. /\ bridge'.phase = bridge.phase /\ bridge'.hold = bridge.hold
      /\ bridge'.epoch = bridge.epoch /\ bridge'.pane = bridge.pane
      /\ bridge'.cutoff = job.resume /\ bridge'.offset = bridge.offset
      /\ bridge'.held = bridge.held
      /\ job'.pc = "flush"
  BY BridgeFields, GotoEffect DEF Bridges
<1>2. /\ m.type = "seed-resume" /\ m.epoch = bridge.epoch /\ m.pane = bridge.pane
      /\ m.cutoff = job.resume
  BY DEF SeedResume
<1>3. Appended(m)
  BY AppendWire
<1> HIDE DEF m
<1>4. bridge.epoch \in Nat
  BY BridgeFields
<1>5. pending = {}
  BY DEF PendingOwned, HoldInvariant, ReleaseLocked
<1>6. GateClosed' /\ AuthoritySettled' /\ PendingOwned' /\ EpochsPast'
  <2>1. GateClosed' /\ AuthoritySettled'
    BY <1>1, <1>2, <1>3, GateAppend DEF AuthoritySettled
  <2>2. PendingOwned'
    BY <1>5 DEF PendingOwned, HoldInvariant, FlushLocked
  <2>3. EpochsPast'
    BY <1>1, <1>2, <1>3, <1>4, EpochsAppend
  <2> QED
    BY <2>1, <2>2, <2>3
<1>7. connected => ~Sent("post-flush")'
  <2>1. connected => ~Sent("post-flush")
    BY DEF AcksAnswer
  <2> QED
    BY <1>1, <2>1 DEF Sent, Ack
<1>8. AcksAnswer'
  BY <1>1, <1>7 DEF AcksAnswer
<1>9. ~Live'
  BY <1>1, SeedOffline DEF Live
<1>10. ASSUME connected
       PROVE  /\ Outputs' = {} /\ OnTheirWay({"post-flush"})' = {}
              /\ \A i : i \in OnTheirWay({"seed-resume"})' <=> i = Len(toClient) + 1
              /\ toClient'[Len(toClient) + 1] = m
              /\ Behind(0, {"selection-result"})
  <2>1. Behind(0, {"selection-result"})
    BY <1>10 DEF CaptureStage
  <2>2. /\ OnTheirWay({"terminal-output"}) = {} /\ OnTheirWay({"post-flush"}) = {}
        /\ OnTheirWay({"seed-resume"}) = {}
    BY <2>1, NoneOf
  <2>3. Outputs' = {} /\ OnTheirWay({"post-flush"})' = {}
    BY <1>2, <1>3, <2>2, OthersAppend DEF Outputs
  <2>4. /\ \A i : i \in OnTheirWay({"seed-resume"})' <=> i = Len(toClient) + 1
        /\ toClient'[Len(toClient) + 1] = m
    BY <1>2, <1>3, <2>2, TypesAppend
  <2> QED
    BY <2>1, <2>3, <2>4
<1>11. FlushStage'
  <2> SUFFICES ASSUME connected PROVE FlushStage'
    BY DEF FlushStage
  <2>1. Behind(0, {"seed-resume", "terminal-output", "post-flush", "selection-result"})'
    <3>1. Behind(0, {"seed-resume", "terminal-output", "post-flush", "selection-result"})
      BY <1>10 DEF Behind
    <3>2. m.type \in {"seed-resume", "terminal-output", "post-flush", "selection-result"}
      BY <1>2
    <3> QED
      BY <1>3, <3>1, <3>2, BehindAppend
  <2>2. ASSUME NEW i \in OnTheirWay({"seed-resume"})'
        PROVE  /\ OfSeed(toClient[i])'
               /\ Behind(i, {"terminal-output", "post-flush", "selection-result"})'
    <3>1. i = Len(toClient) + 1 /\ toClient'[i] = m
      BY <1>10
    <3> QED
      BY <1>1, <1>2, <1>3, <3>1, BehindLast DEF OfSeed
  <2> QED
    BY <1>7, <1>10, <2>1, <2>2 DEF FlushStage
<1>12. InStep'
  <2> SUFFICES ASSUME connected PROVE InStep'
    BY DEF InStep, Following
  <2>1. PICK c : c = job.resume
    OBVIOUS
  <2>2. /\ c <= bridge.offset
        /\ bridge.held = Interval(c, bridge.offset)
    BY <2>1 DEF HoldInvariant, ResumeHeld
  <2>3. Waiting' = Interval(c, bridge'.offset) /\ c <= bridge'.offset
    BY <1>1, <1>5, <2>2 DEF Waiting
  <2>4. Stream(c)'
    BY <1>10, <2>3, StreamBegins
  <2>5. Stream(bridge.cutoff)'
    BY <1>1, <2>1, <2>4 DEF Stream
  <2>6. OnTheirWay({"seed-resume"})' # {}
    BY <1>10
  <2>7. OutputsCurrent'
    BY <1>10 DEF OutputsCurrent
  <2> QED
    BY <2>5, <2>6, <2>7 DEF InStep
<1> QED
  BY <1>1, <1>6, <1>8, <1>9, <1>11, <1>12 DEF StartStage, CaptureStage, DataStage,
    LiveStage, SeedShown

LEMMA PipelineSeeds ==
    ASSUME TypeOK, HoldInvariant, PipelineInvariant,
           AcceptSnapshot \/ InstallDegraded \/ GiveUp
    PROVE  PipelineInvariant'
<1>1. CASE AcceptSnapshot
  BY <1>1, PipelineInstall DEF AcceptSnapshot, CutoffHeld, At, clientVars
<1>2. CASE InstallDegraded
  BY <1>2, PipelineInstall DEF InstallDegraded, At, clientVars
<1>3. CASE GiveUp
  <2>1. job.pc \in {"capture", "verify"}
        /\ UNCHANGED <<sendLock, pending, connected, acks, client>>
    BY <1>3 DEF GiveUp, clientVars
  <2>2. CASE job.reason \in Resumable
    BY <1>3, <2>1, <2>2, PipelineResume DEF GiveUp
  <2>3. CASE job.reason \notin Resumable
    <3>1. job'.pc = "linearize" /\ UNCHANGED <<bridge, toClient>>
      BY <1>3, <2>3 DEF GiveUp, TypeOK, ServerTypeOK, Jobs
    <3>2. connected => Behind(0, {"selection-result"})
      BY <2>1 DEF PipelineInvariant, CaptureStage
    <3> QED
      BY <2>1, <3>1, <3>2, PipelineCapture
  <2> QED
    BY <2>2, <2>3
<1> QED
  BY <1>1, <1>2, <1>3

\* The seed is acknowledged, and the flush begins.
LEMMA PipelineSeedAcked ==
    ASSUME TypeOK, HoldInvariant, PipelineInvariant, SeedAcked
    PROVE  PipelineInvariant'
<1> USE DEF PipelineInvariant
<1>1. /\ job.pc = "seedAck" /\ job'.pc = "flush"
      /\ UNCHANGED <<bridge, sendLock, pending, connected, toClient, client>>
      /\ acks' \subseteq acks /\ Sent("seed-end")
  BY GotoEffect DEF SeedAcked, At, Acknowledged, Sent, clientVars
<1>2. /\ \A T : OnTheirWay(T)' = OnTheirWay(T)
      /\ \A i, T : Behind(i, T)' <=> Behind(i, T)
      /\ Breaks' = Breaks /\ \A of : Sent(of)' => Sent(of)
      /\ Outputs' = Outputs
  BY <1>1 DEF OnTheirWay, Behind, Breaks, Sent, Outputs
<1>3. pending = {}
  BY <1>1 DEF PendingOwned, HoldInvariant, ReleaseLocked
<1>4. GateClosed' /\ AuthoritySettled' /\ PendingOwned' /\ EpochsPast' /\ AcksAnswer'
  BY <1>1, <1>2 DEF GateClosed, AuthoritySettled, PendingOwned, EpochsPast, AcksAnswer
<1>5. ASSUME connected
      PROVE  /\ Behind(0, {"selection-result"})
             /\ OnTheirWay({"seed-resume"}) = {} /\ OnTheirWay({"post-flush"}) = {}
             /\ Outputs = {}
             /\ OfSeed(client) /\ client.revision = bridge.cutoff
  <2>1. Behind(0, {"selection-result"})
    BY <1>1, <1>5 DEF DataStage
  <2> QED
    BY <1>1, <1>5, <2>1, NoneOf DEF Outputs, SeedShown
<1>6. FlushStage'
  <2> SUFFICES ASSUME connected PROVE FlushStage'
    BY <1>1 DEF FlushStage
  <2>1. Behind(0, {"seed-resume", "terminal-output", "post-flush", "selection-result"})
    BY <1>5, BehindWeaker
  <2> QED
    BY <1>2, <1>5, <2>1 DEF FlushStage
<1>7. InStep'
  <2> SUFFICES ASSUME connected PROVE InStep'
    BY <1>1 DEF InStep, Following
  <2>1. PICK c : c = bridge.cutoff
    OBVIOUS
  <2>2. Waiting' = Interval(c, bridge'.offset) /\ c <= bridge'.offset
    BY <1>1, <1>3, <2>1 DEF HoldInvariant, SeedHeld, Waiting
  <2>3. Stream(c)'
    BY <1>2, <1>5, <2>2, StreamBegins
  <2>4. client'.revision = c /\ OfSeed(client)' /\ OutputsCurrent'
        /\ OnTheirWay({"seed-resume"})' = {}
    BY <1>1, <1>2, <1>5, <2>1 DEF OfSeed, OutputsCurrent
  <2> QED
    BY <2>3, <2>4, InStepClient
<1>8. ~Live'
  BY <1>1, SeedOffline DEF Live
<1> QED
  BY <1>1, <1>4, <1>6, <1>7, <1>8 DEF StartStage, CaptureStage, DataStage,
    LiveStage, SeedShown

LEMMA PipelineBeginFlush ==
    ASSUME TypeOK, HoldInvariant, PipelineInvariant, BeginFlush
    PROVE  PipelineInvariant'
<1> USE DEF PipelineInvariant
<1>1. /\ job.pc = "flush" /\ job'.pc = "flushing" /\ sendLock = "free"
      /\ sendLock' = "flush" /\ pending' = PostSeed
      /\ bridge'.phase = bridge.phase /\ bridge'.hold = bridge.hold
      /\ bridge'.epoch = bridge.epoch /\ bridge'.pane = bridge.pane
      /\ bridge'.cutoff = bridge.cutoff /\ bridge'.offset = bridge.offset
      /\ bridge'.held = {}
      /\ UNCHANGED <<connected, toClient, acks, client>>
  BY BridgeFields, GotoEffect DEF BeginFlush, At, Bridges, netVars, clientVars
<1>2. /\ \A T : OnTheirWay(T)' = OnTheirWay(T)
      /\ \A i, T : Behind(i, T)' <=> Behind(i, T)
      /\ Breaks' = Breaks /\ \A of : Sent(of)' <=> Sent(of)
      /\ Outputs' = Outputs
  BY <1>1 DEF OnTheirWay, Behind, Breaks, Sent, Outputs
<1>3. GateClosed' /\ AuthoritySettled' /\ PendingOwned' /\ EpochsPast' /\ AcksAnswer'
  BY <1>1, <1>2 DEF GateClosed, AuthoritySettled, PendingOwned, EpochsPast, AcksAnswer
<1>4. FlushStage'
  BY <1>1, <1>2 DEF FlushStage, OfSeed
<1>5. Waiting' = Waiting
  <2>1. bridge.held = Interval(bridge.cutoff, bridge.offset)
    BY <1>1 DEF HoldInvariant, SeedHeld
  <2>2. \A s \in bridge.held : s >= bridge.cutoff
    BY <2>1, BridgeFields, IntervalElement
  <2>3. PostSeed = bridge.held
    BY <2>2 DEF PostSeed
  <2> QED
    BY <1>1, <2>3, FreeLock DEF Waiting
<1>6. InStep'
  BY <1>1, <1>2, <1>5, StreamSame, InStepKept
    DEF Following, Live, OfSeed, OutputsCurrent
<1>7. ~Live'
  BY <1>1, SeedOffline DEF Live
<1> QED
  BY <1>1, <1>3, <1>4, <1>6, <1>7 DEF StartStage, CaptureStage, DataStage,
    LiveStage, SeedShown

LEMMA PipelineEndFlush ==
    ASSUME TypeOK, HoldInvariant, PipelineInvariant, EndFlush
    PROVE  PipelineInvariant'
<1> DEFINE m == PostFlush(bridge.epoch)
<1> USE DEF PipelineInvariant
<1>1. /\ job.pc = "flushing" /\ job'.pc = "flushAck" /\ pending = {} /\ Send(m)
      /\ UNCHANGED <<bridge, sendLock, pending, connected, acks, client>>
  BY GotoEffect DEF EndFlush, At, clientVars
<1>2. m.type = "post-flush" /\ m.epoch = bridge.epoch
  BY DEF PostFlush
<1> HIDE DEF m
<1>3. Appended(m)
  BY <1>1, AppendWire
<1>4. \A of : Sent(of)' <=> Sent(of)
  BY <1>1 DEF Sent
<1>5. GateClosed' /\ AuthoritySettled' /\ PendingOwned' /\ EpochsPast' /\ AcksAnswer'
  BY <1>1, <1>2, <1>3, <1>4, GateAppend, EpochsAppend, BridgeFields
    DEF AuthoritySettled, PendingOwned, AcksAnswer
<1>6. FlushStage'
  <2> SUFFICES ASSUME connected PROVE FlushStage'
    BY <1>1 DEF FlushStage
  <2>1. Behind(0, {"seed-resume", "terminal-output", "post-flush", "selection-result"})'
    BY <1>1, <1>2, <1>3, BehindAppend DEF FlushStage
  <2>2. /\ OnTheirWay({"seed-resume"})' = OnTheirWay({"seed-resume"})
        /\ Outputs' = Outputs
    BY <1>2, <1>3, OthersAppend DEF Outputs
  <2>3. ASSUME NEW i \in OnTheirWay({"seed-resume"})'
        PROVE  /\ OfSeed(toClient[i])'
               /\ Behind(i, {"terminal-output", "post-flush", "selection-result"})'
               /\ \A j \in Outputs' : i < j
    <3>1. i \in OnTheirWay({"seed-resume"})
      BY <2>2
    <3>2. i \in Nat /\ toClient'[i] = toClient[i]
      BY <1>3, <3>1, Positions, TypesAppend
    <3>3. OfSeed(toClient[i])
          /\ Behind(i, {"terminal-output", "post-flush", "selection-result"})
          /\ \A j \in Outputs : i < j
      BY <1>1, <3>1 DEF FlushStage
    <3>4. Behind(i, {"terminal-output", "post-flush", "selection-result"})'
      BY <1>2, <1>3, <3>2, <3>3, BehindAppend
    <3> QED
      BY <1>1, <2>2, <3>2, <3>3, <3>4 DEF OfSeed
  <2>4. ASSUME NEW i \in OnTheirWay({"post-flush"})'
        PROVE  Behind(i, {"selection-result"})'
    <3>1. i = Len(toClient) + 1
      BY <1>1, <1>3, TypesAppend DEF FlushStage
    <3> QED
      BY <1>3, <3>1, BehindLast
  <2>5. ~Sent("post-flush")'
    BY <1>1, <1>4 DEF AcksAnswer
  <2> QED
    BY <1>1, <2>1, <2>3, <2>4, <2>5 DEF FlushStage
<1>7. InStep'
  <2>1. OnTheirWay({"seed-resume"})' = OnTheirWay({"seed-resume"}) /\ Waiting' = Waiting
    BY <1>1, <1>2, <1>3, OthersAppend DEF Waiting
  <2> QED
    BY <1>1, <1>2, <1>3, <2>1, StreamAppendOther, OutputsAppend, InStepKept
      DEF Following, Live, OfSeed
<1>8. ~Live'
  BY <1>1, SeedOffline DEF Live
<1> QED
  BY <1>1, <1>5, <1>6, <1>7, <1>8 DEF StartStage, CaptureStage, DataStage,
    LiveStage, SeedShown

LEMMA PipelineFlushAcked ==
    ASSUME TypeOK, HoldInvariant, PipelineInvariant, FlushAcked
    PROVE  PipelineInvariant'
<1> DEFINE m == SeedOpen(bridge.epoch, bridge.pane, bridge.cutoff)
<1> USE DEF PipelineInvariant
<1>1. /\ job.pc = "flushAck" /\ job'.pc = "idle" /\ Send(m) /\ sendLock' = "free"
      /\ bridge'.phase = "forward" /\ bridge'.hold = bridge.hold
      /\ bridge'.epoch = bridge.epoch /\ bridge'.pane = bridge.pane
      /\ bridge'.cutoff = bridge.cutoff /\ bridge'.offset = bridge.offset
      /\ bridge'.held = bridge.held
      /\ UNCHANGED <<pending, connected, client>>
      /\ acks' \subseteq acks /\ Sent("post-flush")
  BY BridgeFields DEF FlushAcked, At, Acknowledged, Sent, NoJob, Bridges, clientVars
<1>2. m.type = "seed-open" /\ m.epoch = bridge.epoch
  BY DEF SeedOpen
<1> HIDE DEF m
<1>3. Appended(m)
  BY <1>1, AppendWire
<1>4. pending = {}
  BY <1>1 DEF PendingOwned, HoldInvariant, FlushLocked
<1>5. GateClosed' /\ AuthoritySettled' /\ PendingOwned' /\ AcksAnswer'
  BY <1>1, <1>4 DEF GateClosed, AuthoritySettled, PendingOwned, AcksAnswer
<1>6. EpochsPast'
  BY <1>1, <1>2, <1>3, EpochsAppend, BridgeFields
<1>7. connected => Behind(0, {"selection-result"})
  BY <1>1 DEF FlushStage
<1>8. LiveStage'
  <2>1. connected => Behind(0, {"terminal-output", "seed-open", "selection-check",
                                "selection-result"})
    BY <1>7, BehindWeaker
  <2> QED
    BY <1>1, <1>2, <1>3, <2>1, BehindAppend DEF LiveStage
<1>9. InStep'
  <2>1. OnTheirWay({"seed-resume"})' = OnTheirWay({"seed-resume"}) /\ Waiting' = Waiting
    BY <1>1, <1>2, <1>3, OthersAppend DEF Waiting
  <2> QED
    BY <1>1, <1>2, <1>3, <2>1, StreamAppendOther, OutputsAppend, InStepKept
      DEF Following, Live, OfSeed
<1> QED
  BY <1>1, <1>5, <1>6, <1>8, <1>9 DEF StartStage, CaptureStage, DataStage,
    FlushStage, SeedShown

-----------------------------------------------------------------------------
(* Selections and send_lock                                                *)

LEMMA PipelineHold ==
    ASSUME TypeOK, HoldInvariant, PipelineInvariant, HoldForSelection
    PROVE  PipelineInvariant'
<1> DEFINE m == SelectionCheck(Head(requests).id)
<1> USE DEF PipelineInvariant
<1>1. /\ job'.pc = "selectionAck" /\ Send(m) /\ sendLock = "free"
      /\ bridge.phase = "forward"
      /\ bridge'.phase = "hold" /\ bridge'.hold = Head(requests).id
      /\ bridge'.epoch = bridge.epoch /\ bridge'.pane = bridge.pane
      /\ bridge'.cutoff = bridge.cutoff /\ bridge'.offset = bridge.offset
      /\ bridge'.held = {}
      /\ UNCHANGED <<sendLock, pending, connected, acks, client>>
  BY BridgeFields DEF HoldForSelection, SelectionLocksFree, Selectable, NoJob, Bridges,
    clientVars
<1>2. Head(requests).id # 0
  BY NextRequestType, RequestFields DEF HoldForSelection
<1>3. m.type = "selection-check"
  BY DEF SelectionCheck
<1> HIDE DEF m
<1>4. Appended(m)
  BY <1>1, AppendWire
<1>5. bridge.held = {} /\ pending = {}
  BY <1>1, FreeLock DEF HoldInvariant, LiveEmpty
<1>6. GateClosed' /\ AuthoritySettled' /\ PendingOwned' /\ AcksAnswer'
  BY <1>1, <1>2, <1>5 DEF GateClosed, AuthoritySettled, PendingOwned, AcksAnswer
<1>7. EpochsPast'
  BY <1>1, <1>3, <1>4, EpochsAppend, BridgeFields DEF EpochTypes
<1>8. LiveStage'
  BY <1>1, <1>3, <1>4, BehindAppend DEF LiveStage, Live
<1>9. InStep'
  <2>1. OnTheirWay({"seed-resume"})' = OnTheirWay({"seed-resume"}) /\ Waiting' = Waiting
    BY <1>1, <1>3, <1>4, <1>5, OthersAppend DEF Waiting
  <2>2. Following' => Following
    BY <1>1 DEF Following, Live
  <2> QED
    BY <1>1, <1>3, <1>4, <2>1, <2>2, StreamAppendOther, OutputsAppend, InStepKept
      DEF OfSeed
<1> QED
  BY <1>1, <1>6, <1>7, <1>8, <1>9 DEF StartStage, CaptureStage, DataStage,
    FlushStage, SeedShown

\* Steps that only move waiting output, or the lock.
LEMMA PipelineLock ==
    ASSUME TypeOK, HoldInvariant, PipelineInvariant,
           UNCHANGED <<connected, toClient, acks, client>>, job'.pc = job.pc,
           bridge'.epoch = bridge.epoch, bridge'.pane = bridge.pane,
           bridge'.cutoff = bridge.cutoff, bridge'.offset = bridge.offset,
           Waiting' = Waiting, PendingOwned',
           \/ bridge'.phase = bridge.phase /\ bridge'.hold = bridge.hold
           \/ bridge'.phase = "forward" /\ Live
    PROVE  PipelineInvariant'
<1> USE DEF PipelineInvariant
<1>1. /\ \A T : OnTheirWay(T)' = OnTheirWay(T)
      /\ \A i, T : Behind(i, T)' <=> Behind(i, T)
      /\ Breaks' = Breaks /\ \A of : Sent(of)' <=> Sent(of)
      /\ Outputs' = Outputs
  BY DEF OnTheirWay, Behind, Breaks, Sent, Outputs
<1>2. GateClosed' /\ AuthoritySettled' /\ EpochsPast' /\ AcksAnswer'
  BY <1>1 DEF GateClosed, AuthoritySettled, EpochsPast, AcksAnswer
<1>3. StartStage' /\ CaptureStage' /\ DataStage' /\ FlushStage' /\ SeedShown'
  BY <1>1 DEF StartStage, CaptureStage, DataStage, FlushStage, SeedShown, OfSeed
<1>4. LiveStage'
  BY <1>1 DEF LiveStage, Live
<1>5. InStep'
  BY <1>1, StreamSame, InStepKept DEF Following, Live, OfSeed, OutputsCurrent
<1> QED
  BY <1>2, <1>3, <1>4, <1>5

LEMMA PipelineLocks ==
    ASSUME TypeOK, HoldInvariant, PipelineInvariant,
           BeginRelease \/ EndRelease \/ BeginSpeech \/ EndSpeech
    PROVE  PipelineInvariant'
<1>1. CASE BeginRelease
  <2>1. /\ sendLock = "free" /\ main.at = "release"
        /\ UNCHANGED <<connected, toClient, acks, client, job>>
    BY <1>1 DEF BeginRelease, MayRelease, netVars, clientVars
  <2>2. CASE UNCHANGED <<bridge, sendLock, pending>>
    BY <2>1, <2>2, PipelineStutter DEF pipeView
  <2>3. CASE /\ sendLock' = "release" /\ pending' = bridge.held
             /\ bridge' = [bridge EXCEPT !.held = {}] /\ bridge.hold = main.id
    <3>1. /\ bridge'.epoch = bridge.epoch /\ bridge'.pane = bridge.pane
          /\ bridge'.cutoff = bridge.cutoff /\ bridge'.offset = bridge.offset
          /\ bridge'.phase = bridge.phase /\ bridge'.hold = bridge.hold
          /\ bridge'.held = {}
      BY <2>3, BridgeFields DEF Bridges
    <3>2. Waiting' = Waiting
      BY <2>1, <2>3, <3>1, FreeLock DEF Waiting
    <3>3. PendingOwned'
      BY <2>1, <2>3, <3>1 DEF PendingOwned, HoldInvariant, HoldIsSelections
    <3> QED
      BY <2>1, <3>1, <3>2, <3>3, PipelineLock
  <2> QED
    BY <1>1, <2>2, <2>3 DEF BeginRelease
<1>2. CASE EndRelease
  <2>1. /\ sendLock = "release" /\ sendLock' = "free" /\ pending = {}
        /\ UNCHANGED <<connected, toClient, acks, client, job, pending>>
        /\ bridge'.epoch = bridge.epoch /\ bridge'.pane = bridge.pane
        /\ bridge'.cutoff = bridge.cutoff /\ bridge'.offset = bridge.offset
        /\ bridge'.phase = "forward" /\ bridge'.held = bridge.held
    BY <1>2, BridgeFields DEF EndRelease, netVars, clientVars, Bridges
  <2>2. Live
    BY <2>1 DEF PipelineInvariant, PendingOwned, Live
  <2>3. Waiting' = Waiting /\ PendingOwned'
    BY <2>1 DEF Waiting, PendingOwned
  <2> QED
    BY <2>1, <2>2, <2>3, PipelineLock
<1>3. CASE BeginSpeech \/ EndSpeech
  <2>1. /\ sendLock \in {"free", "speech"} /\ sendLock' \in {"free", "speech"}
        /\ UNCHANGED <<connected, toClient, acks, client, job, pending, bridge>>
    BY <1>3 DEF BeginSpeech, EndSpeech, netVars, clientVars
  <2>2. Waiting' = Waiting /\ PendingOwned'
    BY <2>1 DEF Waiting, PendingOwned, PipelineInvariant
  <2> QED
    BY <2>1, <2>2, PipelineLock
<1> QED
  BY <1>1, <1>2, <1>3

-----------------------------------------------------------------------------
(* Connections                                                             *)

LEMMA PipelineClosed ==
    ASSUME ~connected', AuthoritySettled', PendingOwned'
    PROVE  PipelineInvariant'
BY DEF PipelineInvariant, GateClosed, EpochsPast, AcksAnswer, StartStage,
       CaptureStage, DataStage, FlushStage, LiveStage, SeedShown, InStep, Following

LEMMA PipelineParked ==
    ASSUME job'.pc = "idle", ~Live', GateClosed', AuthoritySettled', PendingOwned',
           EpochsPast'
    PROVE  PipelineInvariant'
BY DEF PipelineInvariant, AcksAnswer, StartStage, CaptureStage, DataStage,
       FlushStage, LiveStage, SeedShown, InStep, Following

LEMMA ClosePipeline ==
    ASSUME TypeOK, PipelineInvariant, CloseConnection, UNCHANGED client
    PROVE  PipelineInvariant'
BY PipelineClosed DEF CloseConnection, PipelineInvariant, AuthoritySettled, PendingOwned

\* A new connection: only a ready message is on its way.
LEMMA ConnectPipeline ==
    ASSUME TypeOK, Connect
    PROVE  PipelineInvariant'
<1>1. /\ bridge'.phase = "hold" /\ bridge'.hold = 0 /\ job'.pc = "idle"
      /\ sendLock' = "free" /\ pending' = {} /\ acks' = {}
      /\ client'.authoritative = FALSE
      /\ toClient' = <<Ready(client.selected)>>
  BY ClientFields DEF Connect, NewBridge, NoJob, Clients
<1>2. \A i \in 1..Len(toClient') : toClient'[i].type = "ready"
  BY <1>1 DEF Ready
<1>3. \A T : "ready" \notin T => OnTheirWay(T)' = {}
  BY <1>2 DEF OnTheirWay
<1>4. GateClosed' /\ EpochsPast'
  BY <1>1, <1>3 DEF GateClosed, EpochsPast, EpochTypes
<1> QED
  BY <1>1, <1>4, PipelineParked DEF AuthoritySettled, PendingOwned, Live

LEMMA PipelineSwitch ==
    ASSUME TypeOK, HoldInvariant, PipelineInvariant, HandleSwitch
    PROVE  PipelineInvariant'
<1> DEFINE m == Ready(Head(requests).session)
<1> USE DEF PipelineInvariant
<1>1. CASE UNCHANGED <<serverVars, connected, toClient, acks>>
  BY <1>1, PipelineStutter DEF HandleSwitch, serverVars, clientVars, pipeView
<1>2. CASE ~UNCHANGED <<serverVars, connected, toClient, acks>>
  <2>1. /\ bridge'.phase = "hold" /\ bridge'.hold = 0 /\ bridge'.epoch = bridge.epoch
        /\ job'.pc = "idle" /\ sendLock' = "free" /\ pending' = {} /\ Send(m)
        /\ UNCHANGED <<connected, acks, client>>
    BY <1>2 DEF HandleSwitch, NewBridge, NoJob, clientVars
  <2>2. m.type = "ready"
    BY DEF Ready
  <2> HIDE DEF m
  <2>3. Appended(m) /\ Len(toClient) \in Nat
    BY <2>1, AppendWire DEF Appended
  <2>4. Len(toClient) + 1 \in Breaks'
    BY <2>2, <2>3, TypesAppend DEF Breaks
  <2>5. \A i \in OnTheirWay({"seed-open"})' : i < Len(toClient) + 1
    <3>1. \A i \in OnTheirWay({"seed-open"})' : i \in 1..Len(toClient)
      BY <2>2, <2>3, TypesAppend
    <3> QED
      BY <2>3, <3>1
  <2>6. GateClosed'
    BY <2>4, <2>5 DEF GateClosed
  <2>7. EpochsPast'
    BY <2>1, <2>2, <2>3, EpochsAppend, BridgeFields DEF EpochTypes
  <2> QED
    BY <2>1, <2>6, <2>7, PipelineParked DEF AuthoritySettled, PendingOwned, Live
<1> QED
  BY <1>1, <1>2

LEMMA PipelineConnection ==
    ASSUME TypeOK, HoldInvariant, PipelineInvariant,
           StartAckTimeout \/ JobFails \/ Drop \/ Reconnect
    PROVE  PipelineInvariant'
<1>1. CASE StartAckTimeout \/ Drop
  BY <1>1, ClosePipeline DEF StartAckTimeout, Drop, clientVars
<1>2. CASE Reconnect
  BY <1>2, ConnectPipeline DEF Reconnect
<1>3. CASE JobFails
  <2>1. CASE CloseConnection
    BY <1>3, <2>1, ClosePipeline DEF JobFails, clientVars
  <2>2. CASE ~CloseConnection
    <3> USE DEF PipelineInvariant
    <3>1. /\ job.pc \in {"capture", "linearize", "seedAck", "flushAck"}
          /\ job'.pc = "idle"
          /\ sendLock' = IF job.pc = "flushAck" THEN "free" ELSE sendLock
          /\ UNCHANGED <<bridge, pending, connected, acks, toClient, client>>
      BY <1>3, <2>2 DEF JobFails, NoJob, clientVars
    <3>2. pending = {} /\ sendLock # "release"
      BY <3>1 DEF PendingOwned, HoldInvariant, ReleaseLocked
    <3>3. PendingOwned' /\ AuthoritySettled'
      BY <3>1, <3>2 DEF PendingOwned, AuthoritySettled
    <3>4. ~Live'
      BY <3>1, SeedOffline DEF Live
    <3>5. \A T : OnTheirWay(T)' = OnTheirWay(T)
      BY <3>1 DEF OnTheirWay
    <3>6. GateClosed' /\ EpochsPast'
      BY <3>1, <3>5 DEF GateClosed, EpochsPast, Breaks
    <3> QED
      BY <3>1, <3>3, <3>4, <3>6, PipelineParked
  <2> QED
    BY <2>1, <2>2
<1> QED
  BY <1>1, <1>2, <1>3

-----------------------------------------------------------------------------
(* The browser                                                             *)

\* A step of its user, its layout or its timers.
LEMMA PipelineAsks ==
    ASSUME TypeOK, PipelineInvariant,
           UNCHANGED <<serverVars, connected, toClient, acks>>,
           client'.epoch = client.epoch, client'.pane = client.pane,
           client'.cutoff = client.cutoff, client'.revision = client.revision,
           client'.authoritative => client.authoritative,
           client.reseedPending => client'.reseedPending, AuthoritySettled'
    PROVE  PipelineInvariant'
<1> USE DEF PipelineInvariant
<1>1. UNCHANGED <<bridge, sendLock, pending, job>>
  BY DEF serverVars
<1>2. /\ \A T : OnTheirWay(T)' = OnTheirWay(T)
      /\ \A i, T : Behind(i, T)' <=> Behind(i, T)
      /\ Breaks' = Breaks /\ \A of : Sent(of)' <=> Sent(of)
      /\ Outputs' = Outputs /\ Waiting' = Waiting
  BY <1>1 DEF OnTheirWay, Behind, Breaks, Sent, Outputs, Waiting
<1>3. GateClosed' /\ PendingOwned' /\ EpochsPast' /\ AcksAnswer'
  BY <1>1, <1>2 DEF GateClosed, PendingOwned, EpochsPast, AcksAnswer
<1>4. StartStage' /\ CaptureStage' /\ DataStage' /\ FlushStage' /\ SeedShown'
  BY <1>1, <1>2 DEF StartStage, CaptureStage, DataStage, FlushStage, SeedShown, OfSeed
<1>5. LiveStage'
  BY <1>1, <1>2 DEF LiveStage, Live
<1>6. InStep'
  <2>1. (Following' => Following) /\ (OutputsCurrent => OutputsCurrent')
    BY <1>1, <1>2 DEF Following, Live, OutputsCurrent
  <2>2. \A from \in Nat : Stream(from) => Stream(from)'
    BY <1>1, <1>2, StreamSame
  <2>3. (OfSeed(client) => OfSeed(client)') /\ bridge'.cutoff = bridge.cutoff
    BY <1>1 DEF OfSeed
  <2> QED
    BY <1>2, <2>1, <2>2, <2>3, InStepKept
<1> QED
  BY <1>3, <1>4, <1>5, <1>6

LEMMA PipelineUser ==
    ASSUME TypeOK, PipelineInvariant,
           \/ WatchdogWhenStuck \/ SlowWatchdog \/ ClientBacklog \/ ClientRequest
           \/ ClientSelect \/ ClientSelectionTimeout \/ ClientSwitch
    PROVE  PipelineInvariant'
<1>1. UNCHANGED <<serverVars, connected, toClient, acks>>
  BY DEF WatchdogWhenStuck, SlowWatchdog, RecoveryWatchdog, ClientBacklog,
    ClientRequest, ClientSelect, ClientSelectionTimeout, ClientSwitch, netVars
<1>2. /\ client'.epoch = client.epoch /\ client'.pane = client.pane
      /\ client'.cutoff = client.cutoff /\ client'.revision = client.revision
      /\ client'.authoritative => client.authoritative
      /\ client.reseedPending => client'.reseedPending
      /\ client'.reseedPending => client.reseedPending \/ ~client'.authoritative
  <2> USE ClientFields DEF Clients
  <2>1. CASE \E arrived : RecoveryReseed(arrived)
    BY <2>1 DEF RecoveryReseed
  <2>2. CASE ClientRequest
    BY <2>2 DEF ClientRequest, clientVars
  <2>3. CASE ClientSelect \/ ClientSelectionTimeout
    BY <2>3 DEF ClientSelect, ClientSelectionTimeout
  <2>4. CASE ClientSwitch
    BY <2>4 DEF ClientSwitch
  <2> QED
    BY <2>1, <2>2, <2>3, <2>4 DEF WatchdogWhenStuck, SlowWatchdog, RecoveryWatchdog,
      ClientBacklog
<1>3. AuthoritySettled'
  BY <1>2 DEF PipelineInvariant, AuthoritySettled
<1> QED
  BY <1>1, <1>2, <1>3, PipelineAsks

\* What the browser answers to the message it handles.
Replied(head) ==
    \/ acks' = acks
    \/ head.type = "seed-start" /\ acks' = acks \cup {Ack("seed-start", head.epoch, TRUE)}
    \/ head.type = "seed-data" /\ acks' = acks \cup {Ack("seed-end", head.epoch, TRUE)}
    \/ head.type = "post-flush" /\ acks' = acks \cup {Ack("post-flush", head.epoch, TRUE)}
    \/ head.type = "selection-check"
         /\ \E ok \in BOOLEAN : acks' = acks \cup {Ack("selection-check", head.id, ok)}

LEMMA RepliesSent ==
    ASSUME NEW head, Replied(head), UNCHANGED bridge
    PROVE  /\ Sent("seed-start")' => \/ Sent("seed-start")
                                     \/ head.type = "seed-start" /\ head.epoch = bridge.epoch
           /\ Sent("seed-end")' => \/ Sent("seed-end")
                                   \/ head.type = "seed-data" /\ head.epoch = bridge.epoch
           /\ Sent("post-flush")' => \/ Sent("post-flush")
                                     \/ head.type = "post-flush" /\ head.epoch = bridge.epoch
           /\ \A ack \in acks' : \/ ack \in acks \/ ack.of = "selection-check"
                                 \/ head.type \in EpochTypes /\ ack.id = head.epoch
<1>1. CASE acks' = acks
  BY <1>1 DEF Sent
<1>2. CASE head.type = "seed-start" /\ acks' = acks \cup {Ack("seed-start", head.epoch, TRUE)}
  BY <1>2 DEF Sent, Ack, EpochTypes
<1>3. CASE head.type = "seed-data" /\ acks' = acks \cup {Ack("seed-end", head.epoch, TRUE)}
  BY <1>3 DEF Sent, Ack, EpochTypes
<1>4. CASE head.type = "post-flush" /\ acks' = acks \cup {Ack("post-flush", head.epoch, TRUE)}
  BY <1>4 DEF Sent, Ack, EpochTypes
<1>5. ASSUME NEW ok \in BOOLEAN,
             acks' = acks \cup {Ack("selection-check", head.id, ok)}
      PROVE  /\ \A of : Sent(of)' => Sent(of) \/ of = "selection-check"
             /\ \A ack \in acks' : ack \in acks \/ ack.of = "selection-check"
  BY <1>5 DEF Sent, Ack
<1> QED
  BY <1>1, <1>2, <1>3, <1>4, <1>5 DEF Replied

\* The browser handles the first message on its way.
LEMMA PopStages ==
    ASSUME TypeOK, HoldInvariant, PipelineInvariant, connected, Popped,
           1 \in 1..Len(toClient), Replied(toClient[1]),
           UNCHANGED <<serverVars, connected>>,
           client'.authoritative =>
               \/ client.authoritative /\ toClient[1].type \notin {"seed-start", "ready"}
               \/ toClient[1].type = "seed-open"
    PROVE  /\ GateClosed' /\ PendingOwned' /\ EpochsPast' /\ AcksAnswer'
           /\ StartStage' /\ CaptureStage' /\ DataStage' /\ FlushStage' /\ LiveStage'
<1> DEFINE head == toClient[1]
<1> USE DEF PipelineInvariant
<1>1. UNCHANGED <<bridge, sendLock, pending, job>>
  BY DEF serverVars
<1>2. PendingOwned'
  BY <1>1 DEF PendingOwned
<1>3. /\ Sent("seed-start")' => \/ Sent("seed-start")
                                \/ head.type = "seed-start" /\ head.epoch = bridge.epoch
      /\ Sent("seed-end")' => \/ Sent("seed-end")
                              \/ head.type = "seed-data" /\ head.epoch = bridge.epoch
      /\ Sent("post-flush")' => \/ Sent("post-flush")
                                \/ head.type = "post-flush" /\ head.epoch = bridge.epoch
      /\ \A ack \in acks' : \/ ack \in acks \/ ack.of = "selection-check"
                            \/ head.type \in EpochTypes /\ ack.id = head.epoch
  BY <1>1, RepliesSent
<1>4. 1 \in Nat /\ 0 \in Nat /\ 0 + 1 = 1
  OBVIOUS
<1>5. \A T : head.type \in T => 1 \in OnTheirWay(T)
  BY DEF OnTheirWay
<1>6. \A T : Behind(0, T) => head.type \in T
  BY DEF Behind
<1>7. /\ \A T : \A i \in OnTheirWay(T)' :
             /\ i \in Nat /\ i + 1 \in OnTheirWay(T) /\ toClient'[i] = toClient[i + 1]
      /\ \A T : \A i \in Nat : Behind(i + 1, T) => Behind(i, T)'
      /\ \A T : Behind(0, T) => Behind(0, T)'
      /\ \A T : Behind(1, T) => Behind(0, T)'
  BY <1>4, TypesPop, BehindPop
<1> HIDE DEF head
<1>8. GateClosed'
  <2> SUFFICES ASSUME bridge.phase = "hold", bridge.hold = 0
               PROVE  /\ client'.authoritative => Breaks' # {}
                      /\ \A i \in OnTheirWay({"seed-open"})' : \E j \in Breaks' : i < j
    BY <1>1 DEF GateClosed
  <2>1. ASSUME NEW i \in Nat \ {0}, NEW j \in Breaks, i < j
        PROVE  j - 1 \in Breaks' /\ j - 1 \in Nat /\ (j - 1) + 1 = j
    <3>1. j \in Nat /\ j # 0 /\ j # 1
      BY <2>1, Positions DEF Breaks
    <3>2. j - 1 \in Nat \ {0} /\ (j - 1) + 1 = j
      BY <3>1
    <3> QED
      BY <3>2, TypesPop DEF Breaks
  <2>2. ASSUME client'.authoritative PROVE Breaks' # {}
    <3>1. CASE toClient[1].type = "seed-open"
      <4>1. \E j \in Breaks : 1 < j
        BY <1>5, <3>1 DEF head, GateClosed
      <4> QED
        BY <1>4, <2>1, <4>1
    <3>2. CASE client.authoritative /\ toClient[1].type \notin {"seed-start", "ready"}
      <4>1. PICK j \in Breaks : TRUE
        BY <3>2 DEF GateClosed
      <4>2. j \in Nat /\ j # 0 /\ j # 1
        BY <3>2, Positions DEF Breaks, OnTheirWay
      <4>3. 1 < j
        BY <4>2
      <4> QED
        BY <1>4, <2>1, <4>3
    <3> QED
      BY <2>2, <3>1, <3>2
  <2>3. ASSUME NEW i \in OnTheirWay({"seed-open"})' PROVE \E j \in Breaks' : i < j
    <3>1. i \in Nat /\ i + 1 \in OnTheirWay({"seed-open"})
      BY <1>7
    <3>2. PICK j \in Breaks : i + 1 < j
      BY <3>1 DEF GateClosed
    <3>3. i + 1 \in Nat \ {0}
      BY <3>1
    <3>4. j - 1 \in Breaks' /\ j - 1 \in Nat /\ (j - 1) + 1 = j
      BY <2>1, <3>2, <3>3
    <3>5. j \in Nat
      BY Positions DEF Breaks
    <3>6. i < j - 1
      BY <3>1, <3>2, <3>5
    <3> QED
      BY <3>4, <3>6
  <2> QED
    BY <2>2, <2>3
<1>9. EpochsPast'
  <2>1. \A i \in OnTheirWay(EpochTypes)' : toClient'[i].epoch <= bridge.epoch
    BY <1>7 DEF EpochsPast
  <2>2. head.type \in EpochTypes => head.epoch <= bridge.epoch
    BY <1>5 DEF EpochsPast, head
  <2>3. \A ack \in acks' : ack.of # "selection-check" => ack.id <= bridge.epoch
    BY <1>3, <2>2 DEF EpochsPast
  <2> QED
    BY <1>1, <2>1, <2>3 DEF EpochsPast
<1>10. ASSUME job.pc = "startAck", head.type \in EpochTypes, head.epoch = bridge.epoch
       PROVE  head.type = "seed-start"
  BY <1>5, <1>10 DEF StartStage, head
<1>11. AcksAnswer'
  <2>1. ASSUME job.pc = "startAck"
        PROVE  ~Sent("seed-end")' /\ ~Sent("post-flush")'
    BY <1>3, <1>10, <2>1 DEF AcksAnswer, EpochTypes
  <2>2. ASSUME job.pc \in {"capture", "verify", "linearize"}
        PROVE  ~Sent("seed-end")' /\ ~Sent("post-flush")'
    BY <1>3, <1>6, <2>2 DEF AcksAnswer, CaptureStage
  <2>3. ASSUME job.pc = "seedAck" PROVE ~Sent("post-flush")'
    BY <1>3, <1>6, <2>3 DEF AcksAnswer, DataStage
  <2>4. ASSUME job.pc \in {"flush", "flushing"} PROVE ~Sent("post-flush")'
    <3>1. head.type # "post-flush"
      BY <1>5, <2>4 DEF FlushStage
    <3> QED
      BY <1>3, <2>4, <3>1 DEF AcksAnswer
  <2> QED
    BY <1>1, <2>1, <2>2, <2>3, <2>4 DEF AcksAnswer
<1>12. StartStage'
  <2> SUFFICES ASSUME job.pc = "startAck"
               PROVE  /\ Sent("seed-start")' => Behind(0, {"selection-result"})'
                      /\ \A i \in OnTheirWay(EpochTypes)' :
                           toClient'[i].epoch = bridge.epoch =>
                             /\ toClient'[i].type = "seed-start"
                             /\ Behind(i, {"selection-result"})'
    BY <1>1 DEF StartStage
  <2>1. ASSUME Sent("seed-start")' PROVE Behind(0, {"selection-result"})'
    <3>1. CASE Sent("seed-start")
      BY <1>7, <3>1 DEF StartStage
    <3>2. CASE head.type = "seed-start" /\ head.epoch = bridge.epoch
      <4>1. Behind(1, {"selection-result"})
        BY <1>5, <3>2 DEF StartStage, EpochTypes, head
      <4> QED
        BY <1>7, <4>1
    <3> QED
      BY <1>3, <2>1, <3>1, <3>2
  <2>2. ASSUME NEW i \in OnTheirWay(EpochTypes)', toClient'[i].epoch = bridge.epoch
        PROVE  toClient'[i].type = "seed-start" /\ Behind(i, {"selection-result"})'
    <3>1. i \in Nat /\ i + 1 \in OnTheirWay(EpochTypes) /\ toClient'[i] = toClient[i + 1]
      BY <1>7
    <3>2. toClient[i + 1].type = "seed-start" /\ Behind(i + 1, {"selection-result"})
      BY <2>2, <3>1 DEF StartStage
    <3> QED
      BY <1>7, <3>1, <3>2
  <2> QED
    BY <2>1, <2>2
<1>13. CaptureStage'
  BY <1>1, <1>7 DEF CaptureStage
<1>14. DataStage'
  <2> SUFFICES ASSUME job.pc = "seedAck"
               PROVE  /\ Behind(0, {"seed-data", "selection-result"})'
                      /\ \A i \in OnTheirWay({"seed-data"})' :
                           OfSeed(toClient[i])' /\ Behind(i, {"selection-result"})'
                      /\ Sent("seed-end")' => Behind(0, {"selection-result"})'
    BY <1>1 DEF DataStage
  <2>1. Behind(0, {"seed-data", "selection-result"})'
    BY <1>7 DEF DataStage
  <2>2. ASSUME NEW i \in OnTheirWay({"seed-data"})'
        PROVE  OfSeed(toClient[i])' /\ Behind(i, {"selection-result"})'
    <3>1. i \in Nat /\ i + 1 \in OnTheirWay({"seed-data"}) /\ toClient'[i] = toClient[i + 1]
      BY <1>7
    <3>2. OfSeed(toClient[i + 1]) /\ Behind(i + 1, {"selection-result"})
      BY <3>1 DEF DataStage
    <3>3. OfSeed(toClient[i])'
      BY <1>1, <3>1, <3>2 DEF OfSeed
    <3> QED
      BY <1>7, <3>1, <3>2, <3>3
  <2>3. ASSUME Sent("seed-end")' PROVE Behind(0, {"selection-result"})'
    <3>1. CASE Sent("seed-end")
      BY <1>7, <3>1 DEF DataStage
    <3>2. CASE head.type = "seed-data"
      <4>1. Behind(1, {"selection-result"})
        BY <1>5, <3>2 DEF DataStage
      <4> QED
        BY <1>7, <4>1
    <3> QED
      BY <1>3, <2>3, <3>1, <3>2
  <2> QED
    BY <2>1, <2>2, <2>3
<1>15. FlushStage'
  <2> SUFFICES ASSUME job.pc \in {"flush", "flushing", "flushAck"}
               PROVE  FlushStage'
    BY <1>1 DEF FlushStage
  <2>1. Behind(0, {"seed-resume", "terminal-output", "post-flush", "selection-result"})'
    BY <1>7 DEF FlushStage
  <2>2. ASSUME NEW i \in OnTheirWay({"seed-resume"})'
        PROVE  /\ OfSeed(toClient[i])'
               /\ Behind(i, {"terminal-output", "post-flush", "selection-result"})'
               /\ \A j \in Outputs' : i < j
    <3>1. i \in Nat /\ i + 1 \in OnTheirWay({"seed-resume"})
          /\ toClient'[i] = toClient[i + 1]
      BY <1>7
    <3>2. /\ OfSeed(toClient[i + 1])
          /\ Behind(i + 1, {"terminal-output", "post-flush", "selection-result"})
          /\ \A j \in Outputs : i + 1 < j
      BY <3>1 DEF FlushStage
    <3>3. OfSeed(toClient[i])'
      BY <1>1, <3>1, <3>2 DEF OfSeed
    <3>4. \A j \in Outputs' : j \in Nat /\ i + 1 < j + 1
      BY <1>7, <3>2 DEF Outputs
    <3>5. \A j \in Outputs' : i < j
      BY <3>1, <3>4
    <3> QED
      BY <1>7, <3>1, <3>2, <3>3, <3>5
  <2>3. ASSUME NEW i \in OnTheirWay({"post-flush"})'
        PROVE  job'.pc = "flushAck" /\ Behind(i, {"selection-result"})'
    <3>1. i \in Nat /\ i + 1 \in OnTheirWay({"post-flush"})
      BY <1>7
    <3>2. job.pc = "flushAck" /\ Behind(i + 1, {"selection-result"})
      BY <3>1 DEF FlushStage
    <3> QED
      BY <1>1, <1>7, <3>1, <3>2
  <2>4. ASSUME Sent("post-flush")' PROVE Behind(0, {"selection-result"})'
    <3>1. CASE Sent("post-flush")
      BY <1>7, <3>1 DEF FlushStage
    <3>2. CASE head.type = "post-flush"
      <4>1. Behind(1, {"selection-result"})
        BY <1>5, <3>2 DEF FlushStage
      <4> QED
        BY <1>7, <4>1
    <3> QED
      BY <1>3, <2>4, <3>1, <3>2
  <2> QED
    BY <2>1, <2>2, <2>3, <2>4 DEF FlushStage
<1>16. LiveStage'
  BY <1>1, <1>7 DEF LiveStage, Live
<1> QED
  BY <1>2, <1>8, <1>9, <1>11, <1>12, <1>13, <1>14, <1>15, <1>16

\* The place of the browser in the stream.
ClientPlace == <<client.epoch, client.pane, client.cutoff, client.revision>>

LEMMA PopPipeline ==
    ASSUME TypeOK, HoldInvariant, PipelineInvariant,
           toClient # <<>>, toClient' = Tail(toClient), NEW head, head = Head(toClient),
           UNCHANGED <<serverVars, connected>>,
           connected => Replied(head), AuthoritySettled',
           client'.authoritative =>
               \/ client.authoritative /\ head.type \notin {"seed-start", "ready"}
               \/ head.type = "seed-open",
           ASSUME connected, Popped, head = toClient[1], 1 \in 1..Len(toClient)
           PROVE  SeedShown' /\ InStep'
    PROVE  PipelineInvariant'
<1>1. Popped /\ head = toClient[1] /\ 1 \in 1..Len(toClient)
  BY PopWire
<1>2. PendingOwned'
  BY DEF serverVars, PipelineInvariant, PendingOwned
<1>3. CASE ~connected
  BY <1>2, <1>3, PipelineClosed
<1>4. CASE connected
  <2>1. Replied(toClient[1])
    BY <1>1, <1>4 DEF Replied
  <2> QED
    BY <1>1, <1>4, <2>1, PopStages DEF PipelineInvariant
<1> QED
  BY <1>3, <1>4

LEMMA SeedShownKept ==
    ASSUME TypeOK, PipelineInvariant, connected, Popped, 1 \in 1..Len(toClient),
           UNCHANGED <<serverVars, connected>>, Replied(toClient[1]),
           toClient[1].type # "seed-data",
           toClient[1].type = "selection-result" => UNCHANGED ClientPlace
    PROVE  SeedShown'
<1> DEFINE head == toClient[1]
<1>1. UNCHANGED <<bridge, job>>
  BY DEF serverVars
<1> SUFFICES ASSUME job.pc = "seedAck", Sent("seed-end")'
             PROVE  OfSeed(client)' /\ client'.revision = bridge'.cutoff
  BY <1>1 DEF SeedShown
<1>2. Sent("seed-end")
  BY <1>1, RepliesSent
<1>3. Behind(0, {"selection-result"})
  BY <1>2 DEF PipelineInvariant, DataStage
<1>4. head.type = "selection-result"
  BY <1>3 DEF Behind
<1>5. OfSeed(client) /\ client.revision = bridge.cutoff
  BY <1>2 DEF PipelineInvariant, SeedShown
<1> QED
  BY <1>1, <1>4, <1>5 DEF ClientPlace, OfSeed

\* Between seeds and from a flush on nothing on its way begins a seed.
LEMMA PopNotFollowing ==
    ASSUME PipelineInvariant, connected, 1 \in 1..Len(toClient),
           UNCHANGED <<serverVars, connected>>,
           toClient[1].type \in {"seed-start", "seed-data", "ready"}
    PROVE  InStep'
<1>1. \A T : Behind(0, T) => toClient[1].type \in T
  BY DEF Behind
<1>2. ~Following'
  BY <1>1 DEF Following, PipelineInvariant, LiveStage, FlushStage, Live, serverVars
<1> QED
  BY <1>2 DEF InStep

LEMMA PopInStepOther ==
    ASSUME TypeOK, PipelineInvariant, connected, Popped, 1 \in 1..Len(toClient),
           UNCHANGED <<serverVars, connected, ClientPlace>>,
           toClient[1].type \notin {"terminal-output", "seed-resume"},
           client.reseedPending => client'.reseedPending
    PROVE  InStep'
<1>1. UNCHANGED <<bridge, sendLock, pending, job>>
  BY DEF serverVars
<1>2. OnTheirWay({"seed-resume"})' = {} <=> OnTheirWay({"seed-resume"}) = {}
  <2>1. ASSUME NEW i \in OnTheirWay({"seed-resume"}) PROVE OnTheirWay({"seed-resume"})' # {}
    <3>1. i \in Nat /\ i # 0 /\ i # 1
      BY Positions DEF OnTheirWay
    <3>2. i - 1 \in Nat \ {0} /\ (i - 1) + 1 = i
      BY <3>1
    <3> QED
      BY <3>2, TypesPop
  <2> QED
    BY <2>1, TypesPop
<1>3. (Following' => Following) /\ (OutputsCurrent => OutputsCurrent')
  BY <1>1, OutputsPop DEF Following, Live
<1>4. \A from \in Nat : Stream(from) => Stream(from)'
  BY <1>1, StreamPopOther DEF Waiting
<1>5. (OfSeed(client) => OfSeed(client)') /\ client'.revision = client.revision
  BY <1>1 DEF OfSeed, ClientPlace
<1> QED
  BY <1>1, <1>2, <1>3, <1>4, <1>5, InStepKept DEF PipelineInvariant

\* Messages that neither bring output nor begin or resume a seed.
LEMMA PipelinePasses ==
    ASSUME TypeOK, HoldInvariant, PipelineInvariant,
           toClient # <<>>, toClient' = Tail(toClient), NEW head, head = Head(toClient),
           UNCHANGED <<serverVars, connected, ClientPlace>>,
           connected => Replied(head),
           head.type \in {"post-flush", "seed-open", "selection-check",
                          "selection-result"},
           client'.reseedPending = client.reseedPending,
           client'.authoritative =>
               client.authoritative \/ (head.type = "seed-open" /\ ~client.reseedPending)
    PROVE  PipelineInvariant'
<1>1. AuthoritySettled'
  BY DEF PipelineInvariant, AuthoritySettled
<1>2. ASSUME connected, Popped, head = toClient[1], 1 \in 1..Len(toClient)
      PROVE  SeedShown' /\ InStep'
  <2>1. Replied(toClient[1])
    BY <1>2 DEF Replied
  <2> QED
    BY <1>2, <2>1, SeedShownKept, PopInStepOther
<1> QED
  BY <1>1, <1>2, PopPipeline

LEMMA PipelinePassed ==
    ASSUME TypeOK, HoldInvariant, PipelineInvariant,
           \/ ClientPostFlush \/ ClientSeedOpen \/ ClientSelectionCheck
           \/ ClientSelectionResult
    PROVE  PipelineInvariant'
<1> DEFINE head == Head(toClient)
<1>1. /\ Taken.epoch = client.epoch /\ Taken.pane = client.pane
      /\ Taken.cutoff = client.cutoff /\ Taken.revision = client.revision
      /\ Taken.reseedPending = client.reseedPending
      /\ Taken.authoritative = client.authoritative
      /\ DOMAIN Taken = DOMAIN client
  BY ClientFields DEF Taken, Clients
<1>2. /\ toClient # <<>> /\ toClient' = Tail(toClient)
      /\ UNCHANGED <<serverVars, connected>>
      /\ head.type \in {"post-flush", "seed-open", "selection-check", "selection-result"}
  BY DEF ClientPostFlush, ClientSeedOpen, ClientSelectionCheck, ClientSelectionResult,
    Receive
<1>3. /\ client'.epoch = client.epoch /\ client'.pane = client.pane
      /\ client'.cutoff = client.cutoff /\ client'.revision = client.revision
      /\ client'.reseedPending = client.reseedPending
      /\ client'.authoritative => \/ client.authoritative
                                  \/ head.type = "seed-open" /\ ~client.reseedPending
  <2>1. CASE ClientPostFlush
    BY <1>1, <2>1 DEF ClientPostFlush
  <2>2. CASE ClientSeedOpen
    <3>1. CASE MayOpen(head)
      <4>1. ~client.reseedPending /\ head.type = "seed-open"
            /\ client' = [Taken EXCEPT !.seedInFlight = FALSE, !.authoritative = TRUE]
        BY <2>2, <3>1 DEF ClientSeedOpen, MayOpen, Receive
      <4> QED
        BY <1>1, <4>1
    <3>2. CASE ~MayOpen(head)
      <4>1. client' = [Taken EXCEPT !.authoritative = FALSE]
        BY <2>2, <3>2 DEF ClientSeedOpen
      <4> QED
        BY <1>1, <4>1, ClientFields DEF Taken, Clients
    <3> QED
      BY <3>1, <3>2
  <2>3. CASE ClientSelectionCheck
    BY <2>3, ClientFields DEF ClientSelectionCheck, Taken, Clients
  <2>4. CASE ClientSelectionResult
    BY <2>4, ClientFields DEF ClientSelectionResult, Taken, Clients
  <2> QED
    BY <2>1, <2>2, <2>3, <2>4
<1>4. connected => Replied(head)
  <2>1. CASE ClientPostFlush
    BY <2>1 DEF ClientPostFlush, Receive, SendAck, Replied
  <2>2. CASE ClientSelectionCheck
    <3>1. SelectionIsCurrent(head.id) \in BOOLEAN
      BY DEF SelectionIsCurrent
    <3> QED
      BY <2>2, <3>1 DEF ClientSelectionCheck, Receive, SendAck, Replied
  <2>3. CASE ClientSeedOpen \/ ClientSelectionResult
    BY <2>3 DEF ClientSeedOpen, ClientSelectionResult, Replied
  <2> QED
    BY <2>1, <2>2, <2>3
<1>5. UNCHANGED ClientPlace
  BY <1>3 DEF ClientPlace
<1> QED
  BY <1>2, <1>3, <1>4, <1>5, PipelinePasses

LEMMA PipelineSeeded ==
    ASSUME TypeOK, HoldInvariant, PipelineInvariant,
           ClientSeedStart \/ ClientSeedData \/ ClientReady
    PROVE  PipelineInvariant'
<1> DEFINE head == Head(toClient)
<1>1. /\ toClient # <<>> /\ toClient' = Tail(toClient)
      /\ UNCHANGED <<serverVars, connected>>
      /\ head.type \in {"seed-start", "seed-data", "ready"}
  BY DEF ClientSeedStart, ClientSeedData, ClientReady, Receive
<1>2. connected => Replied(head)
  BY DEF ClientSeedStart, ClientSeedData, ClientReady, Receive, SendAck, Replied
<1>3. /\ client'.authoritative => client.authoritative /\ head.type = "seed-data"
      /\ client'.authoritative => client'.reseedPending = client.reseedPending
  BY ClientFields DEF ClientSeedStart, ClientSeedData, ClientReady, SeedBegun, Taken,
    Clients, Receive
<1>4. AuthoritySettled'
  BY <1>3 DEF PipelineInvariant, AuthoritySettled
<1>5. ASSUME connected, Popped, head = toClient[1], 1 \in 1..Len(toClient)
      PROVE  SeedShown' /\ InStep'
  <2>1. Replied(toClient[1])
    BY <1>2, <1>5 DEF Replied
  <2>2. InStep'
    BY <1>1, <1>5, PopNotFollowing
  <2>3. CASE ~ClientSeedData
    <3>1. toClient[1].type \in {"seed-start", "ready"}
      BY <1>5, <2>3 DEF ClientSeedStart, ClientReady, Receive
    <3> QED
      BY <1>1, <1>5, <2>1, <2>2, <3>1, SeedShownKept
  <2>4. CASE ClientSeedData
    <3>1. UNCHANGED <<bridge, job>>
      BY <1>1 DEF serverVars
    <3>2. 1 \in OnTheirWay({"seed-data"})
      BY <1>5, <2>4 DEF OnTheirWay, ClientSeedData, Receive
    <3>3. job.pc = "seedAck" => OfSeed(head)
      BY <1>5, <3>2 DEF PipelineInvariant, DataStage
    <3>4. /\ client'.epoch = head.epoch /\ client'.pane = head.pane
          /\ client'.cutoff = head.cutoff /\ client'.revision = head.cutoff
      BY <2>4, ClientFields DEF ClientSeedData, Taken, Clients
    <3>5. SeedShown'
      BY <3>1, <3>3, <3>4 DEF SeedShown, OfSeed
    <3> QED
      BY <2>2, <3>5
  <2> QED
    BY <2>3, <2>4
<1> QED
  BY <1>1, <1>2, <1>3, <1>4, <1>5, PopPipeline

LEMMA PipelineDropsOutput ==
    ASSUME TypeOK, HoldInvariant, PipelineInvariant, ClientDropOutput
    PROVE  PipelineInvariant'
<1> DEFINE head == Head(toClient)
<1>1. /\ toClient # <<>> /\ toClient' = Tail(toClient) /\ head.type = "terminal-output"
      /\ client.reseedPending
      /\ UNCHANGED <<serverVars, connected, acks, client>>
  BY DEF ClientDropOutput, Receive, Dropped, clientVars
<1>2. Replied(head) /\ AuthoritySettled'
  BY <1>1 DEF Replied, PipelineInvariant, AuthoritySettled
<1>3. InStep'
  BY <1>1 DEF InStep, Following
<1>4. ASSUME connected, Popped, head = toClient[1], 1 \in 1..Len(toClient)
      PROVE  SeedShown' /\ InStep'
  <2>1. Replied(toClient[1]) /\ toClient[1].type = "terminal-output"
    BY <1>1, <1>2, <1>4 DEF Replied
  <2> QED
    BY <1>1, <1>3, <1>4, <2>1, SeedShownKept
<1> QED
  BY <1>1, <1>2, <1>4, PopPipeline

\* The next output is the next byte of the stream.
LEMMA PipelineWritesOutput ==
    ASSUME TypeOK, HoldInvariant, PipelineInvariant, ClientOutput
    PROVE  PipelineInvariant'
<1> DEFINE head == Head(toClient)
<1>1. CASE Connect
  BY <1>1, ConnectPipeline
<1>2. CASE ~Connect
  <2>1. /\ toClient # <<>> /\ toClient' = Tail(toClient)
        /\ head.type = "terminal-output"
        /\ UNCHANGED <<serverVars, connected, acks>>
        /\ client' = [Taken EXCEPT !.revision = @ + 1]
    BY <1>2 DEF ClientOutput
  <2>2. /\ client'.epoch = client.epoch /\ client'.pane = client.pane
        /\ client'.cutoff = client.cutoff /\ client'.revision = client.revision + 1
        /\ client'.authoritative = client.authoritative
        /\ client'.reseedPending = client.reseedPending
    BY <2>1, ClientFields DEF Taken, Clients
  <2>3. Replied(head) /\ AuthoritySettled'
    BY <2>1, <2>2 DEF Replied, PipelineInvariant, AuthoritySettled
  <2>4. ASSUME connected, Popped, head = toClient[1], 1 \in 1..Len(toClient)
        PROVE  SeedShown' /\ InStep'
    <3>1. Replied(toClient[1]) /\ toClient[1].type = "terminal-output"
      BY <2>1, <2>3, <2>4 DEF Replied
    <3>2. SeedShown'
      BY <2>1, <2>4, <3>1, SeedShownKept
    <3>3. 1 \in Outputs
      BY <2>4, <3>1 DEF Outputs, OnTheirWay
    <3>4. UNCHANGED <<bridge, sendLock, pending, job>>
      BY <2>1 DEF serverVars
    <3>5. SUFFICES ASSUME Following' PROVE InStep'
      BY <3>2 DEF InStep
    <3>6. Following
      BY <2>1, <2>2, <3>4, <3>5 DEF Following, Live
    <3>7. OnTheirWay({"seed-resume"}) = {}
      <4>1. CASE Live
        BY <2>4, <4>1, LiveQuiet
      <4>2. ASSUME job.pc \in {"flush", "flushing", "flushAck"},
                   NEW i \in OnTheirWay({"seed-resume"})
            PROVE  FALSE
        <5>1. i \in Nat /\ i # 0 /\ i < 1
          BY <2>4, <3>3, <4>2, Positions DEF PipelineInvariant, FlushStage, OnTheirWay
        <5> QED
          BY <5>1
      <4> QED
        BY <3>6, <4>1, <4>2 DEF Following
    <3>8. OutputsCurrent /\ OfSeed(client) /\ Stream(client.revision)
      BY <3>6, <3>7 DEF PipelineInvariant, InStep
    <3>9. PICK r : r = client.revision
      OBVIOUS
    <3>10. r \in Nat /\ Stream(r)
      BY <3>8, <3>9, ClientFields
    <3>11. Stream(r + 1)'
      BY <2>4, <3>3, <3>4, <3>10, StreamPopOutput DEF Waiting
    <3>12. client'.revision = r + 1 /\ OfSeed(client)'
      BY <2>2, <3>4, <3>8, <3>9 DEF OfSeed
    <3>13. OutputsCurrent'
      BY <2>4, <3>4, <3>8, OutputsPop
    <3>14. OnTheirWay({"seed-resume"})' = {}
      BY <2>4, <3>7, TypesPop
    <3>15. PICK s : s = r + 1
      OBVIOUS
    <3>16. Stream(s)' /\ client'.revision = s
      BY <3>11, <3>12, <3>15 DEF Stream
    <3> QED
      BY <3>12, <3>13, <3>14, <3>16, InStepClient
  <2> QED
    BY <2>1, <2>2, <2>3, <2>4, PopPipeline
<1> QED
  BY <1>1, <1>2

\* A resumed browser stands at the cutoff of the seed.
LEMMA PipelineResumed ==
    ASSUME TypeOK, HoldInvariant, PipelineInvariant, ClientSeedResume
    PROVE  PipelineInvariant'
<1> DEFINE head == Head(toClient)
<1>1. CASE Connect
  BY <1>1, ConnectPipeline
<1>2. CASE ~Connect
  <2>1. /\ toClient # <<>> /\ toClient' = Tail(toClient)
        /\ head.type = "seed-resume" /\ MayResume(head)
        /\ UNCHANGED <<serverVars, connected, acks>>
        /\ client' = [Taken EXCEPT !.epoch = head.epoch, !.cutoff = head.cutoff]
    BY <1>2 DEF ClientSeedResume
  <2>2. /\ client'.epoch = head.epoch /\ client'.pane = head.pane
        /\ client'.cutoff = head.cutoff /\ client'.revision = head.cutoff
        /\ client'.authoritative = client.authoritative
        /\ client'.reseedPending = client.reseedPending
    BY <2>1, ClientFields DEF Taken, Clients, MayResume
  <2>3. Replied(head) /\ AuthoritySettled'
    BY <2>1, <2>2 DEF Replied, PipelineInvariant, AuthoritySettled
  <2>4. ASSUME connected, Popped, head = toClient[1], 1 \in 1..Len(toClient)
        PROVE  SeedShown' /\ InStep'
    <3>1. Replied(toClient[1]) /\ toClient[1].type = "seed-resume"
      BY <2>1, <2>3, <2>4 DEF Replied
    <3>2. SeedShown'
      BY <2>1, <2>4, <3>1, SeedShownKept
    <3>3. 1 \in OnTheirWay({"seed-resume"})
      BY <2>4, <3>1 DEF OnTheirWay
    <3>4. UNCHANGED <<bridge, sendLock, pending, job>>
      BY <2>1 DEF serverVars
    <3>5. SUFFICES ASSUME Following' PROVE InStep'
      BY <3>2 DEF InStep
    <3>6. Following
      BY <2>1, <2>2, <3>4, <3>5 DEF Following, Live
    <3>7. job.pc \in {"flush", "flushing", "flushAck"}
      BY <2>4, <3>3, <3>6, LiveQuiet DEF Following
    <3>8. OfSeed(head)
          /\ Behind(1, {"terminal-output", "post-flush", "selection-result"})
      BY <2>4, <3>3, <3>7 DEF PipelineInvariant, FlushStage
    <3>9. OutputsCurrent /\ Stream(bridge.cutoff)
      BY <3>3, <3>6 DEF PipelineInvariant, InStep
    <3>10. PICK c : c = bridge.cutoff
      OBVIOUS
    <3>11. Stream(c)
      BY <3>9, <3>10
    <3>12. Stream(c)'
      BY <2>4, <3>1, <3>4, <3>11, StreamPopOther DEF Waiting
    <3>13. client'.revision = c /\ OfSeed(client)'
      BY <2>2, <3>4, <3>8, <3>10 DEF OfSeed
    <3>14. OutputsCurrent'
      BY <2>4, <3>4, <3>9, OutputsPop
    <3>15. OnTheirWay({"seed-resume"})' = {}
      <4>1. Behind(0, {"terminal-output", "post-flush", "selection-result"})'
        <5>1. 0 + 1 = 1
          OBVIOUS
        <5> QED
          BY <2>4, <3>8, <5>1, BehindPop
      <4> QED
        BY <4>1 DEF Behind, OnTheirWay
    <3> QED
      BY <3>12, <3>13, <3>14, <3>15, InStepClient
  <2> QED
    BY <2>1, <2>2, <2>3, <2>4, PopPipeline
<1> QED
  BY <1>1, <1>2

-----------------------------------------------------------------------------
(* Theorems                                                                *)

LEMMA PipelineElsewhere ==
    ASSUME PipelineInvariant,
           \/ \E p \in Panes : PaneOutput(p) \/ SelectPane(p)
           \/ WatchNotice \/ StabilizerStops
    PROVE  PipelineInvariant'
<1>1. UNCHANGED <<bridge, sendLock, pending, job, connected, toClient, acks, client>>
  BY DEF PaneOutput, SelectPane, WatchNotice, StabilizerStops, serverVars, netVars,
    clientVars
<1> QED
  BY <1>1, PipelineStutter DEF pipeView

LEMMA PipelineStep ==
    TypeOK /\ HoldInvariant /\ PipelineInvariant /\ [Next]_vars => PipelineInvariant'
<1> SUFFICES ASSUME TypeOK, HoldInvariant, PipelineInvariant, [Next]_vars
             PROVE  PipelineInvariant'
  OBVIOUS
<1>1. CASE Reader
  BY <1>1, PipelineReader
<1>2. CASE Server
  <2>1. CASE MainReseed \/ HandleReseedRequest \/ HandleActivity \/ WatchReseed \/ Stabilize
    BY <2>1, PipelineBeginReseed
  <2>2. CASE StartAcked \/ TakeSnapshot \/ RetryCapture
    BY <2>2, PipelineCaptures
  <2>3. CASE AcceptSnapshot \/ InstallDegraded \/ SeedAcked
    BY <2>3, PipelineSeeds, PipelineSeedAcked
  <2>4. CASE BeginFlush \/ SendHeld \/ EndFlush \/ FlushAcked
    BY <2>4, PipelineBeginFlush, PipelineSendHeld, PipelineEndFlush, PipelineFlushAcked
  <2>5. CASE HoldForSelection \/ RejectSelection \/ SelectionAcked
    BY <2>5, PipelineHold, PipelineAnswer
  <2>6. CASE BeginRelease \/ EndRelease \/ EndSpeech
    BY <2>6, PipelineLocks
  <2>7. CASE HandleSwitch \/ WatchNotice \/ StabilizerStops
    BY <2>7, PipelineSwitch, PipelineElsewhere
  <2> QED
    BY <1>2, <2>1, <2>2, <2>3, <2>4, <2>5, <2>6, <2>7 DEF Server
<1>3. CASE Browser
  <2>1. CASE ClientSeedStart \/ ClientSeedData \/ ClientReady
    BY <2>1, PipelineSeeded
  <2>2. CASE ClientSeedResume \/ ClientDropOutput \/ ClientOutput
    BY <2>2, PipelineResumed, PipelineDropsOutput, PipelineWritesOutput
  <2>3. CASE \/ ClientPostFlush \/ ClientSeedOpen \/ ClientSelectionCheck
             \/ ClientSelectionResult
    BY <2>3, PipelinePassed
  <2>4. CASE WatchdogWhenStuck \/ Reconnect
    BY <2>4, PipelineUser, PipelineConnection
  <2> QED
    BY <1>3, <2>1, <2>2, <2>3, <2>4 DEF Browser
<1>4. CASE Environment
  <2>1. CASE GiveUp \/ SelectionAckTimeout \/ BeginSpeech
    BY <2>1, PipelineSeeds, PipelineAnswer, PipelineLocks
  <2>2. CASE StartAckTimeout \/ JobFails \/ Drop
    BY <2>2, PipelineConnection
  <2>3. CASE \/ SlowWatchdog \/ ClientBacklog \/ ClientRequest
             \/ ClientSelect \/ ClientSelectionTimeout \/ ClientSwitch
    BY <2>3, PipelineUser
  <2>4. CASE \E p \in Panes : PaneOutput(p) \/ SelectPane(p)
    BY <2>4, PipelineElsewhere
  <2> QED
    BY <1>4, <2>1, <2>2, <2>3, <2>4 DEF Environment
<1>5. CASE UNCHANGED vars
  BY <1>5, PipelineStutter DEF vars, serverVars, netVars, clientVars, pipeView
<1> QED
  BY <1>1, <1>2, <1>3, <1>4, <1>5 DEF Next, Progress

\* The inductive invariant of the pipeline holds in every reachable state:
\* what each stage of a reseed may find on its way, what an acknowledgement
\* proves, and how the browser and the wire follow the bridge.
THEOREM PipelineCorrect == Spec => [](TypeOK /\ HoldInvariant /\ PipelineInvariant)
<1>1. Init => PipelineInvariant
  BY PipelineInit
<1>2. TypeOK /\ HoldInvariant /\ PipelineInvariant /\ [Next]_vars => PipelineInvariant'
  BY PipelineStep
<1> QED
  BY <1>1, <1>2, HoldsCorrect, PTL DEF Spec

\* The outputs a browser with authority has still to handle, and then the bytes
\* the bridge holds, continue its screen without a gap, a repetition or a byte of
\* another epoch: across every reseed, resume, hold, drop and reconnect, however
\* many there are (pane_bytes, reseed, handleTerminalBinary).
THEOREM StreamIsGapless == Spec => []PipelineGapless
<1>1. TypeOK /\ PipelineInvariant => PipelineGapless
  <2> SUFFICES ASSUME TypeOK, PipelineInvariant,
                      client.authoritative, connected, ~SeedOnItsWay
               PROVE  /\ Stream(client.revision)
                      /\ \A i \in Outputs : /\ toClient[i].epoch = client.epoch
                                            /\ toClient[i].pane = client.pane
    BY DEF PipelineGapless
  <2>1. Breaks = {} /\ OnTheirWay({"seed-resume"}) = {}
    BY DEF SeedOnItsWay, Breaks, OnTheirWay
  <2>2. Live
    <3>1. bridge.phase \in {"hold", "forward"}
      BY BridgeFields DEF Bridges
    <3> QED
      BY <2>1, <3>1 DEF PipelineInvariant, GateClosed, Live
  <2>3. Following
    BY <2>2 DEF PipelineInvariant, AuthoritySettled, Following
  <2>4. OutputsCurrent /\ OfSeed(client) /\ Stream(client.revision)
    BY <2>1, <2>3 DEF PipelineInvariant, InStep
  <2> QED
    BY <2>4 DEF OutputsCurrent, OfSeed
<1> QED
  BY <1>1, PipelineCorrect, PTL

-----------------------------------------------------------------------------
(* Selections: requests and their numbers                                  *)

\* What a step may do to the requests on their way: nothing, take the first, add
\* one that is no selection, or lose them with the connection.
RequestsKept ==
    \/ requests' = requests /\ connected' = connected
    \/ requests # <<>> /\ requests' = Tail(requests) /\ connected' = connected
    \/ /\ connected /\ connected'
       /\ \E r \in ClientRequests : /\ r.type # "selection-request"
                                    /\ requests' = Append(requests, r)
    \/ requests' = <<>>

LEMMA AskedFields ==
    ASSUME TypeOK, NEW i \in AskedAt
    PROVE  i \in 1..Len(requests) /\ i \in Nat /\ requests[i].id \in Nat \ {0}
           /\ Len(requests) \in Nat
<1>1. requests \in Seq(ClientRequests) /\ i \in 1..Len(requests)
      /\ requests[i].type = "selection-request"
  BY DEF AskedAt, TypeOK, NetTypeOK
<1>2. requests[i] \in ClientRequests
  BY <1>1
<1> QED
  BY <1>1, <1>2, RequestFields

\* Every request that is left was there before, in the same order.
LEMMA AskedKept ==
    ASSUME TypeOK, RequestsKept, TypeOK'
    PROVE  \E d \in {0, 1} : \A i \in AskedAt' :
              /\ i \in Nat /\ i + d \in AskedAt /\ requests'[i] = requests[i + d]
<1>1. requests \in Seq(ClientRequests)
  BY DEF TypeOK, NetTypeOK
<1>2. CASE requests' = requests
  <2>1. \A i \in AskedAt' : i \in Nat /\ i + 0 = i
    BY <1>2 DEF AskedAt
  <2>2. \A i \in AskedAt' : /\ i \in Nat /\ i + 0 \in AskedAt
                            /\ requests'[i] = requests[i + 0]
    BY <1>2, <2>1 DEF AskedAt
  <2> QED
    BY <2>2
<1>3. CASE requests # <<>> /\ requests' = Tail(requests)
  <2>1. \A i \in AskedAt' : /\ i \in Nat /\ i + 1 \in AskedAt
                            /\ requests'[i] = requests[i + 1]
    BY <1>1, <1>3 DEF AskedAt
  <2> QED
    BY <2>1
<1>4. ASSUME NEW r \in ClientRequests, r.type # "selection-request",
             requests' = Append(requests, r)
      PROVE  \E d \in {0, 1} : \A i \in AskedAt' :
              /\ i \in Nat /\ i + d \in AskedAt /\ requests'[i] = requests[i + d]
  <2>1. \A i \in 1..Len(requests') : i \in Nat /\ i + 0 = i
    BY <1>1, <1>4
  <2>2. \A i \in 1..Len(requests') : i \in 1..Len(requests) \/ requests'[i] = r
    BY <1>1, <1>4
  <2>3. \A i \in 1..Len(requests) : requests'[i] = requests[i]
    BY <1>1, <1>4
  <2>4. \A i \in AskedAt' : /\ i \in Nat /\ i + 0 \in AskedAt
                            /\ requests'[i] = requests[i + 0]
    BY <1>4, <2>1, <2>2, <2>3 DEF AskedAt
  <2> QED
    BY <2>4
<1>5. CASE requests' = <<>>
  BY <1>5 DEF AskedAt
<1> QED
  BY <1>2, <1>3, <1>4, <1>5 DEF RequestsKept

\* No number becomes that of a request to come.
LEMMA PastKept ==
    ASSUME TypeOK, TypeOK', RequestsKept, client'.selections = client.selections,
           IdsInOrder
    PROVE  /\ \A id : Past(id) => Past(id)'
           /\ \A i \in AskedAt' : requests'[i].id <= client'.selections
           /\ \A i, j \in AskedAt' : i < j => requests'[i].id < requests'[j].id
<1>1. PICK d \in {0, 1} : \A i \in AskedAt' :
              /\ i \in Nat /\ i + d \in AskedAt /\ requests'[i] = requests[i + d]
  BY AskedKept
<1>2. \A i, j \in AskedAt' : i < j => i + d < j + d
  BY <1>1
<1> QED
  BY <1>1, <1>2 DEF IdsInOrder, Past

\* The request that is handled is past, and so is nothing else that is asked.
LEMMA HandledIsPast ==
    ASSUME TypeOK, TypeOK', IdsInOrder, NextRequest("selection-request"),
           client'.selections = client.selections
    PROVE  \A n : n = Head(requests).id =>
               Past(n)' /\ n \in Nat \ {0} /\ ~Past(n)
<1>1. requests \in Seq(ClientRequests) /\ requests # <<>>
      /\ requests' = Tail(requests) /\ Head(requests).type = "selection-request"
  BY DEF NextRequest, TypeOK, NetTypeOK
<1>2. 1 \in AskedAt /\ Head(requests) = requests[1]
  BY <1>1 DEF AskedAt
<1>3. \A i \in AskedAt' : i \in Nat /\ i + 1 \in AskedAt /\ 1 < i + 1
                          /\ requests'[i] = requests[i + 1]
  BY <1>1 DEF AskedAt
<1>4. requests[1].id \in Nat \ {0}
  BY <1>2, AskedFields
<1>5. ASSUME NEW n, n = requests[1].id PROVE Past(n)'
  BY <1>2, <1>3, <1>5 DEF Past, IdsInOrder
<1>6. ~Past(requests[1].id)
  BY <1>2, <1>4 DEF Past
<1> QED
  BY <1>2, <1>4, <1>5, <1>6

\* The numbers stay in order if what is new on its way is past.
LEMMA IdsKept ==
    ASSUME TypeOK, TypeOK', IdsInOrder, RequestsKept,
           client'.selections = client.selections,
           client'.selection.id \in {0, client.selection.id},
           main'.id \in {0, main.id} \/ \A n : n = main'.id => Past(n)',
           \A i \in OnTheirWay({"selection-check", "selection-result"})' :
               \/ /\ \A n : n = toClient'[i].id => Past(n)'
                  /\ toClient'[i].id # 0
               \/ \E j \in OnTheirWay({"selection-check", "selection-result"}) :
                    toClient'[i] = toClient[j],
           \A ack \in acks' : ack.of = "selection-check" =>
               ack \in acks \/ \A n : n = ack.id => Past(n)'
    PROVE  IdsInOrder'
<1>1. /\ \A id : Past(id) => Past(id)'
      /\ \A i \in AskedAt' : requests'[i].id <= client'.selections
      /\ \A i, j \in AskedAt' : i < j => requests'[i].id < requests'[j].id
  BY PastKept
<1>2. requests' # <<>> => connected'
  <2>1. requests \in Seq(ClientRequests)
    BY DEF TypeOK, NetTypeOK
  <2> QED
    BY <2>1 DEF RequestsKept, IdsInOrder
<1>3. client'.selection.id <= client'.selections
  BY ClientFields DEF IdsInOrder
<1>4. Past(0)
  BY ClientFields, AskedFields DEF Past
<1>5. \A n : n = main'.id => Past(n)'
  BY <1>1, <1>4 DEF IdsInOrder
<1>6. ASSUME NEW i \in OnTheirWay({"selection-check", "selection-result"})'
      PROVE  /\ \A n : n = toClient'[i].id => Past(n)'
             /\ toClient'[i].id # 0
  BY <1>1, <1>6 DEF IdsInOrder
<1>7. ASSUME NEW ack \in acks', ack.of = "selection-check"
      PROVE  \A n : n = ack.id => Past(n)'
  BY <1>1, <1>7 DEF IdsInOrder
<1> QED
  BY <1>1, <1>2, <1>3, <1>5, <1>6, <1>7 DEF IdsInOrder, Past

\* Past numbers on their way, after a message has been added or taken.
LEMMA IdsOnTheirWay ==
    ASSUME TypeOK,
           \/ UNCHANGED toClient
           \/ Popped
           \/ \E m : Appended(m) /\ m.type \notin {"selection-check", "selection-result"}
    PROVE  \A i \in OnTheirWay({"selection-check", "selection-result"})' :
             \E j \in OnTheirWay({"selection-check", "selection-result"}) :
               toClient'[i] = toClient[j]
<1>1. CASE UNCHANGED toClient
  BY <1>1, TypesSame
<1>2. CASE Popped
  BY <1>2, TypesPop
<1>3. ASSUME NEW m, Appended(m), m.type \notin {"selection-check", "selection-result"}
      PROVE  \A i \in OnTheirWay({"selection-check", "selection-result"})' :
             \E j \in OnTheirWay({"selection-check", "selection-result"}) :
               toClient'[i] = toClient[j]
  BY <1>3, TypesAppend
<1> QED
  BY <1>1, <1>2, <1>3

\* A step of the server that does not take part in a selection.
LEMMA SelectionServer ==
    ASSUME TypeOK, TypeOK', SelectionInvariant, RequestsKept, UNCHANGED client,
           main'.id \in {0, main.id}, acks' \subseteq acks,
           \/ UNCHANGED toClient
           \/ /\ job'.pc # "selectionAck"
              /\ \E m : /\ Appended(m)
                        /\ m.type \notin {"selection-check", "selection-result"},
           job'.pc = "selectionAck" =>
               /\ job.pc = "selectionAck" /\ connected' = connected
               /\ main'.id = main.id /\ job'.candidate = job.candidate
               /\ bridge'.epoch = bridge.epoch /\ bridge'.pane = bridge.pane
    PROVE  SelectionInvariant'
<1> USE DEF SelectionInvariant
<1>1. IdsInOrder'
  <2>1. \A i \in OnTheirWay({"selection-check", "selection-result"})' :
          \E j \in OnTheirWay({"selection-check", "selection-result"}) :
            toClient'[i] = toClient[j]
    BY IdsOnTheirWay
  <2> QED
    BY <2>1, IdsKept
<1>2. CheckStage'
  <2> SUFFICES ASSUME job'.pc = "selectionAck" PROVE CheckStage'
    BY DEF CheckStage
  <2>1. UNCHANGED toClient /\ job.pc = "selectionAck"
    OBVIOUS
  <2>2. \A i : Behind(i, {})' <=> Behind(i, {})
    BY <2>1 DEF Behind
  <2>3. OnTheirWay({"selection-check"})' = OnTheirWay({"selection-check"})
    BY <2>1, TypesSame
  <2>4. OnScreen => OnScreen'
    BY DEF OnScreen
  <2> QED
    BY <2>1, <2>2, <2>3, <2>4 DEF CheckStage
<1>3. ResultStage'
  <2>1. CASE UNCHANGED toClient
    <3>1. OnTheirWay({"selection-result"})' = OnTheirWay({"selection-result"})
      BY <2>1, TypesSame
    <3> QED
      BY <2>1, <3>1 DEF ResultStage
  <2>2. ASSUME NEW m, Appended(m), m.type \notin {"selection-check", "selection-result"}
        PROVE  ResultStage'
    <3>1. \A i \in OnTheirWay({"selection-result"})' :
            i \in OnTheirWay({"selection-result"}) /\ toClient'[i] = toClient[i]
            /\ i \in 1..Len(toClient)
      BY <2>2, TypesAppend
    <3>2. \A i \in 1..Len(toClient) : \A j \in 1..Len(toClient') : j < i =>
            j \in 1..Len(toClient) /\ toClient'[j] = toClient[j]
      BY <2>2 DEF Appended
    <3> QED
      BY <3>1, <3>2 DEF ResultStage
  <2> QED
    BY <2>1, <2>2
<1> QED
  BY <1>1, <1>2, <1>3

\* One that leaves the bridge's seed, the job and the main loop as they are.
LEMMA SelectionQuiet ==
    ASSUME TypeOK, TypeOK', SelectionInvariant,
           UNCHANGED <<job, main, connected, requests, acks, toClient, client>>,
           bridge'.epoch = bridge.epoch, bridge'.pane = bridge.pane
    PROVE  SelectionInvariant'
BY SelectionServer DEF RequestsKept

\* One that ends or follows no wait for the browser's check.
LEMMA SelectionOther ==
    ASSUME TypeOK, TypeOK', SelectionInvariant, RequestsKept, UNCHANGED client,
           main'.id \in {0, main.id}, acks' \subseteq acks, job'.pc # "selectionAck",
           \/ UNCHANGED toClient
           \/ \E m : Send(m) /\ m.type \notin {"selection-check", "selection-result"}
    PROVE  SelectionInvariant'
<1>1. ASSUME NEW m, Send(m), m.type \notin {"selection-check", "selection-result"}
      PROVE  SelectionInvariant'
  <2>1. Appended(m)
    BY <1>1, AppendWire
  <2> QED
    BY <1>1, <2>1, SelectionServer
<1>2. CASE UNCHANGED toClient
  BY <1>2, SelectionServer
<1> QED
  BY <1>1, <1>2

LEMMA SelectionReader ==
    ASSUME TypeOK, TypeOK', HoldInvariant, SelectionInvariant, Reader
    PROVE  SelectionInvariant'
<1> DEFINE Kept == /\ UNCHANGED <<job, main, connected, requests, acks, client>>
                   /\ bridge'.epoch = bridge.epoch /\ bridge'.pane = bridge.pane
<1>1. ASSUME NEW own \in BOOLEAN, Record(own)
      PROVE  /\ bridge'.epoch = bridge.epoch /\ bridge'.pane = bridge.pane
             /\ \/ UNCHANGED toClient
                \/ /\ job.pc = "idle"
                   /\ \E m : /\ Send(m)
                             /\ m.type \notin {"selection-check", "selection-result"}
  <2>1. CASE HoldsOutput
    BY <1>1, <2>1, BridgeFields DEF Record, Bridges
  <2>2. CASE ~HoldsOutput
    <3> DEFINE m == Output(bridge.epoch, bridge.pane, bridge.offset, "live", own)
    <3>1. bridge.phase = "forward"
      BY <2>2, BridgeFields DEF HoldsOutput, Bridges
    <3>2. job.pc = "idle"
      BY <3>1 DEF HoldInvariant, LiveEmpty
    <3>3. Send(m) /\ m.type \notin {"selection-check", "selection-result"}
      BY <1>1, <2>2 DEF Record, Output
    <3>4. bridge'.epoch = bridge.epoch /\ bridge'.pane = bridge.pane
      BY <1>1, <2>2, BridgeFields DEF Record, Bridges
    <3> QED
      BY <3>2, <3>3, <3>4
  <2> QED
    BY <2>1, <2>2
<1>2. /\ UNCHANGED <<job, main, connected, requests, acks, client>>
      /\ \/ \E own \in BOOLEAN : Record(own)
         \/ UNCHANGED toClient /\ bridge'.epoch = bridge.epoch /\ bridge'.pane = bridge.pane
  <2>1. CASE \E p \in Panes : ReadOutput(p)
    BY <2>1, BridgeFields DEF ReadOutput, clientVars, Bridges
  <2>2. CASE ResumeReading
    <3>1. (bridge.reading = bridge.pane) \in BOOLEAN
      OBVIOUS
    <3> QED
      BY <2>2, <3>1 DEF ResumeReading, clientVars
  <2> QED
    BY <2>1, <2>2 DEF Reader
<1>3. CASE UNCHANGED toClient
  BY <1>1, <1>2, <1>3, SelectionQuiet
<1>4. CASE ~UNCHANGED toClient
  BY <1>1, <1>2, <1>4, SelectionOther DEF RequestsKept
<1> QED
  BY <1>3, <1>4

LEMMA SelectionBegin ==
    ASSUME TypeOK, TypeOK', SelectionInvariant,
           \/ MainReseed \/ HandleReseedRequest \/ HandleActivity
           \/ WatchReseed \/ Stabilize
    PROVE  SelectionInvariant'
<1>1. ASSUME NEW task, NEW reason, NEW next, BeginReseed(task, reason, next)
      PROVE  /\ UNCHANGED <<connected, acks, client>> /\ job'.pc = "startAck"
             /\ Send(SeedStart(bridge.epoch + 1))
             /\ SeedStart(bridge.epoch + 1).type = "seed-start"
  BY <1>1 DEF BeginReseed, NoJob, SeedStart, clientVars
<1>2. MainAt("busy").id = 0
  BY DEF MainAt
<1>3. ASSUME NEW task, NEW reason, NEW next, BeginReseed(task, reason, next),
             RequestsKept, main'.id \in {0, main.id}
      PROVE  SelectionInvariant'
  BY <1>1, <1>3, SelectionOther
<1>4. CASE MainReseed
  BY <1>2, <1>3, <1>4, <1>1 DEF MainReseed, RequestsKept
<1>5. CASE HandleReseedRequest
  <2>1. PICK reason \in {"history", "resize"} :
          /\ NextRequest(IF reason = "history" THEN "history-reseed" ELSE "resize")
          /\ BeginReseed("main", reason, NoPane)
          /\ main' = MainAt("busy")
    BY <1>5 DEF HandleReseedRequest
  <2>2. RequestsKept
    BY <1>1, <2>1 DEF NextRequest, RequestsKept
  <2> QED
    BY <1>2, <1>3, <2>1, <2>2
<1>6. CASE HandleActivity
  <2>1. CASE BeginReseed("main", "activity", NoPane) /\ main' = MainAt("busy")
    <3>1. RequestsKept
      BY <1>1, <1>6, <2>1 DEF HandleActivity, NextRequest, RequestsKept
    <3> QED
      BY <1>2, <1>3, <2>1, <3>1
  <2>2. CASE UNCHANGED <<tmuxVars, serverVars, connected, toClient, acks, clientVars>>
    <3>1. RequestsKept
      BY <1>6, <2>2 DEF HandleActivity, NextRequest, RequestsKept
    <3> QED
      BY <2>2, <3>1, SelectionServer DEF serverVars, clientVars
  <2> QED
    BY <1>6, <2>1, <2>2 DEF HandleActivity
<1>7. CASE WatchReseed \/ Stabilize
  BY <1>1, <1>3, <1>7 DEF WatchReseed, Stabilize, RequestsKept
<1> QED
  BY <1>4, <1>5, <1>6, <1>7

LEMMA SelectionSeed ==
    ASSUME TypeOK, TypeOK', SelectionInvariant,
           \/ StartAcked \/ TakeSnapshot \/ AcceptSnapshot \/ RetryCapture \/ GiveUp
           \/ InstallDegraded \/ SeedAcked \/ BeginFlush \/ EndFlush
    PROVE  SelectionInvariant'
<1>1. UNCHANGED <<main, connected, requests, client>>
  BY DEF StartAcked, TakeSnapshot, AcceptSnapshot, RetryCapture, GiveUp,
    InstallDegraded, SeedAcked, BeginFlush, EndFlush, netVars, clientVars
<1>2. acks' \subseteq acks
  BY DEF StartAcked, TakeSnapshot, AcceptSnapshot, RetryCapture, GiveUp,
    InstallDegraded, SeedAcked, BeginFlush, EndFlush, netVars, Acknowledged
<1>3. job'.pc # "selectionAck"
  <2>1. ASSUME NEW pc, Goto(pc) PROVE job'.pc = pc
    BY <2>1, GotoEffect
  <2>2. CASE StartAcked \/ RetryCapture \/ SeedAcked \/ BeginFlush \/ EndFlush
    <3>1. \E pc \in {"capture", "flush", "flushing", "flushAck"} : Goto(pc)
      BY <2>2 DEF StartAcked, RetryCapture, SeedAcked, BeginFlush, EndFlush
    <3> QED
      BY <2>1, <3>1
  <2>3. CASE AcceptSnapshot \/ InstallDegraded
    <3>1. Goto("seedAck")
      BY <2>3 DEF AcceptSnapshot, InstallDegraded, Install
    <3> QED
      BY <2>1, <3>1
  <2>4. CASE TakeSnapshot \/ GiveUp
    <3>1. job \in Jobs
      BY DEF TypeOK, ServerTypeOK
    <3>2. Goto("flush") \/ job'.pc \in {"verify", "linearize"}
      BY <2>4, <3>1 DEF TakeSnapshot, GiveUp, Jobs
    <3> QED
      BY <2>1, <3>2
  <2> QED
    BY <2>2, <2>3, <2>4
<1>4. \/ UNCHANGED toClient
      \/ \E m : Send(m) /\ m.type \notin {"selection-check", "selection-result"}
  <2>1. CASE AcceptSnapshot \/ InstallDegraded
    BY <2>1 DEF AcceptSnapshot, InstallDegraded, Install, SeedData
  <2>2. CASE GiveUp
    BY <2>2 DEF GiveUp, SeedResume
  <2>3. CASE EndFlush
    BY <2>3 DEF EndFlush, PostFlush
  <2>4. CASE StartAcked \/ TakeSnapshot \/ RetryCapture \/ SeedAcked \/ BeginFlush
    BY <2>4 DEF StartAcked, TakeSnapshot, RetryCapture, SeedAcked, BeginFlush, netVars
  <2> QED
    BY <2>1, <2>2, <2>3, <2>4
<1> QED
  BY <1>1, <1>2, <1>3, <1>4, SelectionOther DEF RequestsKept

LEMMA SelectionFlush ==
    ASSUME TypeOK, TypeOK', HoldInvariant, PipelineInvariant, SelectionInvariant,
           SendHeld \/ FlushAcked
    PROVE  SelectionInvariant'
<1>1. CASE SendHeld
  <2>1. /\ pending # {}
        /\ UNCHANGED <<job, main, connected, requests, acks, client>>
        /\ \E m : Send(m) /\ m.type \notin {"selection-check", "selection-result"}
    BY <1>1 DEF SendHeld, Output, clientVars
  <2>2. job.pc # "selectionAck"
    BY <2>1 DEF PipelineInvariant, PendingOwned, HoldInvariant, ReleaseLocked
  <2> QED
    BY <2>1, <2>2, SelectionOther DEF RequestsKept
<1>2. CASE FlushAcked
  <2>1. /\ job'.pc = "idle" /\ acks' \subseteq acks
        /\ UNCHANGED <<connected, requests, client>>
    BY <1>2 DEF FlushAcked, NoJob, Acknowledged, clientVars
  <2>3. /\ Send(SeedOpen(bridge.epoch, bridge.pane, bridge.cutoff))
        /\ SeedOpen(bridge.epoch, bridge.pane, bridge.cutoff).type = "seed-open"
    BY <1>2 DEF FlushAcked, SeedOpen
  <2>2. main'.id \in {0, main.id}
    BY <1>2 DEF FlushAcked, TaskReturns, MainAt
  <2> QED
    BY <2>1, <2>2, <2>3, SelectionOther DEF RequestsKept
<1> QED
  BY <1>1, <1>2

LEMMA SelectionLocks ==
    ASSUME TypeOK, TypeOK', HoldInvariant, SelectionInvariant,
           \/ BeginRelease \/ EndRelease \/ BeginSpeech \/ EndSpeech
           \/ WatchNotice \/ StabilizerStops
           \/ \E p \in Panes : PaneOutput(p) \/ SelectPane(p)
    PROVE  SelectionInvariant'
<1>1. CASE BeginRelease \/ EndRelease
  <2>1. /\ UNCHANGED <<job, connected, requests, acks, toClient, client>>
        /\ main'.id \in {0, main.id}
    BY <1>1 DEF BeginRelease, EndRelease, MainAt, netVars, clientVars
  <2>2. job.pc # "selectionAck"
    BY <1>1 DEF BeginRelease, EndRelease, MayRelease, HoldInvariant, SelectionHeld,
      ReleaseLocked
  <2> QED
    BY <2>1, <2>2, SelectionOther DEF RequestsKept
<1>2. CASE BeginSpeech \/ EndSpeech
  BY <1>2, SelectionQuiet DEF BeginSpeech, EndSpeech, netVars, clientVars
<1>3. CASE WatchNotice \/ StabilizerStops
  BY <1>3, SelectionQuiet DEF WatchNotice, StabilizerStops, netVars, clientVars
<1>4. CASE \E p \in Panes : PaneOutput(p) \/ SelectPane(p)
  BY <1>4, SelectionQuiet DEF PaneOutput, SelectPane, serverVars, netVars, clientVars
<1> QED
  BY <1>1, <1>2, <1>3, <1>4

LEMMA SelectionConnection ==
    ASSUME TypeOK, TypeOK', SelectionInvariant,
           StartAckTimeout \/ JobFails \/ Drop \/ HandleSwitch
    PROVE  SelectionInvariant'
<1>1. CASE CloseConnection /\ UNCHANGED <<toClient, client>>
  BY <1>1, SelectionOther DEF CloseConnection, NoJob, MainAt, RequestsKept
<1>2. CASE StartAckTimeout \/ Drop
  BY <1>1, <1>2 DEF StartAckTimeout, Drop, clientVars
<1>3. CASE JobFails
  <2>1. CASE CloseConnection
    BY <1>1, <1>3, <2>1 DEF JobFails, clientVars
  <2>2. CASE ~CloseConnection
    BY <1>3, <2>2, SelectionOther DEF JobFails, NoJob, RequestsKept, clientVars
  <2> QED
    BY <2>1, <2>2
<1>4. CASE HandleSwitch
  <2>1. requests # <<>> /\ requests' = Tail(requests) /\ connected' = connected
        /\ UNCHANGED <<acks, client>>
    BY <1>4 DEF HandleSwitch, NextRequest, clientVars
  <2>2. CASE UNCHANGED <<serverVars, toClient>>
    BY <2>1, <2>2, SelectionServer DEF serverVars, RequestsKept
  <2>3. CASE ~UNCHANGED <<serverVars, toClient>>
    <3>1. job'.pc = "idle" /\ main'.id = 0 /\ Send(Ready(Head(requests).session))
      BY <1>4, <2>3 DEF HandleSwitch, NoJob, MainAt
    <3>2. Ready(Head(requests).session).type = "ready"
      BY DEF Ready
    <3> QED
      BY <2>1, <3>1, <3>2, SelectionOther DEF RequestsKept
  <2> QED
    BY <2>2, <2>3
<1> QED
  BY <1>2, <1>3, <1>4

-----------------------------------------------------------------------------
(* Selections: the check and the answer                                    *)

\* Any other message goes behind the results on their way.
LEMMA ResultsAppend ==
    ASSUME TypeOK, ResultStage, NEW m, Appended(m), m.type # "selection-result",
           UNCHANGED client
    PROVE  ResultStage'
<1>1. \A i \in OnTheirWay({"selection-result"})' :
        i \in OnTheirWay({"selection-result"}) /\ toClient'[i] = toClient[i]
        /\ i \in 1..Len(toClient)
  BY TypesAppend
<1>2. \A i \in 1..Len(toClient) : \A j \in 1..Len(toClient') : j < i =>
        j \in 1..Len(toClient) /\ toClient'[j] = toClient[j]
  BY DEF Appended
<1> QED
  BY <1>1, <1>2 DEF ResultStage

LEMMA SelectionCheckSent ==
    ASSUME TypeOK, TypeOK', SelectionInvariant, HoldForSelection
    PROVE  SelectionInvariant'
<1> USE DEF SelectionInvariant
<1>1. /\ NextRequest("selection-request") /\ requests # <<>>
      /\ main'.id = Head(requests).id /\ job'.pc = "selectionAck"
      /\ Send(SelectionCheck(Head(requests).id))
      /\ UNCHANGED <<connected, acks, client>>
  BY DEF HoldForSelection, NextRequest, clientVars
<1>2. PICK n : n = Head(requests).id
  OBVIOUS
<1>3. Past(n)' /\ n \in Nat \ {0} /\ ~Past(n)
  BY <1>1, <1>2, HandledIsPast
<1> DEFINE m == SelectionCheck(n)
<1>4. Appended(m) /\ m.type = "selection-check" /\ m.id = n
  BY <1>1, <1>2, AppendWire DEF SelectionCheck
<1> HIDE DEF m
<1>5. RequestsKept
  BY <1>1 DEF NextRequest, RequestsKept
<1>6. IdsInOrder'
  <2>1. \A k : k = main'.id => Past(k)'
    BY <1>1, <1>2, <1>3
  <2>2. ASSUME NEW i \in OnTheirWay({"selection-check", "selection-result"})'
        PROVE  \/ /\ \A k : k = toClient'[i].id => Past(k)'
                  /\ toClient'[i].id # 0
               \/ \E j \in OnTheirWay({"selection-check", "selection-result"}) :
                    toClient'[i] = toClient[j]
    BY <1>3, <1>4, TypesAppend
  <2> QED
    BY <1>1, <1>5, <2>1, <2>2, IdsKept
<1>7. CheckStage'
  <2>1. connected'
    BY <1>1 DEF IdsInOrder
  <2>2. ASSUME NEW i \in OnTheirWay({"selection-check"})', toClient'[i].id = main'.id
        PROVE  Behind(i, {})'
    <3>1. CASE i = Len(toClient) + 1
      BY <1>4, <3>1, BehindLast
    <3>2. CASE i \in OnTheirWay({"selection-check"})
      <4>1. toClient[i].id = n
        BY <1>1, <1>2, <1>4, <2>2, <3>2, TypesAppend
      <4>2. i \in OnTheirWay({"selection-check", "selection-result"})
        BY <3>2 DEF OnTheirWay
      <4> QED
        BY <1>3, <4>1, <4>2 DEF IdsInOrder
    <3> QED
      BY <1>4, <3>1, <3>2, TypesAppend
  <2>3. \A ack \in acks' : ~(ack.of = "selection-check" /\ ack.id = main'.id)
    BY <1>1, <1>2, <1>3 DEF IdsInOrder
  <2> QED
    BY <2>1, <2>2, <2>3 DEF CheckStage
<1>8. ResultStage'
  BY <1>1, <1>4, ResultsAppend
<1> QED
  BY <1>6, <1>7, <1>8

LEMMA SelectionAnswered ==
    ASSUME TypeOK, TypeOK', SelectionInvariant, RequestsKept, UNCHANGED client,
           acks' \subseteq acks, job'.pc # "selectionAck",
           NEW id \in Nat \ {0}, NEW ok, Answer(id, ok), Past(id)',
           ok /\ client.selection.id = id =>
               toClient = <<>> /\ client.selection.checkedAt = client.revision
    PROVE  SelectionInvariant'
<1> USE DEF SelectionInvariant
<1> DEFINE m == SelectionResult(id, ok)
<1>1. Appended(m) /\ m.type = "selection-result" /\ m.id = id /\ m.ok = ok
  BY AnswerSends DEF SelectionResult
<1> HIDE DEF m
<1>2. main'.id = id
  BY DEF Answer, TypeOK, ServerTypeOK, MainStates
<1>3. IdsInOrder'
  <2>1. ASSUME NEW i \in OnTheirWay({"selection-check", "selection-result"})'
        PROVE  \/ /\ \A k : k = toClient'[i].id => Past(k)'
                  /\ toClient'[i].id # 0
               \/ \E j \in OnTheirWay({"selection-check", "selection-result"}) :
                    toClient'[i] = toClient[j]
    BY <1>1, TypesAppend
  <2>2. \A k : k = main'.id => Past(k)'
    BY <1>2
  <2> QED
    BY <2>1, <2>2, IdsKept
<1>4. CheckStage'
  BY DEF CheckStage
<1>5. ResultStage'
  <2> SUFFICES ASSUME NEW i \in OnTheirWay({"selection-result"})',
                      toClient'[i].ok, client.selection.id = toClient'[i].id
               PROVE  /\ client.selection.checkedAt = client.revision
                      /\ \A j \in 1..Len(toClient') :
                           j < i => toClient'[j].type = "selection-result"
    BY DEF ResultStage
  <2>1. CASE i = Len(toClient) + 1
    <3>1. toClient = <<>> /\ client.selection.checkedAt = client.revision
      BY <1>1, <2>1, TypesAppend
    <3>2. i = 1
      BY <2>1, <3>1
    <3> QED
      BY <1>1, <3>1, <3>2 DEF Appended
  <2>2. CASE i \in OnTheirWay({"selection-result"})
    <3>1. i \in 1..Len(toClient) /\ toClient'[i] = toClient[i]
      BY <1>1, <2>2, TypesAppend
    <3>2. \A j \in 1..Len(toClient') : j < i =>
            j \in 1..Len(toClient) /\ toClient'[j] = toClient[j]
      BY <1>1, <3>1 DEF Appended
    <3> QED
      BY <2>2, <3>1, <3>2 DEF ResultStage
  <2> QED
    BY <1>1, <2>1, <2>2, TypesAppend
<1> QED
  BY <1>3, <1>4, <1>5

LEMMA SelectionAnswer ==
    ASSUME TypeOK, TypeOK', HoldInvariant, SelectionInvariant,
           RejectSelection \/ SelectionAcked \/ SelectionAckTimeout
    PROVE  SelectionInvariant'
<1>1. CASE RejectSelection
  <2>1. /\ NextRequest("selection-request") /\ Answer(Head(requests).id, FALSE)
        /\ UNCHANGED <<job, connected, acks, client>>
    BY <1>1 DEF RejectSelection, clientVars
  <2>2. PICK n : n = Head(requests).id
    OBVIOUS
  <2>3. Past(n)' /\ n \in Nat \ {0}
    BY <2>1, <2>2, HandledIsPast DEF SelectionInvariant
  <2>4. job'.pc # "selectionAck"
    BY <2>1 DEF NextRequest, HoldInvariant, SelectionHeld
  <2>5. RequestsKept
    BY <2>1 DEF NextRequest, RequestsKept
  <2>6. Answer(n, FALSE)
    BY <2>1, <2>2
  <2> QED
    BY <2>1, <2>3, <2>4, <2>5, <2>6, SelectionAnswered
<1>2. ASSUME NEW ok, At("selectionAck"), Answer(main.id, ok), job' = NoJob,
             UNCHANGED <<connected, requests, client>>, acks' \subseteq acks,
             ok => \E ack \in acks : /\ ack.of = "selection-check" /\ ack.id = main.id
                                     /\ ack.ok
      PROVE  SelectionInvariant'
  <2>1. PICK n : n = main.id
    OBVIOUS
  <2>2. n \in Nat \ {0} /\ Past(n)
    BY <1>2, <2>1 DEF At, HoldInvariant, SelectionHeld, TypeOK, ServerTypeOK, MainStates,
      SelectionInvariant, IdsInOrder
  <2>3. Past(n)'
    BY <1>2, <2>2 DEF Past, AskedAt
  <2>4. ok /\ client.selection.id = n =>
          toClient = <<>> /\ client.selection.checkedAt = client.revision
    BY <1>2, <2>1 DEF At, SelectionInvariant, CheckStage, OnScreen
  <2>5. Answer(n, ok) /\ job'.pc # "selectionAck" /\ RequestsKept
    BY <1>2, <2>1 DEF NoJob, RequestsKept
  <2> QED
    BY <1>2, <2>2, <2>3, <2>4, <2>5, SelectionAnswered
<1>3. CASE SelectionAcked
  <2>1. PICK ack \in acks, ok \in BOOLEAN :
          /\ ack.of = "selection-check" /\ ack.id = main.id
          /\ acks' = acks \ {ack}
          /\ ok => Acceptable(ack)
          /\ Answer(main.id, ok)
    BY <1>3 DEF SelectionAcked
  <2>2. At("selectionAck") /\ job' = NoJob /\ UNCHANGED <<connected, requests, client>>
    BY <1>3 DEF SelectionAcked, clientVars
  <2> QED
    BY <1>2, <2>1, <2>2 DEF Acceptable
<1>4. CASE SelectionAckTimeout
  BY <1>2, <1>4 DEF SelectionAckTimeout, clientVars
<1> QED
  BY <1>1, <1>3, <1>4

-----------------------------------------------------------------------------
(* Selections: what the browser asks, and a new connection                 *)

LEMMA AskKeeps ==
    ASSUME NEW r \in ClientRequests, r.type # "selection-request", Ask(r),
           connected' = connected
    PROVE  RequestsKept
BY DEF Ask, RequestsKept

\* What moves neither the screen nor a selection, but may forget the selection.
LEMMA SelectionForgets ==
    ASSUME TypeOK, TypeOK', HoldInvariant, SelectionInvariant, RequestsKept,
           UNCHANGED <<bridge, job, main, connected, toClient, acks>>,
           client'.selections = client.selections,
           client'.selection = client.selection \/ client'.selection = NoSelection,
           client'.revision = client.revision, client'.epoch = client.epoch,
           client'.pane = client.pane
    PROVE  SelectionInvariant'
<1> USE DEF SelectionInvariant
<1>1. client'.selection = client.selection \/ client'.selection.id = 0
  BY DEF NoSelection
<1>2. IdsInOrder'
  <2>1. \A i \in OnTheirWay({"selection-check", "selection-result"})' :
          \E j \in OnTheirWay({"selection-check", "selection-result"}) :
            toClient'[i] = toClient[j]
    BY IdsOnTheirWay
  <2> QED
    BY <1>1, <2>1, IdsKept
<1>3. CheckStage'
  <2> SUFFICES ASSUME job.pc = "selectionAck" PROVE CheckStage'
    BY DEF CheckStage
  <2>1. main.id # 0
    BY DEF HoldInvariant, SelectionHeld
  <2>2. \A i : Behind(i, {})' <=> Behind(i, {})
    BY DEF Behind
  <2>3. OnTheirWay({"selection-check"})' = OnTheirWay({"selection-check"})
    BY TypesSame
  <2>4. client'.selection.id = main.id => client'.selection = client.selection
    BY <1>1, <2>1
  <2>5. OnScreen /\ client'.selection = client.selection => OnScreen'
    BY DEF OnScreen
  <2> QED
    BY <2>2, <2>3, <2>4, <2>5 DEF CheckStage
<1>4. ResultStage'
  <2>1. OnTheirWay({"selection-result"})' = OnTheirWay({"selection-result"})
    BY TypesSame
  <2>2. \A i \in OnTheirWay({"selection-result"}) : toClient[i].id # 0
    BY DEF IdsInOrder, OnTheirWay
  <2> QED
    BY <1>1, <2>1, <2>2 DEF ResultStage
<1> QED
  BY <1>2, <1>3, <1>4

LEMMA SelectionAsked ==
    ASSUME TypeOK, TypeOK', HoldInvariant, SelectionInvariant,
           \/ WatchdogWhenStuck \/ SlowWatchdog \/ ClientBacklog \/ ClientRequest
           \/ ClientSelectionTimeout \/ ClientSwitch
    PROVE  SelectionInvariant'
<1>1. \A type \in {"history-reseed", "resize", "activity"} :
        Request(type) \in ClientRequests /\ Request(type).type # "selection-request"
  BY DEF Request, ClientRequests
<1>2. \A s \in Sessions : SwitchRequest(s) \in ClientRequests
                          /\ SwitchRequest(s).type # "selection-request"
  BY DEF SwitchRequest, ClientRequests
<1>3. UNCHANGED <<bridge, job, main, connected, toClient, acks>>
  BY DEF WatchdogWhenStuck, SlowWatchdog, ClientBacklog, ClientRequest,
    ClientSelectionTimeout, ClientSwitch, RecoveryWatchdog, serverVars, netVars
<1>4. ASSUME NEW arrived, RecoveryReseed(arrived)
      PROVE  SelectionInvariant'
  <2>1. RequestsKept
    BY <1>1, <1>3, <1>4, AskKeeps DEF RecoveryReseed
  <2>2. /\ client'.selections = client.selections /\ client'.selection = client.selection
        /\ client'.revision = client.revision /\ client'.epoch = client.epoch
        /\ client'.pane = client.pane
    BY <1>4, ClientFields DEF RecoveryReseed, Clients
  <2> QED
    BY <1>3, <2>1, <2>2, SelectionForgets
<1>5. CASE WatchdogWhenStuck \/ SlowWatchdog \/ ClientBacklog
  BY <1>4, <1>5 DEF WatchdogWhenStuck, SlowWatchdog, ClientBacklog, RecoveryWatchdog
<1>6. CASE ClientRequest
  <2>1. RequestsKept
    BY <1>1, <1>3, <1>6, AskKeeps DEF ClientRequest
  <2>2. UNCHANGED client
    BY <1>6 DEF ClientRequest, clientVars
  <2> QED
    BY <1>3, <2>1, <2>2, SelectionForgets
<1>7. CASE ClientSelectionTimeout
  <2>1. RequestsKept
    BY <1>7 DEF ClientSelectionTimeout, netVars, RequestsKept
  <2>2. /\ client'.selections = client.selections /\ client'.selection = NoSelection
        /\ client'.revision = client.revision /\ client'.epoch = client.epoch
        /\ client'.pane = client.pane
    BY <1>7, ClientFields DEF ClientSelectionTimeout, Clients
  <2> QED
    BY <1>3, <2>1, <2>2, SelectionForgets
<1>8. CASE ClientSwitch
  <2>1. RequestsKept
    <3>1. CASE UNCHANGED requests
      BY <1>3, <3>1 DEF RequestsKept
    <3>2. CASE ~UNCHANGED requests
      BY <1>2, <1>3, <1>8, <3>2, AskKeeps DEF ClientSwitch
    <3> QED
      BY <3>1, <3>2
  <2>2. /\ client'.selections = client.selections /\ client'.selection = client.selection
        /\ client'.revision = client.revision /\ client'.epoch = client.epoch
        /\ client'.pane = client.pane
    BY <1>8, ClientFields DEF ClientSwitch, Clients
  <2> QED
    BY <1>3, <2>1, <2>2, SelectionForgets
<1> QED
  BY <1>5, <1>6, <1>7, <1>8

\* A new request is of a number that nothing on its way has.
LEMMA SelectionNew ==
    ASSUME TypeOK, TypeOK', HoldInvariant, SelectionInvariant, ClientSelect
    PROVE  SelectionInvariant'
<1> USE DEF SelectionInvariant
<1>1. PICK n : n = client.selections + 1
  OBVIOUS
<1>2. n \in Nat /\ client.selections \in Nat /\ client.selections < n
  BY <1>1, ClientFields
<1>3. PICK r : r.type = "selection-request" /\ r.id = n /\ requests' = Append(requests, r)
  BY <1>1 DEF ClientSelect, Ask, SelectionRequest
<1>4. /\ client'.selections = n /\ client'.selection.id = n
      /\ UNCHANGED <<bridge, job, main, connected, toClient, acks>> /\ connected
  BY <1>1, ClientFields DEF ClientSelect, Clients, serverVars
<1>5. /\ Len(requests) \in Nat /\ Len(requests') = Len(requests) + 1
      /\ \A i \in 1..Len(requests) : requests'[i] = requests[i]
      /\ requests'[Len(requests) + 1] = r
  BY <1>3 DEF TypeOK, NetTypeOK
<1>6. /\ \A i \in AskedAt' :
          \/ i \in AskedAt /\ i \in 1..Len(requests) /\ requests'[i] = requests[i]
          \/ i = Len(requests) + 1 /\ requests'[i].id = n
      /\ \A i \in AskedAt : requests[i].id \in Nat /\ requests[i].id <= client.selections
  BY <1>3, <1>5, AskedFields DEF AskedAt, IdsInOrder
<1>7. \A id \in Nat : Past(id) => Past(id)' /\ id # n
  BY <1>2, <1>4, <1>6 DEF Past
<1>8. /\ main.id \in Nat
      /\ \A i \in OnTheirWay({"selection-check", "selection-result"}) : toClient[i].id \in Nat
      /\ \A ack \in acks : ack.id \in Nat
  <2>1. ASSUME NEW i \in OnTheirWay({"selection-check", "selection-result"})
        PROVE  toClient[i].id \in Nat
    <3>1. toClient[i] \in ServerMessages
          /\ toClient[i].type \in {"selection-check", "selection-result"}
      BY WireElement DEF OnTheirWay
    <3> QED
      BY <3>1 DEF ServerMessages
  <2> QED
    BY <2>1 DEF TypeOK, ServerTypeOK, NetTypeOK, MainStates, Acks
<1>9. OnTheirWay({"selection-check", "selection-result"})'
        = OnTheirWay({"selection-check", "selection-result"})
      /\ OnTheirWay({"selection-check"})' = OnTheirWay({"selection-check"})
      /\ OnTheirWay({"selection-result"})' = OnTheirWay({"selection-result"})
  BY <1>4, TypesSame
<1>10. IdsInOrder'
  <2>1. \A id : id = main'.id => Past(id)'
    BY <1>4, <1>7, <1>8 DEF IdsInOrder
  <2>2. \A i \in OnTheirWay({"selection-check", "selection-result"})' :
          toClient'[i].id # 0 /\ \A id : id = toClient'[i].id => Past(id)'
    BY <1>4, <1>7, <1>8, <1>9 DEF IdsInOrder
  <2>3. \A ack \in acks' : ack.of = "selection-check" => \A id : id = ack.id => Past(id)'
    BY <1>4, <1>7, <1>8 DEF IdsInOrder
  <2>4. /\ \A i \in AskedAt' : requests'[i].id <= n
        /\ \A i, j \in AskedAt' : i < j => requests'[i].id < requests'[j].id
    <3>1. \A i \in AskedAt' : requests'[i].id <= n
      BY <1>2, <1>6
    <3>2. ASSUME NEW i \in AskedAt', NEW j \in AskedAt', i < j
          PROVE  requests'[i].id < requests'[j].id
      <4>1. i \in AskedAt /\ requests'[i] = requests[i]
        BY <1>5, <1>6, <3>2
      <4>2. CASE j = Len(requests) + 1 /\ requests'[j].id = n
        BY <1>2, <1>6, <4>1, <4>2
      <4>3. CASE j \in AskedAt /\ requests'[j] = requests[j]
        BY <3>2, <4>1, <4>3 DEF IdsInOrder
      <4> QED
        BY <1>6, <4>2, <4>3
    <3> QED
      BY <3>1, <3>2
  <2> QED
    BY <1>2, <1>4, <2>1, <2>2, <2>3, <2>4 DEF IdsInOrder, Past
<1>11. CheckStage'
  <2>1. \A i : Behind(i, {})' <=> Behind(i, {})
    BY <1>4 DEF Behind
  <2>2. main.id # n
    BY <1>7, <1>8 DEF IdsInOrder
  <2> QED
    BY <1>4, <1>9, <2>1, <2>2 DEF CheckStage
<1>12. ResultStage'
  <2>1. \A i \in OnTheirWay({"selection-result"}) : toClient[i].id # n
    BY <1>7, <1>8 DEF IdsInOrder, OnTheirWay
  <2> QED
    BY <1>4, <1>9, <2>1 DEF ResultStage
<1> QED
  BY <1>10, <1>11, <1>12

LEMMA SelectionConnected ==
    ASSUME TypeOK, TypeOK', Connect
    PROVE  SelectionInvariant'
<1>1. /\ connected' /\ requests' = <<>> /\ acks' = {} /\ job'.pc = "idle" /\ main'.id = 0
      /\ client'.selection.id = 0 /\ toClient' = <<Ready(client.selected)>>
  BY ClientFields DEF Connect, NoJob, MainAt, NoSelection, Clients
<1>2. /\ OnTheirWay({"selection-check", "selection-result"})' = {}
      /\ OnTheirWay({"selection-check"})' = {} /\ OnTheirWay({"selection-result"})' = {}
  BY <1>1 DEF OnTheirWay, Ready
<1>3. AskedAt' = {} /\ client'.selections \in Nat
  <2>1. AskedAt' = {}
    BY <1>1 DEF AskedAt
  <2>2. client'.selections \in Nat
    BY DEF TypeOK, ClientTypeOK, Clients
  <2> QED
    BY <2>1, <2>2
<1>4. \A id : id = 0 => Past(id)'
  BY <1>3 DEF Past
<1>5. IdsInOrder'
  BY <1>1, <1>2, <1>3, <1>4 DEF IdsInOrder, Past
<1>6. CheckStage' /\ ResultStage'
  BY <1>1, <1>2 DEF CheckStage, ResultStage
<1> QED
  BY <1>5, <1>6 DEF SelectionInvariant

LEMMA SelectionInit == Init => SelectionInvariant
<1> SUFFICES ASSUME Init PROVE SelectionInvariant
  OBVIOUS
<1>1. /\ requests = <<>> /\ acks = {} /\ job.pc = "idle" /\ main.id = 0
      /\ client.selection.id = 0 /\ client.selections = 0
  BY DEF Init, NoJob, MainAt, NoSelection
<1>2. PICK s \in Sessions : toClient = <<Ready(s)>>
  BY DEF Init
<1>3. /\ OnTheirWay({"selection-check", "selection-result"}) = {}
      /\ OnTheirWay({"selection-check"}) = {} /\ OnTheirWay({"selection-result"}) = {}
  BY <1>2 DEF OnTheirWay, Ready
<1>4. AskedAt = {}
  BY <1>1 DEF AskedAt
<1>5. IdsInOrder
  BY <1>1, <1>3, <1>4 DEF IdsInOrder, Past
<1>6. CheckStage /\ ResultStage
  BY <1>1, <1>3 DEF CheckStage, ResultStage
<1> QED
  BY <1>5, <1>6 DEF SelectionInvariant

-----------------------------------------------------------------------------
(* Selections: what the browser handles                                    *)

LEMMA SelectionPop ==
    ASSUME TypeOK, TypeOK', SelectionInvariant,
           toClient # <<>>, toClient' = Tail(toClient), RequestsKept,
           UNCHANGED <<bridge, job, main, connected>>,
           client'.selections = client.selections,
           client'.selection.id \in {0, client.selection.id},
           NEW new, \A ack \in acks' : ack.of = "selection-check" =>
                        ack \in acks \/ (ack = new /\ toClient[1].type = "selection-check"
                                                   /\ ack.id = toClient[1].id),
           job.pc = "selectionAck" /\ toClient[1].type = "selection-check"
             /\ toClient[1].id = main.id /\ new.ok /\ client'.selection.id = main.id
               => OnScreen',
           toClient[1].type = "selection-result" =>
               /\ client'.revision = client.revision
               /\ client'.selection = client.selection \/ client'.selection.id = 0
    PROVE  SelectionInvariant'
<1> USE DEF SelectionInvariant
<1>1. Popped /\ Head(toClient) = toClient[1] /\ 1 \in 1..Len(toClient)
  BY PopWire
<1>2. ASSUME NEW ack \in acks', ack.of = "selection-check", ack \notin acks
      PROVE  /\ 1 \in OnTheirWay({"selection-check"})
             /\ 1 \in OnTheirWay({"selection-check", "selection-result"})
  BY <1>1, <1>2 DEF OnTheirWay
<1>3. IdsInOrder'
  <2>1. \A i \in OnTheirWay({"selection-check", "selection-result"})' :
          \E j \in OnTheirWay({"selection-check", "selection-result"}) :
            toClient'[i] = toClient[j]
    BY <1>1, IdsOnTheirWay
  <2>2. \A n : Past(n) => Past(n)'
    BY PastKept
  <2>3. \A ack \in acks' : ack.of = "selection-check" =>
          ack \in acks \/ \A n : n = ack.id => Past(n)'
    BY <1>2, <2>2 DEF IdsInOrder
  <2>4. main'.id \in {0, main.id}
    OBVIOUS
  <2> QED
    BY <2>1, <2>3, <2>4, IdsKept
<1>4. CheckStage'
  <2> SUFFICES ASSUME job.pc = "selectionAck" PROVE CheckStage'
    BY DEF CheckStage
  <2>1. connected'
    BY DEF CheckStage
  <2>2. ASSUME NEW i \in OnTheirWay({"selection-check"})', toClient'[i].id = main.id
        PROVE  Behind(i, {})'
    <3>1. i \in Nat /\ i + 1 \in OnTheirWay({"selection-check"})
          /\ toClient'[i] = toClient[i + 1]
      BY <1>1, <2>2, TypesPop
    <3>2. Behind(i + 1, {})
      BY <2>2, <3>1 DEF CheckStage
    <3> QED
      BY <1>1, <3>1, <3>2, BehindPop
  <2>3. ASSUME NEW ack \in acks', ack.of = "selection-check", ack.id = main.id
        PROVE  /\ toClient' = <<>>
               /\ ack.ok /\ client'.selection.id = main.id => OnScreen'
    <3>1. ack \notin acks
      BY <2>3 DEF CheckStage
    <3>2. ack = new /\ toClient[1].type = "selection-check" /\ toClient[1].id = main.id
      BY <2>3, <3>1
    <3>3. Behind(1, {})
      BY <1>2, <2>3, <3>1, <3>2 DEF CheckStage
    <3>4. Len(toClient) = 1
      BY <1>1, <3>3 DEF Behind, Popped
    <3>5. toClient' = <<>>
      BY <3>4 DEF TypeOK, NetTypeOK
    <3> QED
      BY <3>2, <3>5
  <2> QED
    BY <2>1, <2>2, <2>3 DEF CheckStage
<1>5. ResultStage'
  <2> SUFFICES ASSUME NEW i \in OnTheirWay({"selection-result"})',
                      toClient'[i].ok, client'.selection.id = toClient'[i].id
               PROVE  /\ client'.selection.checkedAt = client'.revision
                      /\ \A j \in 1..Len(toClient') :
                           j < i => toClient'[j].type = "selection-result"
    BY DEF ResultStage
  <2>1. /\ i \in Nat \ {0} /\ i + 1 \in OnTheirWay({"selection-result"})
        /\ i + 1 \in OnTheirWay({"selection-check", "selection-result"})
        /\ toClient'[i] = toClient[i + 1]
    BY <1>1, TypesPop DEF OnTheirWay
  <2>2. client'.selection.id # 0 /\ client.selection.id = toClient[i + 1].id
    BY <2>1 DEF IdsInOrder
  <2>3. /\ client.selection.checkedAt = client.revision
        /\ \A j \in 1..Len(toClient) : j < i + 1 => toClient[j].type = "selection-result"
    BY <2>1, <2>2 DEF ResultStage
  <2>4. toClient[1].type = "selection-result"
    BY <1>1, <2>1, <2>3
  <2>5. \A j \in 1..Len(toClient') :
          j < i => j + 1 \in 1..Len(toClient) /\ j + 1 < i + 1
                   /\ toClient'[j] = toClient[j + 1]
    BY <1>1, <2>1 DEF Popped
  <2> QED
    BY <2>2, <2>3, <2>4, <2>5
<1> QED
  BY <1>3, <1>4, <1>5

LEMMA IntervalStart ==
    ASSUME NEW a \in Nat, NEW b \in Nat, NEW c \in Nat, a <= c, b <= c,
           Interval(a, c) = Interval(b, c)
    PROVE  a = b
<1>1. CASE a < b
  BY <1>1, IntervalElement
<1>2. CASE b < a
  BY <1>2, IntervalElement
<1> QED
  BY <1>1, <1>2

\* Behind the check there is nothing, so that the screen stands at the first byte
\* of the hold.
LEMMA CheckOnScreen ==
    ASSUME TypeOK, HoldInvariant, PipelineInvariant, CheckStage,
           job.pc = "selectionAck", toClient # <<>>,
           toClient[1].type = "selection-check", toClient[1].id = main.id,
           client.authoritative
    PROVE  /\ client.revision = job.candidate
           /\ client.epoch = bridge.epoch
           /\ client.pane = bridge.pane
<1>1. /\ bridge.hold # 0 /\ job.candidate <= bridge.offset
      /\ bridge.held = Interval(job.candidate, bridge.offset)
  BY DEF HoldInvariant, SelectionHeld
<1>2. Live /\ Following
  BY <1>1 DEF Live, Following, CheckStage, PipelineInvariant, AuthoritySettled
<1>3. OfSeed(client) /\ Stream(client.revision)
  BY <1>2, LiveQuiet DEF PipelineInvariant, InStep, CheckStage
<1>4. Outputs = {}
  <2>1. toClient \in Seq(ServerMessages) /\ Len(toClient) \in Nat \ {0}
    BY DEF TypeOK, NetTypeOK
  <2>2. 1 \in OnTheirWay({"selection-check"})
    BY <2>1 DEF OnTheirWay
  <2>3. Behind(1, {})
    BY <2>2 DEF CheckStage
  <2>4. \A i \in 1..Len(toClient) : i = 1
    BY <2>1, <2>3 DEF Behind
  <2> QED
    BY <2>4 DEF Outputs, OnTheirWay
<1>5. pending = {}
  BY DEF PipelineInvariant, PendingOwned, HoldInvariant, ReleaseLocked
<1>6. Interval(client.revision, bridge.offset) = Interval(job.candidate, bridge.offset)
      /\ client.revision <= bridge.offset
  BY <1>1, <1>3, <1>4, <1>5 DEF Stream, Starts, Waiting
<1>7. client.revision \in Nat /\ job.candidate \in Nat /\ bridge.offset \in Nat
  BY ClientFields, BridgeFields DEF TypeOK, ServerTypeOK, Jobs
<1>8. client.revision = job.candidate
  BY <1>1, <1>6, <1>7, IntervalStart
<1> QED
  BY <1>3, <1>8 DEF OfSeed

\* Everything but a check and a result.
LEMMA SelectionPasses ==
    ASSUME TypeOK, TypeOK', SelectionInvariant,
           toClient # <<>>, toClient' = Tail(toClient), RequestsKept,
           UNCHANGED <<bridge, job, main, connected>>,
           Head(toClient).type \notin {"selection-check", "selection-result"},
           client'.selections = client.selections,
           client'.selection = client.selection,
           \A ack \in acks' : ack.of = "selection-check" => ack \in acks
    PROVE  SelectionInvariant'
<1>1. Head(toClient) = toClient[1]
  BY PopWire
<1>2. PICK new : new = [ok |-> TRUE]
  OBVIOUS
<1> QED
  BY <1>1, SelectionPop

LEMMA SelectionHandles ==
    ASSUME TypeOK, TypeOK', SelectionInvariant,
           \/ ClientSeedStart \/ ClientSeedResume \/ ClientSeedData \/ ClientDropOutput
           \/ ClientOutput \/ ClientPostFlush \/ ClientSeedOpen \/ ClientReady
    PROVE  SelectionInvariant'
<1>1. CASE Connect
  BY <1>1, SelectionConnected
<1> SUFFICES ASSUME ~Connect PROVE SelectionInvariant'
  BY <1>1
<1>2. /\ toClient # <<>> /\ toClient' = Tail(toClient)
      /\ Head(toClient).type \notin {"selection-check", "selection-result"}
      /\ UNCHANGED <<bridge, job, main, connected>>
  BY DEF ClientSeedStart, ClientSeedResume, ClientSeedData, ClientDropOutput,
    ClientOutput, ClientPostFlush, ClientSeedOpen, ClientReady, Receive, serverVars
<1>3. RequestsKept
  <2>1. CASE UNCHANGED requests
    BY <1>2, <2>1 DEF RequestsKept
  <2>2. CASE FlushResize
    <3>1. Request("resize") \in ClientRequests /\ Request("resize").type # "selection-request"
      BY DEF Request, ClientRequests
    <3> QED
      BY <1>2, <2>1, <2>2, <3>1, AskKeeps DEF FlushResize
  <2> QED
    BY <2>1, <2>2 DEF ClientSeedStart, ClientSeedResume, ClientSeedData,
      ClientDropOutput, ClientOutput, ClientPostFlush, ClientSeedOpen, ClientReady
<1>4. \A ack \in acks' : ack.of = "selection-check" => ack \in acks
  BY DEF ClientSeedStart, ClientSeedResume, ClientSeedData, ClientDropOutput,
    ClientOutput, ClientPostFlush, ClientSeedOpen, ClientReady, SendAck, Ack
<1>5. Taken.selections = client.selections /\ Taken.selection = client.selection
      /\ Taken \in Clients
  BY ClientFields, TakenType DEF Taken, Clients
<1>6. client'.selections = client.selections /\ client'.selection = client.selection
  <2>1. CASE ClientSeedStart
    BY <2>1, ClientFields DEF ClientSeedStart, SeedBegun, Clients
  <2>2. CASE ClientSeedResume \/ ClientSeedData \/ ClientOutput \/ ClientPostFlush
    BY <1>5, <2>2 DEF ClientSeedResume, ClientSeedData, ClientOutput, ClientPostFlush,
      Clients
  <2>3. CASE ClientDropOutput
    BY <2>3 DEF ClientDropOutput, clientVars
  <2>4. CASE ClientSeedOpen \/ ClientReady
    BY <1>5, <2>4 DEF ClientSeedOpen, ClientReady, Clients
  <2> QED
    BY <2>1, <2>2, <2>3, <2>4
<1> QED
  BY <1>2, <1>3, <1>4, <1>6, SelectionPasses

LEMMA SelectionTold ==
    ASSUME TypeOK, TypeOK', SelectionInvariant, ClientSelectionResult
    PROVE  SelectionInvariant'
<1>1. /\ toClient # <<>> /\ toClient' = Tail(toClient)
      /\ Head(toClient).type = "selection-result"
      /\ UNCHANGED <<bridge, job, main, connected, requests, acks>>
  BY DEF ClientSelectionResult, Receive, serverVars
<1>2. Head(toClient) = toClient[1]
  BY <1>1, PopWire
<1>3. /\ Taken.selections = client.selections /\ Taken.selection = client.selection
      /\ Taken.revision = client.revision /\ Taken \in Clients
  BY ClientFields, TakenType DEF Taken, Clients
<1>4. /\ client'.selections = client.selections /\ client'.revision = client.revision
      /\ client'.selection = client.selection \/ client'.selection.id = 0
  BY <1>3 DEF ClientSelectionResult, NoSelection, Clients
<1>5. RequestsKept
  BY <1>1 DEF RequestsKept
<1>6. PICK new : new = [ok |-> TRUE]
  OBVIOUS
<1> QED
  BY <1>1, <1>2, <1>4, <1>5, SelectionPop

\* The browser answers the check.
LEMMA SelectionChecked ==
    ASSUME TypeOK, TypeOK', HoldInvariant, PipelineInvariant, SelectionInvariant,
           ClientSelectionCheck
    PROVE  SelectionInvariant'
<1>1. /\ toClient # <<>> /\ toClient' = Tail(toClient)
      /\ Head(toClient).type = "selection-check"
      /\ UNCHANGED <<bridge, job, main, connected, requests>>
      /\ SendAck("selection-check", Head(toClient).id,
                 SelectionIsCurrent(Head(toClient).id))
  BY DEF ClientSelectionCheck, Receive, serverVars
<1>2. Head(toClient) = toClient[1]
  BY <1>1, PopWire
<1>3. PICK id : id = toClient[1].id
  OBVIOUS
<1>4. PICK new : new = Ack("selection-check", id, SelectionIsCurrent(id))
  OBVIOUS
<1>5. new.id = id /\ (new.ok => client.authoritative /\ client.selection.id = id)
  BY <1>4 DEF Ack, SelectionIsCurrent
<1>6. \A ack \in acks' : ack \in acks \/ ack = new
  BY <1>1, <1>2, <1>3, <1>4 DEF SendAck
<1>7. /\ Taken.selections = client.selections /\ Taken.selection = client.selection
      /\ Taken.revision = client.revision /\ Taken.epoch = client.epoch
      /\ Taken.pane = client.pane /\ Taken \in Clients
      /\ Taken.selection \in [id: Nat, epoch: Nat, checkedAt: Nat]
  BY ClientFields, TakenType DEF Taken, Clients
<1>8. /\ client'.selections = client.selections /\ client'.revision = client.revision
      /\ client'.epoch = client.epoch /\ client'.pane = client.pane
      /\ client'.selection.id = client.selection.id
      /\ client.selection.id = id => client'.selection.checkedAt = client.revision
  <2>1. CASE client.selection.id = id
    <3>1. client' = [Taken EXCEPT !.selection.checkedAt = client.revision]
      BY <1>2, <1>3, <2>1 DEF ClientSelectionCheck
    <3> QED
      BY <1>7, <3>1 DEF Clients
  <2>2. CASE client.selection.id # id
    BY <1>2, <1>3, <1>7, <2>2 DEF ClientSelectionCheck
  <2> QED
    BY <2>1, <2>2
<1>9. ASSUME job.pc = "selectionAck", id = main.id, new.ok
      PROVE  OnScreen'
  <2>1. /\ client.revision = job.candidate /\ client.epoch = bridge.epoch
        /\ client.pane = bridge.pane
    BY <1>1, <1>2, <1>3, <1>5, <1>9, CheckOnScreen DEF SelectionInvariant
  <2> QED
    BY <1>1, <1>5, <1>8, <1>9, <2>1 DEF OnScreen
<1>10. RequestsKept
  BY <1>1 DEF RequestsKept
<1> QED
  BY <1>1, <1>2, <1>3, <1>5, <1>6, <1>8, <1>9, <1>10, SelectionPop

-----------------------------------------------------------------------------
(* Theorems on selections                                                  *)

LEMMA SelectionStep ==
    TypeOK /\ TypeOK' /\ HoldInvariant /\ PipelineInvariant /\ SelectionInvariant
      /\ [Next]_vars => SelectionInvariant'
<1> SUFFICES ASSUME TypeOK, TypeOK', HoldInvariant, PipelineInvariant,
                    SelectionInvariant, [Next]_vars
             PROVE  SelectionInvariant'
  OBVIOUS
<1>1. CASE Reader
  BY <1>1, SelectionReader
<1>2. CASE Server
  <2>1. CASE MainReseed \/ HandleReseedRequest \/ HandleActivity \/ WatchReseed \/ Stabilize
    BY <2>1, SelectionBegin
  <2>2. CASE \/ StartAcked \/ TakeSnapshot \/ AcceptSnapshot \/ RetryCapture
             \/ InstallDegraded \/ SeedAcked \/ BeginFlush \/ EndFlush
    BY <2>2, SelectionSeed
  <2>3. CASE SendHeld \/ FlushAcked
    BY <2>3, SelectionFlush
  <2>4. CASE HoldForSelection \/ RejectSelection \/ SelectionAcked
    BY <2>4, SelectionCheckSent, SelectionAnswer
  <2>5. CASE BeginRelease \/ EndRelease \/ EndSpeech \/ WatchNotice \/ StabilizerStops
    BY <2>5, SelectionLocks
  <2>6. CASE HandleSwitch
    BY <2>6, SelectionConnection
  <2> QED
    BY <1>2, <2>1, <2>2, <2>3, <2>4, <2>5, <2>6 DEF Server
<1>3. CASE Browser
  <2>1. CASE \/ ClientSeedStart \/ ClientSeedResume \/ ClientSeedData \/ ClientDropOutput
             \/ ClientOutput \/ ClientPostFlush \/ ClientSeedOpen \/ ClientReady
    BY <2>1, SelectionHandles
  <2>2. CASE ClientSelectionCheck \/ ClientSelectionResult
    BY <2>2, SelectionChecked, SelectionTold
  <2>3. CASE WatchdogWhenStuck \/ Reconnect
    BY <2>3, SelectionAsked, SelectionConnected DEF Reconnect
  <2> QED
    BY <1>3, <2>1, <2>2, <2>3 DEF Browser
<1>4. CASE Environment
  <2>1. CASE GiveUp \/ BeginSpeech \/ \E p \in Panes : PaneOutput(p) \/ SelectPane(p)
    BY <2>1, SelectionSeed, SelectionLocks
  <2>2. CASE StartAckTimeout \/ JobFails \/ Drop
    BY <2>2, SelectionConnection
  <2>3. CASE \/ SlowWatchdog \/ ClientBacklog \/ ClientRequest
             \/ ClientSelectionTimeout \/ ClientSwitch
    BY <2>3, SelectionAsked
  <2>4. CASE ClientSelect \/ SelectionAckTimeout
    BY <2>4, SelectionNew, SelectionAnswer
  <2> QED
    BY <1>4, <2>1, <2>2, <2>3, <2>4 DEF Environment
<1>5. CASE UNCHANGED vars
  <2>1. UNCHANGED <<bridge, job, main, connected, requests, acks, toClient, client>>
    BY <1>5 DEF vars, serverVars, netVars, clientVars
  <2> QED
    BY <2>1, SelectionQuiet
<1> QED
  BY <1>1, <1>2, <1>3, <1>4, <1>5 DEF Next, Progress

\* The inductive invariant of selections holds in every reachable state: nothing
\* the server handles is of a request to come, the check it waits for is the last
\* message on its way, and no output comes before an accepted result
\* (_authoritative_selection_result, handle_command).
THEOREM SelectionsCorrect ==
    Spec => [](TypeOK /\ HoldInvariant /\ PipelineInvariant /\ SelectionInvariant)
<1>1. Init => SelectionInvariant
  BY SelectionInit
<1>2. TypeOK /\ TypeOK' /\ HoldInvariant /\ PipelineInvariant /\ SelectionInvariant
        /\ [Next]_vars => SelectionInvariant'
  BY SelectionStep
<1> QED
  BY <1>1, <1>2, PipelineCorrect, PTL DEF Spec

\* The rows the server captures for a selection are the ones the browser shows:
\* when the browser has confirmed the check, nothing can have moved its screen
\* from the first byte of the hold (_authoritative_selection_result,
\* pendingSelectionRequestIsCurrent).
THEOREM SelectionIsOnScreen == Spec => []SelectionOnScreen
<1>1. SelectionInvariant => SelectionOnScreen
  BY DEF SelectionInvariant, CheckStage, OnScreen, SelectionOnScreen, At
<1> QED
  BY <1>1, SelectionsCorrect, PTL

\* No output moves the screen between the check of an accepted selection and its
\* result (handle_command, "defer_hold_release").
THEOREM ResultComesFirst == Spec => ResultBeforeHeldOutput
<1> DEFINE Told == /\ toClient # <<>> /\ Head(toClient).type = "selection-result"
                   /\ toClient' = Tail(toClient)
                   /\ Head(toClient).ok /\ client.selection.id = Head(toClient).id
<1>1. TypeOK /\ SelectionInvariant /\ [Next]_vars
        => [Told => client.revision = client.selection.checkedAt]_vars
  <2> SUFFICES ASSUME TypeOK, SelectionInvariant, Told
               PROVE  client.revision = client.selection.checkedAt
    OBVIOUS
  <2>1. Head(toClient) = toClient[1] /\ 1 \in 1..Len(toClient)
    BY PopWire
  <2>2. 1 \in OnTheirWay({"selection-result"})
    BY <2>1 DEF OnTheirWay
  <2> QED
    BY <2>1, <2>2 DEF SelectionInvariant, ResultStage
<1> QED
  BY <1>1, SelectionsCorrect, PTL DEF Spec, ResultBeforeHeldOutput
=============================================================================
