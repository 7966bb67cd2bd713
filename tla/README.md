# Mobile terminal: specifications, model checking and proofs

`mobile-terminal` shows a tmux session in a browser. `server.py` attaches a tmux
control client per WebSocket connection and streams the bytes of one pane to
`static/app.js`, which writes them into an xterm.js terminal. This directory holds
TLA+ modules of that system, the TLC configurations that check them and the proofs
TLAPS checks. Line numbers refer to the files of the repository at this commit.

## 1. Inventory

### Components

| Component | Where | State | Operations |
|---|---|---|---|
| Terminal byte stream (`TmuxBridge`) | `server.py` 3145-4855 | `offset`, `phase` (hold/forward), `held`, epoch and layout counters, `cutoff`, `seed_degraded`, `selection_hold_request_id`, three locks (`seed_lock`, `write_lock`, `send_lock`), acknowledgement events | `read_loop`/`pane_bytes`, `reseed`, `_flush_seed_output`, `_stabilize_when_quiet`, `resize`, `claim_geometry`, `authoritative_selection_result`, `_flush_selection_hold`, `close` |
| Connection handler | `server.py` 6894-7319 | current bridge, session, incoming queue, tasks | message loop, receive loop, `watch_tabs`, `switch_session`, `send_speech_result`, teardown |
| Browser terminal | `static/app.js` 5190-5866, 8640-8975, 9088-9380 | message queue, epoch, pane, cutoff, revision, authority, seed in flight, pending recovery, pending selections | message handlers, recovery reseeds, watchdogs, connect, `switchSession` |
| Browser resize delivery | `static/app.js` 5287-5432 | desired, sent and delivered sizes, dirty and pending flags | `flushTerminalResize`, watchdog |
| Selection provenance | `server.py` 4170-4766, `provider_authority.py` | row identities, transcripts, fences | accept or refuse the rows of a selection |
| Command provenance | `server.py` 790-850, 1002-1041, 3521-3847 | active, unavailable and accepted commands, tracking generation | start, continue, accept, invalidate |
| Mobile composer | `server.py` 5732-5961, 6200-6330; `app.js` staged drafts | draft, cursor, revision, submitted request ids | sync, submit, retry |
| `PaneRowTracker` | `server.py` 853-1000 | rows and identities of the last capture | `observe`, `invalidate` |
| Pane mode observers | `server.py` 3248-3275, 3362-3403 | shared map of bracketed-paste modes | observe, forget, parse |
| Scroll queue | `server.py` 4924-4970 | pending lines and a drain task per session | queue, drain, settle |
| Sessions and ownership | `server.py` 5210-5672, 6700-6810 | users, sessions, live terminals, write locks | create, rename, kill, transfer |
| Passkeys | `webauthn_auth.py`, `static/passkey.js` | credentials, pending challenges | begin and finish registration and login |
| Proxy | `proxy.py`, `proxy_auth.py` | realms authorised on a connection, enrollments | authenticate, relay, change profile |
| Binding hook | `provider_binding_hook.py` | binding files under a lock | record a binding |
| Provider transcripts | `provider_authority.py` | index of transcripts | index, fence, match |
| Configuration, service worker, scripts, styles | `mobile_terminal_config.py`, `static/sw.js`, `*.sh`, `static/*.css` | none that changes while the program runs | |

### How they interact

The byte stream, the connection handler and the browser exchange messages over one
WebSocket. The receive loop of the server applies acknowledgements at once and
queues everything else for the message loop, which runs one command at a time and
awaits it: while a reseed waits for an acknowledgement no other command runs.
`watch_tabs`, the stabilize task, speech tasks and the reader run beside the message
loop and share the bridge with it through `seed_lock` and `send_lock`. The browser
drains its queue one message at a time, and adds requests of its user, its layout
and its watchdogs.

A reseed goes: take both locks, put output on hold, raise the epoch, `seed-start`;
wait for `seed-start-ack`; resize if that was the reason; up to three times wait for
quiet, read the offset, capture the pane, wait for quiet, compare the offset;
`seed-data` and `seed-end`; wait for `seed-ack`; under `send_lock` replay the held
records from the cutoff on, `post-flush`; wait for `post-flush-ack`; forward, and
`seed-open`. A capture that never becomes exact is sent as degraded, or, after a
resize, replaced by `seed-resume`, which keeps the browser's buffer; either way a
task retries until a seed is exact.

### What is hard

Output arrives at every point of the above, on the pane before the control client
reads it. Three tasks start reseeds; a selection holds output without one. Every
stage may time out or fail. The browser may drop output, stall, ask for a recovery
or change the session in the middle of a seed, and the connection may be lost.

Elsewhere the difficulty is the same one in other clothes: a handler reads a name, a
draft, a size, a binding or a challenge, waits, and uses it. Connections of one session
wait for its write lock, its fence and its submission lock; names change hands while a
switch waits; ceremonies of two connections interleave; hooks of several events run at
once and are killed; transcripts grow while they are searched; users outside the browser
type, resize and rename. `PROJECT.json` lists these hazards by line with the properties that cover them.

### What makes each component correct

* Byte stream, handler, browser: a screen with authority shows every byte of the
  pane once, in order; authority comes back after every disturbance; a selection is
  judged against the screen it was made on.
* Resize delivery: the size tmux has becomes the size the browser wants.
* Composer: a submission reaches the pane once per request id while the id is
  remembered; a rename or kill does not divide a session's state.
* Command provenance: a command accepted as typed is the one that was written, with
  no foreign input between its start and its Enter.
* Provider transcripts: text is given only if it is the one text of the bound
  transcript that is drawn like the selected rows.
* Row tracker: two rows have one identity only if they are the same line.
* Pane modes: a paste is bracketed only if the program asked for it.
* Scroll queue: no delta is applied after the input that settled it, none is lost
  otherwise.
* Sessions: two writers of a session hold one lock; users reach only their sessions; what
  tmux finds under a name is the session of that name.
* Passkeys: a challenge is used once, in its realm and connection.
* Proxy: no realm is reached that this connection did not authorise.
* Binding hook: concurrent hooks lose no update.

## 2. Modules and plan

| Module | What it is |
|---|---|
| `TerminalSeed` | byte stream, connection handler and browser terminal, composed: the protocol above |
| `LiveScreen` | abstract specification: a live screen only grows, by the next byte |
| `Composer` | the command line of one session, edited and submitted from several connections; its command provenance |
| `Sessions` | tmux sessions under changing names: tenants, switching, renames, kills, write locks, scroll queues |
| `Profiles` | who a connection may act as: proxy, passkeys, device keys |
| `Providers` | whose text a selection may be given: binding hooks, transcript indexes, the lookup |
| `Geometry` | the size of the terminal between layout, browser, server and tmux |
| `TerminalSeedProofs`, `TerminalSeedPipeline`, `TerminalSeedScreen`, `GeometryProofs`, `ProfilesProofs`, `SessionsProofs`, `ComposerProofs`, `ProvidersProofs` | the proofs |
| `MC...` | constants for TLC |

Each of the six composes the parts of the code whose handlers read and write the same state;
the parts are sections of it. Modules do not share variables with each other. What one takes
from another is written down as an assumption here: `Geometry` uses that seeds arrive in order
and that a failed one ends its connection or is repeated (`TerminalSeed`), `Composer` that a
bridge keeps its session unless it is renamed and that one write lock stands for it
(`Sessions`, where tmux mistakes no name for another), `Providers` that a selection's rows are
those of the screen (`TerminalSeed`, `SelectionOnScreen`).

Left of the plan: the row tracker as operators over captures; the state of labels,
open tabs and settings.

## 3. `TerminalSeed` and the code

| Variable | Code |
|---|---|
| `activePane`, `lag` | tmux: the active pane of each session; bytes printed and not read yet by `read_loop` |
| `bridge` | `TmuxBridge` fields; `hold` is `selection_hold_request_id` (0 for none), `reading` a byte waiting in `pane_bytes` for `send_lock`, `foreign` the offsets whose byte came from another pane |
| `sendLock`, `pending` | holder of `send_lock`; the local `pending` of the flush functions |
| `job` | the task holding `seed_lock`: where it is, its reason, `resume_cutoff`, `candidate_cutoff` (or `stable_offset` for a selection), the capture |
| `main`, `watcher`, `stabilizer` | the message loop, `watch_tabs` (waiting with the pane it saw, seeding, dead), `stabilize_task` |
| `toClient`, `requests`, `acks` | socket and browser queue; socket and `incoming` queue; acknowledgements |
| `client` | `terminalEpoch`, `terminalCutoff`, `terminalRevision`, `terminalPaneId`, `terminalAuthoritative`, `terminalSeedInFlight`, `reseedPending`, `selectedSessionName`, `activeSessionName`, `applicationProtocolReady`, the pending selection |
| `screen` | what xterm shows: the bytes shown, whether a byte was lost, repeated or foreign (`torn`), whether the last seed was exact, whether a cached snapshot was painted |

Each handler, or each part of one between two awaits, is one action; the actions bear
the names of what they do and `PROJECT.json` maps each to its lines. `Progress` is
what the program does by itself, `Environment` what its users, tmux, the network and
the clock do to it. Environment events are bounded: `MaxDisturbances` counts them all
and `Disturbances` says which kinds may happen; bytes are bounded by `MaxBytes`.

Abstractions:

* Bytes are offsets; a record is one byte; the content of a screen or capture is the
  number of bytes it includes. A byte of another pane is marked as such.
* `layoutGeneration` is left out (it changes only with the epoch). `seed-data` and
  `seed-end` are one message. The 5 s waits time out by an environment event.
* Messages to the browser are lost only with the connection, as on a WebSocket; the
  close event of a lost connection and the reconnect are one step of the browser.
* Live outputs the browser coalesces are contiguous, so they are handled one by one.
* `switch_session` up to its reseed is one step. Its window, in which `watch_tabs` has
  passed the `switching` test and reseeds a bridge that is not open, is a hazard
  without a property.
* The browser writes to xterm in `applyTerminalSeed` and `handleTerminalBinary` and awaits
  that; the handling of a message is one step. Other messages wait in its queue meanwhile;
  a timer or a tap in the middle of a write is not modelled.
* What makes the rows of a selection acceptable is a nondeterministic refusal; raw
  fallback selections, which hold no output, are left out.
* `historyReseedPending` only rate-limits requests, which are bounded here anyway.
* One assumption on time, `ReaderCaughtUp`: the reader polls every 4 ms, so after
  50 ms without new output it has numbered everything the capture saw, unless it is
  waiting for `send_lock`.

## 4. The other modules and the code

### `Composer` (`server.py` 2250-2330, 3499-3847, 5732-5961, 6200-6345; `app.js` staged drafts)

`line` is the command line of the pane, each character with who typed it. `session` is
what the server keeps per session: draft and revision, `active`, `unavailable` and
`accepted` commands, the tracking generation, the remembered request ids, the queues of
the submission lock and of the write lock, the fence. `conn` is the command a connection
is executing, and where: waiting for the submission lock, the fence, the seed lock, the
write lock, or for tmux to answer a write. A handler is divided at these waits and
nowhere else. `moved` says that the pane produced output, which a fence notices.
`entered`, `excused`, `acked`, `clean`, `outside` and `crossed` only record what happened,
for the properties.

Abstractions: texts are short sequences of characters; the cursor stays at the end of the
draft; geometry, panes and row identities are one refusal that any attempt may meet; a
write that fails may or may not have reached tmux. `composer-history` and
`composer-refresh` are left out, the browser does not send them, and so is
`composer-semantic-sync`.

### `Sessions` (`server.py` 256-270, 414-449, 1145-1160, 3499-3525, 4924-4970, 5210-5362, 5604-5672, 6444-6451, 6636-6810, 7070-7220)

A session is a number given at birth, so that a name that comes to stand for another
session is told apart; `tmux` maps names to sessions. `locks`, `live` and `scroll` are the
dictionaries kept by name (`terminal_write_locks`, `live_terminal_connections`,
`scroll_states`), `holder` and `queues` what they point to. `conn` has `session`
(`state["session"]`), `name` (the bridge's `session_name`), and what its tmux client is
attached to. Opening, closing, renaming, killing, settling and writing are divided at
their awaits; shells end and sessions start outside at any time.

The program always says `-t <name>`, never `-t =<name>`, and tmux takes a name that no
session has for the only session whose name begins with it, or else matches it as a pattern;
if several do, it finds none. The default names are numbers, so that "1" finds "10"; and
`mt_a__1` of user `a` finds `mt_a__1__1` of user `a__1`. `Longer` is that relation between
names, `Found` what tmux finds, `Reached` the names for which `session_exists` answers yes.
tmux changes some characters of a new name (`Kept`), and where a pane is asked for it takes
a name for a window or a pane before it takes it for a session (`Windows`, `Panes`). `Exists`,
`Resolved`, `OpenBridge`, `Opened`, `FollowPane`, `RenameDone`, `KillOther` and `KillSends` all go
through these, so that a bridge may be kept under "1" and be attached to "10".
`mistaken` only records, for the properties, the sessions that were attached to, looked up or
renamed under another name than their own. A kill through another name ends its session, and
nothing is recorded.

Abstractions: what is typed is left out; tmux serves an attach before later commands of
the server; labels, open tabs, the detaching of other clients and the viewer of processes
(btop) are left out; a shell that exits leaves what is kept under its name, as in the code.
Of tmux's look-up: the names a name begins and those it matches are one set, which is the
order of tmux where only one of the two is met; a window or a pane of that name may be of any
session; that tmux also takes a name for that of a client is left out, as are the options
(`set-option -t`) of a session that has just been made.

### `Profiles` (`proxy.py` 600-1285, `webauthn_auth.py` 180-690, the handshake in `server.py`)

`challenges` are those pending in `PasskeyAuth`, numbered as they were issued, which is the
order of its store, and `late` those past their time;
`store` the passkeys and the owner of each realm; `devices` the device keys; `conn` has
`authorized_realms`, `realm_enrollments`, `pending_enrollments` and the place in
`authenticate_realm`. A server without the proxy (`lone`) is the same with one profile.

Abstractions: signatures, tokens and nonces are good or bad; a credential is the number of
the challenge it answered; the bytes that are relayed are left out. Each connection is a device
of its own: two tabs that share a device id are not modelled.

### `Providers` (`provider_binding_hook.py`, `provider_authority.py`)

One pane. `proc`, `fg`, `registry`, `file` are the processes, the one in the foreground,
`~/.claude/sessions` and the transcripts; `cache` is the binding file of the pane, `hooks`
and `lock` the hook processes and their file lock; `indexes` are `_TRANSCRIPT_INDEXES`,
`known` is `_FLEET_VIEWERS`, `sel` the selection that holds `_PROVIDER_SELECTION_LOCK`,
divided wherever it reads something the others write. The records of an index are a set:
what tells them apart is the `ordinal`, the position of their line, which stands for the byte
offset the code gives them, and the order of the deque is that of the ordinals. `sel.fences`
keeps with each fence the binding and the number of records searched, and `sel.witness` what
the transcripts held of those records at one later instant, when the binding was resolved
again or the workers listed again; both are there for `DecisionSound` to speak of, and only
the fences and their bindings decide anything.

Abstractions and assumptions: a selection shows one picture and `Alike` are the texts drawn
like it, which stands for versions, lexer, renderer and styles; lines stand for bytes and
records; transcripts are appended to or replaced by a new file; the cursor stays on the first
row below the history; only the mode `enforce`; a read of a binding is one step, repeated at
`Rebind`; a fence is opened once per worker; the last loop over the fences is one step; a hook
is killed only while it holds the lock (it has two seconds, `install_provider_hooks.py` 98); a
hook and its transcript path agree. A record that the renderer cannot draw is one that is
drawn unlike the rows. `IndexExact` compares an index with as many of the latest records as it
has, so that it says nothing of the oldest ones a faulty index might have dropped before its
limit.

### `Geometry` (`app.js` 5287-5432, 5957-6013, 9089-9194; `server.py` 3221-3343, 3927-4155, 6399-6442)

`browser` has the size the layout wants, the last one a seed has shown, xterm's own, the
flags `dirty` and `pending`, whether the watchdog runs and whether a size was sent lately.
`toServer` and `toClient` are socket and queue, `main` the message loop, `job` the reseed
that holds `seed_lock` with what it will set, `bridge` has `last_reported_dimensions` and
`seed_degraded`, `stored` is `terminal_sizes`. `tmux` is the window, its latest client, the
sizes of the control client and of an ordinary one, a manual size, and whether the window
is split.

Abstractions: a size stands for columns and rows, the pane of a split window has a size of
its own; the layout has been fitted before the browser connects; the three tmux commands of
a claim are one step (when one fails the connection is lost with the manual size cleared or
not); timeouts and failures of a seed lose the connection; the browser's recovery reseeds
are history reseeds (they are in `TerminalSeed`); switches of the session are left out.

## 5. Properties

`TerminalSeed`

* `ScreenExact`: with authority after an exact seed the screen shows each byte once,
  in order, up to the revision. `ScreenInvariant` is why, where it holds (`Prompt`); it
  implies `ScreenExact`.
* `PipelineGapless`: what a browser with authority has still to handle continues its
  screen without a gap, and then the bytes pending or held do, up to the last byte
  numbered. `PipelineInvariant` is why.
* `ReplayComplete`, `NothingOvertaken`: the server holds all it has to replay, and live
  output never overtakes held output. `HoldInvariant` is why.
* `SelectionOnScreen`, `ResultBeforeHeldOutput`: a confirmed selection is of the screen
  the server holds, and its result comes before the output held for it.
  `SelectionInvariant` is why.
* `EventuallyConverged`, `EventuallyFollowed`: when the environment is quiet, the browser
  gets authority over an exact screen of all output, and the server follows the active
  pane unless its watcher has died.
* `ImplementsLiveScreen`: the whole protocol refines `LiveScreen`.

`Composer`

* `EnteredOnce`, `AckedEntered`: whatever is retried over whatever connections, a request
  is entered once, unless its Enter failed after tmux had it or its id was forgotten; and
  the browser is told only what happened.
* `SubmittedVerbatim`: the line entered is the text of the request, although only the
  difference from the draft is sent, as long as one connection edits at a time and nobody
  else types. Renames in the middle of a submission are excepted here and are what
  `composer_rename` is about.
* `AcceptedIsTyped`: the cells kept for an accepted command show only what its owner typed.
  They show exactly its draft unless somebody types in tmux or a rename falls into a commit:
  an accepted Enter that waits for the seed lock across a rename clears the line, but resets
  the record under the name it began with (`Committed`, `ByName`), so the command of another
  connection stays active over a line that no longer holds it.
* `NobodyBlocked`: while a command is in flight, some command or the fence can take its next
  step. `MayProceed` and `FenceMayProceed` state the guards of these steps without ENABLED,
  so that it can be proved; with fairness it is what `CommandsFinish` rests on.
* `CommandsFinish`: fence, submission lock, seed lock and write lock block nobody for ever.

`Sessions`

The first three speak of sessions that are `Certain`: alive, and never attached to, looked up or
renamed under another name. While no name is like another that is every living session
(`NothingMistaken` in section 7); where names are alike, what is left to say is that a
session somebody was led to by mistake does not spoil the others.

* `OneWriter`: two connections on certain sessions never write to one of these at once.
* `NameFollows`: a bridge is registered under its own name and no other, and its name, its
  connection's and its pane belong to one session, through renames by others.
* `TenantsApart`: no connection is on a certain session its user may not see.
* `VisibleOnly`: the same of every living session, which the code promises and does not keep.
* `InputAfterScroll`: input waits for every tmux call of the scrolling before it.

`Profiles`

* `RealmPrincipal`, `RealmUserFixed`: a realm has one owner for good, and only the owner
  holds keys, tickets or sessions in it, however two first registrations interleave.
* `FallbackAuthorized`, `AttemptsEnd`: a refusal leads back only to a realm this connection
  has authorised, and never round and round.
* `EnrolledOncePerCeremony`: one device key for each passkey proved.
* `ChallengeKept`: a challenge is given up for its age or for newer ones only.

`Providers`

* `BindingsAdvance`: each binding written is one generation newer, of a later event, than the
  one it replaces, and does not revive a session whose end is recorded.
* `IndexExact`: whatever failed or was overtaken, an index has the last records below its
  offset, each once, and none above.
* `DecisionSound`: text given to a selection was at one instant the text of the only record
  drawn like it in the transcript the pane was bound to, or in each that the agents' viewer
  may show; and no row of an alternate screen with a binding is called ordinary output.

`Geometry`

* `NothingForgotten`: a size the layout wants and no seed has shown is pending and has a
  watchdog.
* `SizeSettles`: in the end xterm has the size its layout wants, and tmux too if a user
  claimed the window in the browser last and it is not split.

## 6. Runs

| Run | Instance | Shows |
|---|---|---|
| `seed_holds` | one session, two panes, 2 bytes, 3 events of resize, history reseed, selection, busy pane, pane change, speech, stall, activity, failure | the hold buffer, the stream and selections under all interleavings, also when `send_lock` is taken from outside and the browser is slow |
| `seed_connections` | two sessions, three panes, 1 byte, 3 events of pane change, switch, drop, backlog, failure, busy pane, resize, history reseed, selection | the screen, liveness and refinement under failures, reconnects and switches, without speech and early watchdogs |
| `speech_blocks_reader` | one pane, 1 byte | `ScreenExact` fails, see below |
| `painted_snapshot` | two sessions, 1 switch | `PaintOnly` fails |
| `resume_after_stall` | one pane, 1 byte, stall, resize, busy pane | `ScreenExact` fails |
| `composer` | two connections, two requests of which one starts like the other, one remembered id, 3 commands, 1 other event | the safety properties and that commands finish |
| `composer_rename` | the same, renames only | `SubmittedVerbatimRenamed` fails |
| `profiles` | two connections; two profiles of one realm with passkeys, one of a realm without, a lone server; two principals; 2 challenges kept; 3 attempts, 2 disturbances | safety and that attempts end |
| `sessions` | two connections of two tenants, or of one; two numbers for each and for no tenant, so that one name begins another, one user's begin the other's, and one is kept differently and may be a pane's; 3 sessions born, 5 commands, 1 disturbance | the safety properties |
| `sessions_visible` | the same | `VisibleOnly` fails |
| `providers` | a claude or codex process in the pane, or the viewer over two workers; two hooks, two selections, 2 events; two texts drawn alike and one that is not | the safety properties |
| `geometry` | two sizes of the layout, two of an ordinary client, one in common, and the first size; 3 events | safety and that sizes settle |

Bounds. Two bytes are the fewest that can be reordered (one is enough to be lost or shown
twice), and that can lie on both sides of a cutoff; two panes the fewest to mix up, and a
third puts one in another session. Three events allow a seed, one that overtakes it and one
that makes it fail. Between them the passing runs take every action. In `Composer` three
commands are a submission, its retry or an edit between, and a second submission; one
remembered id is the fewest that can be forgotten. In `Profiles` three attempts are two first
registrations that interleave and one more after a revocation. In `Sessions` five commands are
the fewest with which a lock lost in a rename would lead to two writers, and a third session
lets a name be killed, used again and switched to while a connection waits. One name that
begins another is enough for a look-up to be mistaken, two that one name begins for it to be
in doubt. In `Providers` two events and two hooks let a session change and end, or a
transcript grow and be replaced, while a selection searches; the limits on ranges, records and
indexes are one or two so that they are reached, and the symmetry of process ids and of hooks
is sound because they are only compared. In `Geometry` three events are a new layout, another
client and a loss, split or degraded seed between. The runs do not check for deadlock: the
environment is finite, so every behaviour ends in a state where nothing is left to do. That
the end is a good one is what the liveness properties say.

Fairness. `FairSpec` asks weak fairness of `Progress` as a whole: some step of the
program is taken while one is possible. Both event loops run on, an open socket
delivers, and the 10 s and 15 s watchdogs of the browser fire when nothing else happens
(`WatchdogWhenStuck`; watchdogs that fire early are environment events). No single
action is assumed fair. `Composer` and `Profiles` ask the same of the steps of all
connections together: every wait in them is for a task that is ready, or has a timeout.
`Geometry` asks it of `Progress`, which the resize watchdog is no part of: it is an event, and
the run shows that every size arrives without it, since each seed that opens sends again. `Sessions` and `Providers` state no fairness and no liveness.

### What the failing runs show

* `speech_blocks_reader`. `send_speech_result` (`server.py` 7218) holds `send_lock` while
  it sends. The reader waits in `pane_bytes`, so `quiet` (4074) sees silence and
  `self.offset == candidate_cutoff` (4077) holds although the capture shows bytes not
  numbered yet. They are sent again after the seed. "Byte-fence tests check no held
  output is dropped or duplicated" (`docs/reviews/2026-09-04-repair-validation.md` 49).
* `painted_snapshot`. `seed-open` (`app.js` 9151) compares epoch, pane and cutoff, not the
  session the browser has switched to. "A cached snapshot is paint-only" (9996), yet the
  painted screen has authority until the server answers the switch.
* `resume_after_stall`. Without authority live output is counted, not written (5810).
  `seed-start` forgets a pending recovery (9098), and a `seed-resume` whose cutoff is the
  revision restores authority over a screen that misses those bytes until the queued
  history reseed is handled. "Busy panes retain their browser buffer and replay every
  held byte in order" (same review, 13).

* `composer_rename`. `commit_mobile_composer` (`server.py` 5918) reads the session's name
  before it waits for the write lock and resets the draft under that name. After a rename
  that was queued before it, the renamed session keeps the submitted draft, and the next
  submission sends only the difference. "Locally staged drafts survive tab switches,
  renames, and reconnects" (same review, 41).
* `sessions_visible`. A claim outlives its session, and `resolve_user_session` (`server.py` 5349)
  asks tmux for each claim with a bare name. Two users connect, the shell of the first ends,
  he connects again, and his claim leads to the only longer name, a session of the second.
  "A user may only attach to a session in their visible set" (5342). Both users get a
  bridge with a write lock of its own.

### What also goes wrong

These are hazards in `PROJECT.json` without a run of their own; the passing run exempts them.

* Names that lead elsewhere (`server.py` 416, 6729, 6793). With one tenant, too, a request for the
  dead "1" opens a bridge to "10" with another write lock, a rename of "1" renames "10" and
  moves only what is kept under "1", and a kill of it kills "10". No document of the repository
  speaks of these; the properties exempt the sessions that were mistaken.
* A split window. `capture_pane_snapshot` and `seed-resume` report the size of the pane
  (`server.py` 1145, 4094), the browser acknowledges it (`app.js` 5745) and asks for the
  size of the window again when the seed opens (9193): each resize is answered by a reseed
  and each reseed by a resize, for ever. Without the exemption of `tmux.split`,
  `SizeSettles` fails after one event. "A geometry difference reseeds once"
  (`docs/tmux-sizing.md` 63).
* A reseed nobody asked for, after another pane or a degraded seed, shows the size a desktop
  client has chosen, and the browser answers it with its own: it takes the window from a
  desktop user who is at work, although "refresh/reset traffic must not claim authority"
  (`docs/tmux-sizing.md` 45). `SizeSettles` asks nothing of the window then.
* An end event that replaces another binding opens a range nothing closes
  (`provider_binding_hook.py` 447).

## 7. Proofs

For all panes, sessions and bounds; the assumptions of `TerminalSeed` are `SessionAssumption` (every pane
has a session), `PaneAssumption` (`NoPane` is no pane) and `BoundAssumption`.

* `TerminalSeedProofs`: `TypeCorrect`, `Spec => []TypeOK`. One lemma per group of actions;
  `BridgeUpdate`, `JobUpdate` and `ClientUpdate` say that a record keeps its type when one
  field changes, and `LeastNat` that a non-empty set of offsets has a least one
  (well-founded induction).
* `TerminalSeedProofs`, too: `HoldsCorrect`, `Spec => [](TypeOK /\ HoldInvariant)`, and from it
  `ReplayIsComplete` and `NothingIsOvertaken`. Neither property is inductive: that a flush
  finds everything since the cutoff depends on what the reseed kept of a selection it
  superseded, and that forwarding finds an empty buffer on who held `send_lock` since it
  was emptied. `HoldInvariant` says so: the held offsets are an unbroken suffix of those
  numbered (`HeldIsSuffix`); a reseed that may resume holds all since its resume point
  (`ResumeHeld`), one that has sent its seed all since its cutoff (`SeedHeld`), a selection
  all since it began (`SelectionHeld`); who empties the buffer keeps `send_lock` until
  output flows (`FlushLocked`, `ReleaseLocked`); and only one of them is at work
  (`JobsOwned`, `HoldIsSelections`, `LiveEmpty`).
* `TerminalSeedPipeline`: `PipelineCorrect`, `Spec => [](TypeOK /\ HoldInvariant /\
  PipelineInvariant)`, and from it `StreamIsGapless`, `Spec => []PipelineGapless`.
  `PipelineGapless` speaks of a browser that has authority; whether the seed it opens is the
  right one was decided long before. So `PipelineInvariant` says, for each stage of a reseed,
  what may be on its way to the browser (`StartStage` to `LiveStage`), which is what an
  acknowledgement proves: that everything sent before it has been handled. Epochs on their
  way are never to come and acknowledgements of the current one answer what it has sent
  (`EpochsPast`, `AcksAnswer`), so a late one of an earlier reseed opens nothing; no
  seed-open is on its way behind which nothing takes the authority away again while a seed
  holds the output (`GateClosed`, which is where switches and reconnects matter); and from
  the flush on, browser, wire and bridge are one stream of bytes (`InStep`, `Stream`). The
  wire has a section of lemmas of its own: what appending a message and taking the first one
  does to the positions of messages (`TypesAppend`, `BehindPop`, ...), and to the stream:
  `StreamAppendOutput` adds the byte that was next, and `StreamPopOutput` says that the first
  output on its way is the byte the browser waits for.
* `TerminalSeedPipeline`, too: `SelectionsCorrect`, `Spec => [](TypeOK /\ HoldInvariant /\
  PipelineInvariant /\ SelectionInvariant)`, and from it `SelectionIsOnScreen` and
  `ResultComesFirst` (an action property). Both speak of an answer whose question was asked
  some steps ago, and a number is all that ties them together. So requests are numbered in
  the order they are asked in, and what the server handles, what is on its way and what is
  acknowledged is of a number past (`IdsInOrder`): an acknowledgement with the number of the
  check the server waits for is of this check. That check is the last message on its way
  (`CheckStage`), so when the browser handles it no output is left, and the stream of
  `InStep` is what is held: it begins both at the browser's revision and at the first byte of
  the hold, which are therefore equal (`CheckOnScreen`). The result then goes onto an empty
  wire (`ResultStage`).
* `TerminalSeedScreen`: `ScreenCorrect`, `Spec => [](TypeOK /\ HoldInvariant /\
  PipelineInvariant /\ ScreenInvariant)`, and from it `ScreenIsExact`, `Spec =>
  []ScreenExact`, and `ScreenRefines`, `Spec => ImplementsLiveScreen`. They assume `Prompt`:
  no speech result keeps `send_lock` and no watchdog runs out while messages are on their
  way. Without it they are false, as `speech_blocks_reader` and `resume_after_stall` show;
  every other disturbance is allowed, in any number and order. `PipelineInvariant` says that
  numbers fit; what it does not say is which bytes they stand for. A capture may show more
  than its cutoff, a byte may be of the pane before a pane change, and a browser without
  authority counts what it does not write. `TaskInvariant` is about the tasks of the server:
  without a connection none works (`Parked`), only the message loop resumes a browser
  (`ResumableIsMains`). `ShowInvariant` is about what is on its way and what the screen will
  be when it arrives: a seed finds the browser without authority (`SeedsUnseen`), a seed-open
  opens what is shown (`OpensNext`), live output finds authority, a pending recovery or a
  painted snapshot (`LiveSeen`), and a byte of another pane an inexact screen or one of
  another pane, which refuses it (`ForeignShielded`). `LinkInvariant` ties it to the bridge:
  while a byte of another pane is being read or waits (`Tainted`), no exact seed of the
  bridge's pane is shown or on its way (`TaintShielded`): `ReaderCaughtUp` rejects a capture
  while a byte is being read, and the cutoff of an exact one drops those that wait, which are
  all numbered below it (`ForeignPast`). That the
  refinement holds is then a matter of two steps: only `ClientSeedData` and `ClientOutput`
  change the bytes shown; the first finds the screen without authority and the second adds
  the byte that `ScreenInStep` makes the next.

* `GeometryProofs`: `GeometryTypes`, `Spec => []TypeOK`, and `SizesNotForgotten`,
  `Spec => []NothingForgotten`, for all sizes and any number of events, from
  `SizeAssumption` (sizes are positive) and `EventAssumption`. Lemmas say of each operator
  of the browser what it returns (`WatchRemembers`, `AcknowledgeRemembers`, ...) and of
  tmux that the latest client has a size (`SizedWindow`, `ClaimedWindow`,
  `DetachedWindow`). The invariant is the conjunction of the two properties: that a size
  is never 0 when the window gets it needs that a message loop or a reseed with a reason to
  resize has one (`SizesKnown`), that the control client of a connection in use has one,
  and that no message outlives its connection (`OffIsIdle`); `LoopInReseed` ties the loop
  to the reseed it waits in.

* `ProfilesProofs`: `ProfilesTypes`, `FallbackIsAuthorized`, `ChallengesKept`, `OneOwner`,
  `OwnerNeverChanges` (an action property) and `EnrolledOnce`. Assumed are that `None` is
  no realm, principal or profile, and that the profile of a lone server is of a realm with
  passkeys and one principal. Types need `TypeInv`: who has passkeys has an owner (`Owned`),
  no two connections wait with the same challenge (`OwnChallenge`), a connection is
  authorized for what it has selected and falls back to (`Standing`), and challenges are told
  apart by number, at most `MaxChallenges` of them (`StoreOK`). Under it the other
  properties are inductive, once the actions are sorted by what a connection gains
  (`StepsSorted`: onward, by token, by device key, by passkey, a ticket issued or used, keys
  dropped). `ChallengesKept` counts the challenges issued after the one waited for;
  `EnrolledOnce` counts keys, tickets and enrollments together with the passkeys proved,
  because each step turns one into the next.
* `SessionsProofs`: `SessionsTypes`, `OneWriterAtOnce`, `NamesFollow`, `TenantsStayApart`,
  `InputIsAfterScroll` and `NothingMistaken`, from `UserAssumption`, `NumberAssumption`,
  `ScrollAssumption` and `NameAssumption`, which says nothing of what tmux may take a name for:
  `Longer`, `Kept` and `Windows` are any.
  The invariant has a part on names (`NamesOK`), one on locks (`LocksOK`), one on queues
  (`QueuesOK`), one on each connection wherever its handler waits (`GoodConn`) and one on
  input that has met scrolling (`Met`). That two connections never write to one session is
  not a fact about locks alone: a connection may keep the lock it took under a name that
  has changed, and what excludes a second writer is that the lock moved with the name or
  the session is dead, or was mistaken for another. Whatever is attached to, looked up or
  renamed by a step is the session of the name given or becomes mistaken in that step
  (`Mistaken`), so the invariant need never look into `Longer`. `NothingMistaken` says what the
  exceptions come to: if names are plain (`PlainNames`: none begins or matches another, each is
  kept as given, none is that of a window), `mistaken` stays empty, and the three theorems
  speak of every living session. Lemmas say what `Moved` and the transfers do to a map kept by name.
* `ComposerProofs`: `ComposerTypes`, `SubmissionEnteredOnce` and `AcknowledgedIsEntered`, from
  `ConnAssumption`, `RequestAssumption` and `DraftAssumption` (drafts and texts are sequences
  of characters; no connection, request or key in a queue is taken for another),
  `MaxRememberedAssumption` and `BoundAssumption`. The invariant `IInv` says what a record
  and a command may be (`RecordsOK`), that a connection is in the queue of a lock exactly
  where its command says (`LocksOK`), and how the lines entered for a request relate to the
  remembered ids, the Enter under way and the excuses (`EntriesOK`): `EnteredOnce` alone is
  not inductive, since it does not say that a remembered id keeps a second submission out,
  nor that at most one connection is between the test of the id and its record. Lemmas on
  `Without`, `Remembered`, `CommonPrefix`, `CommonSuffix` and `Edited` say what they return
  for all texts, and lemmas on the plans (`PlanSyncOnward`, `SettleOnward`, ...) what a
  command may do up to its next wait.
* `ComposerProofs`, too: `CommandsGoOn`, `Spec => []NobodyBlocked`, for any number of
  connections where `CommandsFinish` has two. `IInv` says that the fence is in the queue of
  the write lock exactly while it is queued (`SessionOK`), and that whoever is in a queue is
  still a command in flight, so the head of the write lock's queue can always go on
  (`HeadProceeds`), and the head of the submission queue goes on or waits for something that
  can. A cancelled fence left in the queue, or a failed submission left in its own, would
  break it.
* `ComposerProofs`, too: `SubmissionVerbatim`. As long as nobody else types, no two connections
  edit and no rename meets a commit, one command at most is not `Quiet`, that is, has
  computed keys from the draft or sent them (`Apart`), and the line shows the draft, or what
  the command that waits for its reply has made of it (`Shows`). The step that matters is
  `Deliver`: `EditedIs` says that the arrows, backspaces and characters computed from two
  drafts turn a line that shows the first into one that shows the second.
* `ComposerProofs`, too: `AcceptedTyped`, `Spec => []AcceptedIsTyped`, with no condition on
  who edits at once. The invariant `Accepts` follows the cells from the key to the fence.
  `Stood`: behind the start of the active command the line holds its draft, and nobody but
  its owner or tmux has typed there; `StepTyped` says so of the command that holds the write
  lock before it is active. That no other connection spoils this is `ComesFirst`: whoever is
  to write outside the active command (`Unowned`) has made it inactive when it queued, and
  moved the tracking generation on; a start that read the generation since is behind it in
  the queue of the write lock, and one that read it before finds it gone (`Before`,
  `Ordered`, `Fades`). `Named` is the exception: without a rename during a commit an Enter
  resets the record of the session it types in. `EditedStood` says what keys do to cells
  behind a start, for all texts; `TypedOn`, `HolderTyped`, `QuitTyped` are the three ways a
  command moves on: before it writes, with the lock, and out of it.

* `ProvidersProofs`: `ProvidersTypes`, `BindingsOnlyAdvance` (an action property),
  `IndexesExact` and `DecisionsSound`, for any processes, hooks, transcripts and limits, from
  `NoneAssumption`, `ProviderAssumption` (claude's sessions are not codex's, process ids are
  finitely many), `SceneAssumption` (what runs at first started at 0) and `LimitAssumption`.
  The invariant `IInv` has a part for each section of the module. `WorldOK`: processes started
  before now, registry files are claude's. `BindingOK`: a hook that holds the lock has read
  the binding that is there, and every generation is a hook that has ended (`Counted`).
  `IndexesOK`: an index has seen its file or an earlier one, and if its file, its records are
  the last of the lines below its offset (`Searched`). `SelOK` says for every place of a
  selection what it has found out, in a form that the others' steps cannot spoil: the file
  under a fence may only have grown since (`Grew`), a process that has a worker's id may only
  be the worker or have started later (`NoEarlier`), the texts are those drawn alike in the
  lines under the fences (`Told`), and where every transcript is still as its fence has it, it
  was so when the witness was taken (`Witnessed`). That is why comparing the fences once more
  at the end is enough: files and processes never come back to what they were
  (`GrewOn`, `NobodyComesBack`). Lemmas say what `Latest`, `Parse` and `Newest` return;
  `SearchedAreLatest` is what `IndexExact` needs and `SearchFinds` what a match means.

The proofs changed four modules. `Failed` of `Composer` was a CASE whose guards overlapped,
which leaves its value open; TLC took the first, as the code does, and now it says so. Its
`Without` selected the entries of a queue that differ from one, and `Profiles` filtered a
sequence of challenges: what a selection returns for every input is an induction the provers
cannot do, so the one finds positions and joins the pieces of the queue, the other keeps a set
of numbered records. `Providers` folded over the lines of a transcript and selected from
sequences: now records are a set told apart by where their lines are, and an index is taken out
by its position. Its proof also found that a codex process would have rewritten the registry
file of a dead claude process with its id, which only claude does (`ChangeSession`), and asks
more of `DecisionSound` than before: one record in each transcript, not one text in all. A step of
`Settle` in `Sessions` got a name (`Dropped`). And `AcceptedIsTyped` got
its exception for renames, which two connections need seven commands to reach.

Every safety invariant and action property of the runs that pass is proved. Only
model-checked are the liveness properties (`EventuallyConverged`, `EventuallyFollowed`,
`CommandsFinish`, `AttemptsEnd`, `SizeSettles`), which are out of this prover's reach, as are
the five disagreements, which TLC shows by counterexamples. Of `CommandsFinish` the safety
half is proved, `NobodyBlocked`; that the steps it speaks of are enough is TLC's.

## 8. Not modelled

* `PaneRowTracker`. It compares history sizes to tell whether rows of one capture are rows of
  the next. tmux trims a tenth of a full history at once, so rows of one epoch can get the
  identity of other lines; selections compare digests of rows and the browser's rows too, and
  refuse. What is left is a relation between text buffers that no module here has.
* The observers of bracketed paste: what they decide depends on the bytes of the pane.
* The lexer and renderer of provider transcripts: the relation "drawn alike" is a constant.
* Labels, open tabs, settings, images, speech synthesis, statistics: state no property is about.
* Configuration, service worker, scripts and styles: no state that changes while the
  program runs.
