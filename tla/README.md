# tiny-ssh: TLA+ models, checks and proofs

tiny-ssh is a small SSH client in Rust: a library (`tiny-ssh-core`) that runs an
SSH session as a task behind a handle and keeps a command history, and a
terminal client (`tiny-ssh-cli`) that draws the remote shell and completes its
command line with "ghost text" from the history. This directory models the parts
of it whose correctness depends on the order of things: tasks, queues, aborts,
the network, keys in flight, chunks of output.

Everything is translated from the Rust source; paths below are relative to
`src/crates/`. What is not the repository's own code (russh, tokio, SQLite, the
SSH server, readline, the user) is modelled from how the source uses it and is
marked external in `PROJECT.json`.

## 1. The system

| Component | Source | State | Operations |
|---|---|---|---|
| Session handle | `tiny-ssh-core/src/session.rs` | the sender of commands, the receiver of events, the `JoinHandle` of the driver | `send_bytes`, `resize`, `disconnect`, `next_event`, `wait`, `Drop` |
| Session driver | `session.rs` (`driver_task`, `io_loop`) | its place in the protocol, the command or message in hand | connect, authenticate, open the shell, pump commands and server messages, disconnect, announce the end |
| SSH transport adapter | `transport/ssh/client.rs`, `session.rs`, `error.rs` | the russh handle, the channel | `connect`, `authenticate`, `open_shell`, `disconnect`; `write`, `resize`, `next_event`, `close` |
| Host key verification | `client.rs` (`check_server_key`), `config.rs` | two `known_hosts` files shared by all clients | look up, learn, refuse |
| Client event loop | `tiny-ssh-cli/src/main.rs` (`drive`) | the handle, `App`, the terminal event stream | take a terminal event, take a session event, leave |
| Autosuggestion | `app.rs` | `shadow_input`, `shadow_cursor`, `suggestion`, `prompt_pos`, `cwd` and two flags | `on_key`, `on_session_event`, `refresh_suggestion`, `can_show_suggestion` |
| OSC scanner | `term.rs` | a parser state and a capped payload | `scan`, `dispatch` |
| Terminal emulation | `term.rs` (alacritty_terminal) | the grid | `feed`, `resize` |
| History | `tiny-ssh-core/src/history.rs`, `suggest.rs` | one SQLite table for all clients | `record`, `set_exit_code`, `suggest`, `recent` |
| Key and mouse encoding | `keys.rs` | none | pure functions |
| Rendering | `ui.rs` | none | reads `App` |
| Start-up | `main.rs` | terminal modes | arguments, password; set-up and tear-down of the terminal |

How they interact. `drive()` owns the `SessionHandle` and `App`. It takes
terminal events before session events (a biased `select!`); a key goes through
`App::on_key`, and the bytes it returns are sent with `send_bytes().await`
*inside* the branch that took the key. Commands wait in an `mpsc` channel of 64
for the driver, events in one of 256 for `drive()`. The driver is one task; each
of its `.await`s is a point where the handle may be used or dropped, the network
may act, or an abort may take it. Output events are fed to the terminal
emulator, which moves the cursor, and then to the OSC scanner, whose events (a
prompt, a directory) `App` applies. `App` writes each entered line to the
history and queries it after every edit.

What is hard in this code:

- two bounded queues between two tasks that each await room in the other's;
- `select!` at random in the driver, biased in the client;
- cancellation: `Drop` aborts, an abandoned `wait()` detaches, and the abort
  lands at whichever await the driver is parked at;
- a server that does not answer, refuses, closes, or vanishes half-way;
- `shadow_input`, a copy of a line that lives in another machine's readline and
  is kept in step by guessing, over a link with delay in both directions, from
  output cut into chunks anywhere;
- a byte-level parser whose recovery must not eat the next sequence;
- two look-ups that must agree on what "prefix" means: SQL `LIKE` and
  `starts_with`.

`PROJECT.json` lists each such hazard with its line, and the properties that
would catch it going wrong or the reason why none does.

What makes each component correct:

- session: events follow the lifecycle, a failure is never silent, commands are
  executed once and in order, disconnecting flushes, output received is output
  delivered, the transport is down when the end is announced, the remote PTY
  follows the window, dropping the handle or disconnecting ends the driver;
- client loop: what the server sent is shown before the client leaves, failures
  are explained, it leaves when the session ends and on Ctrl-Q, no driver is
  left behind;
- autosuggestion: the rest of a suggestion always completes the present shadow
  to a recorded command; ghost text is shown only behind the line it belongs
  to; the history records what was executed, tagged with its true source;
- history: user input never acts as a wildcard; the directory of the user comes
  first, then the newest;
- scanner: every OSC of a well-formed stream found once, in order, in bounded
  memory;
- host keys: a key accepted on first use is the only one of its algorithm
  accepted later, and is not refused;
- encoding: the byte stream can be taken apart into the events it was sent for,
  and the remote line editor does with each what the shadow assumes;
- start-up: the user's terminal gets its modes back on every way out.

## 2. The modules

### SessionLifecycle: what a session promises

The event stream as its reader sees it, in four variables: the last
`SessionState` announced, whether an error was reported, whether the final event
came, how much output. `Advance`, `Report`, `Fail`, `Stream` and `Final` say
that states come in order, that `Failed` is only reached before the shell is
open and only after an `Error`, that output comes only while the shell is open,
and that `Closed` (the event) comes once, after an announced end.

### SessionDriver: handle, driver and connection

`pc` names the await the driver task is parked at; a step of the driver is the
code between two awaits. The correspondence:

| Model | Code |
|---|---|
| `handle`, `join` | the `SessionHandle` and its `Option<JoinHandle>`: `held`, taken by a `wait()` that is running (`awaited`), gone (`taken`), `aborted` by `Drop` |
| `input`, `events` | the two channels, of capacity `INPUT_CAP` and `EVENT_CAP` |
| `cmd`, `msg`, `why` | the command being executed, the message being forwarded, why `io_loop` returned |
| `link`, `remote`, `rq`, `ptySize` | the connection, the server's side of the channel, the messages russh has received, the size of the remote PTY |
| `SendBytes`, `Resize`, `Disconnect`, `NextEvent`, `WaitStart`, `WaitDone`, `WaitCancel`, `Drop` | the methods of the handle |
| `TellConnecting` ... `TellFinal` | `driver_task`, await by await |
| `TakeCommand`, `InputClosed`, `WriteOk`, `WriteFail`, `ErrWrite`, `ResizePty`, `ErrResize`, `Close`, `TakeRemote`, `RemoteEnded`, `Stream` | `io_loop`, await by await |
| `Cancelled` | the abort, at whichever await it finds the task |
| `RemoteSend`, `LinkLost` | the server and the network (external) |

`wait()` takes the `JoinHandle` out before it awaits it, so a `wait()` that its
caller abandons (`WaitCancel`) detaches the driver. `Send` on a dropped receiver
fails without effect, as `let _ = event_tx.send(..)` ignores it. A failed
`open_shell` takes its own path (`err_open`, `fail_open`, `disc_open`).
`session.write` waits for the server's flow-control window: `WriteOk` is a step
only the server can make possible, `WriteFail` the end of that await when the
connection is gone. `TIMEOUT` says whether `connect_timeout` is set.
Commands carry two history stamps (how many chunks were accepted and which size
was asked for when they were queued); no guard reads them.

### SessionDriverInv, SessionDriverProofs

The inductive invariant and the proofs, section 4.

### Tui: the client on top of a session

Extends SessionDriver with `run_tui()`. `Setup` is `setup_terminal`, which may
fail after any of its steps; `LoopTop` is the top of an iteration of `drive()`,
where a mouse-capture toggle and the clipboard are written to the terminal and
the screen is drawn, and writing may fail; `TakeTerminal` and
`TakeSession` are the branches of the biased `select!` (`TakeSession` needs
`kbd = <<>>`); `FinishSend` is the await of `handle_terminal_event`; `Exit` is
the return of `drive()` and `run_tui()` with `teardown_terminal` and the drop of
the handle. `modes` holds the terminal modes the client has set, `window` the
size of the user's window, which may change before there is an event stream to
report it (`WindowChanges`). Of `App` it keeps what follows the session (`state`,
`last_error`), the size of the local grid and the mouse capture. The branch for
an event stream that ends without the final event is left out: `FinalQueued`
shows that it is never taken.

### Keys: bytes for keys, mouse events and pastes

`Encode` and `EncodeMouse` are `encode` and `encode_mouse`, byte for byte, under
the modes the remote has set (`SetMode`), columns modulo 2^16; `Paste` brackets
as `handle_terminal_event` does. The other side is external: `Read` takes the
byte stream apart as a terminal input parser does, `Performed` is what
readline's default key map does with an event. `Assumed` is what
`apply_to_shadow` takes a key for, with the keys on which it forgets its line
(Up, Down, PageUp, PageDown). `AsXterm` is the event as a terminal reports it,
`Delivered` what keys.rs keeps of that. The events are those that have bytes of their
own (`ReadableAssumption`): a lone Esc, Alt-[ and Alt-O begin like a longer
sequence, some control characters share their byte with a key (Ctrl-3 and Esc) or
have none, and a terminal reports columns and rows from one in 16 bits.

### HostKeys: trust on first use

`check_server_key` of several clients that share OpenSSH's `known_hosts` (read
only) and tssh's own (read, then appended to, without a lock): `Begin` is the
policy test, `CheckUser` and `CheckOwn` are the two look-ups, each of which may
fail, `Learn` is the append, whose failure is ignored. Initially the files hold
any records (tssh's own no two rivals); OpenSSH may add to its file at any time.
`known` and `seen` remember what a client could have known, for the properties.

### History: the table and the query

`Record`, `SetExitCode`, the clock in seconds, and `suggest()` as the set of rows
it may return, since `ORDER BY timestamp` leaves ties open. `LikeEscape` is
`like_escape`, character by character; `Like` is SQLite's operator (external),
with its case folding and its wildcards. `record`'s callers always pass a zero
timestamp, to be filled in. Queries and records that fail: a failing `record` is
a choice of `Enter`; a failing query, which leaves the suggestion as a miss does,
is left out.

### App: the shadow line and the remote shell

Extends History, which may start with the rows of earlier sessions (`Tables`).
`OnKey` is `on_key` with `apply_to_shadow`, split in the ways a key can be
treated: `Accept`; `Edit`, with `Insert`, `Backspace`, `KillWord` and the control
keys; `Move`, `Forget`, `Enter`. `OnOutput` is `on_session_event(Output)`: the VT
first, the OSC events after it, all seen with the cursor at the end of the chunk,
then the newline heuristic. `OscApplied` says in one expression what applying
the events of a chunk one by one leaves: the last marker decides the prompt, the
last directory the directory. `CanShow` is the five-condition gate, which
compares columns of the grid with characters of the shadow; characters in `Wide`
take two columns (`Cols`). The remote is external: a readline with its own `left`
and `right`, commands that print, full-screen programs, prompts with or without
OSC 133. Keys (`up`) and chunks (`down`) are delayed at will and chunks may be
merged (`Merge`). `Tab` and `Up` replace the shell's line by any command, and
Ctrl-L draws the prompt again, markers and all.

Left out: the kernel's echo of keys typed while no prompt is up, the reflow of a
resized grid under a prompt. `entered` remembers the shadow at each Enter for the
property, `waiting` restricts the user in the runs that ask for a patient one,
who also has one key at a time under way in a full-screen program.

### OscScanner and OscMarkers: the parser and what it promises

`ScanByte` is one iteration of `scan`, with one operator per `ScanState`;
`Dispatched` is `dispatch`, and `Directory` is `parse_file_url` with the host
part, the percent escapes, the test for UTF-8 (`IsText`) and `char::from`, which
makes a character of each byte (`CharFrom`). `Names` says which URLs the
remote may send for a directory, `Silent` which payloads report nothing; the
assumptions on the constants are stated with them. The prefixes `133;`, `7;` and
`file://` count as one byte each. Complete OSCs, text, two-byte escapes and bare
ESCs, which the next unit's ESC follows, arrive unit by unit (external). The
history variable `expected` holds what the remote reported, without the OSCs the
scanner misses (`Heard`). OscMarkers is the abstract scanner App relies on: two sequences,
the events sent and the events found, of which the second catches up with the
first one event at a time. `OscScanner!MarkersSpec` is the refinement.

### Proof modules

SessionDriverProofs (with SessionDriverInv), TuiProofs, HostKeysProofs,
HistoryProofs, AppProofs, AppFollowedProofs (which extends it), KeysProofs and
OscScannerProofs, section 4. `MC*` modules only define values for the constants.

## 3. The runs

Real capacities are 64 and 256, the payload cap is 4096. What matters is whether
a queue is empty, partly filled or full, and whether a payload fits: capacities
of one or two reach all of these in a few steps, and the theorems hold for every
capacity. Whether a `wait()` returns depends on the room for the last events of
the driver: three places hold any such ending (an error, its state, the final
event), and can be full. All runs say `CHECK_DEADLOCK FALSE`: a session ends, a
client exits, and the bounds stop the environment.

| Run | Question | Bounds |
|---|---|---|
| `session_safety` | Does every interleaving of handle, driver, server and network keep the order of commands, flush on disconnect, lose no output, release the transport, converge on the window size and implement SessionLifecycle? Does the inductive invariant hold? | 2 commands and 1 event queued, 2 chunks, 2 messages, 2 sizes |
| `session_liveness` | Do dropping and disconnecting end the driver? Which `wait()` returns and which never does? | 2 commands and 3 events queued, 1 chunk, 1 message, 1 size, no connect timeout |
| `tui_safety` | From the server to the screen: is anything missing, unexplained or of the wrong size, and does the terminal get its modes back? | queues of 1, 2 messages, 2 terminal events of all kinds, 2 sizes |
| `tui_liveness` | Does the client leave when it should, and alone? | queues of 1, 1 message, 3 terminal events: bytes and Ctrl-Q |
| `tui_quit_exits` | Does Ctrl-Q always exit? No. | as above |
| `host_keys` | Who gets in, what is recorded, and when is a recorded key refused? | 3 clients (symmetric), 2 rival keys and 1 of another algorithm, every policy, every initial file |
| `keys` | Can the byte stream be taken apart again, what is lost of each event, and for exactly which events does readline do what App assumes? | 2 events and pastes, 5 sets of modes, all kinds of keys and mouse events with boundary columns |
| `history_suggest` | Are typed wildcards literal, and is the pick the best of one ranking? | 2 rows, 2 hosts, 1 directory or none, 2 seconds, 7 commands with `_`, `%`, `\`, both cases |
| `app_any` | Whatever is typed and printed, with marked and unmarked prompts: does the suggestion complete the shadow, and is the tag right? | 1 letter, lines of 2, 2 rows, 2 seconds, 1 key and 1 chunk under way, keys of every kind, no directories |
| `app_followed` | For the keys App follows, and a user who waits for the prompt: is ghost text only shown for its line, and does the history record what is executed? | a letter, a wide letter and a blank, lines of 2, 1 earlier row and 1 new one, 2 keys and 2 chunks under way, marked prompts |
| `app_fullscreen` | Can Right accept a suggestion nobody sees? Yes. | 1 key, 2 chunks |
| `osc_units` | Is every OSC found, decoded and in order, whatever surrounds it (the refinement)? | cap of 8, streams of 3 units, 6 URLs of 4 directories (one not ASCII), 10 payloads that report nothing, bare ESCs |

Why these bounds are enough to show something. Two chunks and a disconnect are
needed to reorder, lose or repeat a command around a close; two messages fill an
event queue of one and leave one in russh; two sizes and a two-place queue hold a
resize requested before the shell opened and one after. For the wedge two
commands (one queued, one awaited) and an undelivered event suffice, hence three
terminal events. Three clients and three keys let two learn rivals unseen while a
third begins before or after. Two events are what a misparsed boundary or a
change of mode between them takes. For the suggestion, one-letter commands and
their longer extensions are prefix and match, two columns of prompt make
positions differ from lengths, and one wide character makes columns differ from
characters. For the scanner, an OSC longer than the cap, its neighbours and an
escape before it fit into three units. Every property has a mutant, a plausible
bug in one definition, with which the same run fails; they are the operators
marked "Faulty variant" in the modules.

### Fairness

`SessionDriver!Fairness` assumes what tokio and the code give:

- `WF(DriverStep)`: a task that can proceed is polled;
- `WF(Cancelled)`: an abort reaches its task;
- `SF(TakeInput)`: `select!` in `io_loop` is not biased, so a queue that is ready
  again and again is picked at some time although server messages are too;
- `WF(TIMEOUT /\ ConnectAnswer)`: `connect` succeeds, fails or hits its timeout
  (15 s by default, and the client keeps it), unless there is none
  (`connect_timeout` is `None`): the runs of the client have `TIMEOUT = TRUE`,
  `session_liveness` has `FALSE`;
- `WF(WaitDone)`: a `wait()` is woken.

Nothing is assumed of the user or of the server. There is no timeout around
authentication, `open_shell` and `write`, so the properties that need a server
which answers, and goes on taking input, say so (`ServerAnswers => ...`), and
those that need a client which reads its events say that (`ClientReads`).
`DropEndsDriver` needs neither: it names the detached driver that waits for the
server (`ServerAwaits`) as its exception. The client adds `WF(UiStep)`. What
stays idealised is russh itself: resize, close and disconnect are handed to its
task and are taken not to block on a stalled TCP connection. The biased
`select!` of the client would starve session events under endless typing;
`MaxKeys` ends the typing. OscMarkers assumes `WF(Find)`, which OscScanner
implements with `WF(ScanByte)`: `scan` is a loop over the chunk, so bytes
received are scanned.

### Findings

Each is a run of its own that TLC refutes.

- `QuitExits`: README.md:93 says Ctrl-Q disconnects locally and exits. With the
  input queue full, `drive()` awaits room inside its terminal branch; if the
  driver then awaits room in the event queue, neither moves and the key is never
  read. `QuitExitsUnlessWedged` shows that this is the only way to hang, given a
  server that answers.
- `NothingAcceptedInFullScreen`: the ghost text README.md:86 lets Right accept
  is never shown in a full-screen program, but `on_key` tests the suggestion and
  not the gate, so Right still types it there.

What else came up has no run of its own; it is a hazard with a note in
`PROJECT.json`, and where a property would fail, the property names the case:

- the gate compares columns with characters (app.rs:225-227): behind a wide
  character the ghost is missing at the end of the line and may be drawn inside
  it, over its rest (the exception in `GhostTruthful`);
- Ctrl-Q drops the handle as soon as the disconnect is queued, and the abort may
  come before the farewell (app.rs:36 calls it clean);
- `LIKE` ignores case and `refresh_suggestion` does not: a newer command in other
  case hides all older ones that extend the line (app.rs:196);
- two clients that meet an unknown host at once may record rival keys, after
  which neither key gets in (the exception `overlooked` in HostKeys);
- a failing step of `setup_terminal` after `enable_raw_mode` leaves the terminal
  raw (the exception in `TerminalRestored`);
- keys.rs:3-5 and 22 promise the bytes a real xterm would emit; the modifiers of
  cursor and function keys (keys.rs:34-46) and the button of a mouse release
  (keys.rs:64) are dropped. `Understood` names exactly these losses
  (`Delivered`); with `Delivered` the identity TLC refutes it;
- readline and the shadow part on the keys `Drifting` lists: Alt with a
  character, Ctrl-U and Ctrl-D inside a line, Ctrl-B, -F, -H and -J, which App
  ignores, the other Ctrl characters readline binds, Up, Down, PageUp and
  PageDown, on which App forgets a line PageUp and PageDown leave alone, Delete,
  Insert, Tab; a paste never reaches the shadow. `Lockstep` says both ways that
  these are all;
- an OSC right behind an odd number of bare ESCs is missed, since the scanner
  takes its ESC for the byte that ends the escape (term.rs:161-168), although the
  comment of a test says that a real OSC after an ESC not followed by `]` must
  still be recognised (term.rs:344-345; the test itself has a byte in between).
  `Recognised` names the case (`Heard`); without it TLC refutes it;
- Ctrl-L at a marked prompt: the prompt drawn again reports `133;B` again, and
  App clears the shadow while the shell keeps its line, although app.rs:311-312
  expects the shadow to stay valid; adding Ctrl-L to the keys of `app_followed`
  makes TLC refute `ExecutedAsEntered` and `GhostTruthful`;
- the order of commands recorded in one second, a prompt marker in one chunk with the echo of type-ahead, keys typed into a
  full-screen program that an unmarked prompt leaves in the shadow;
- `parse_file_url` makes a character of each byte (`char::from`, term.rs:231,
  233): a directory whose name is not ASCII is reported under another name,
  always the same one. `Recognised` names the case (`Read`), and `AsciiOnly` says
  that it is exactly the names that are not ASCII;
- README.md:94 promises that the wheel is passed through, and
  docs/BUGFIX_CLIPBOARD_MOUSE_WIDECHAR.md:127 and term.rs:89 disagree on the sign
  of a wheel step; the viewport is alacritty_terminal's and not modelled.

## 4. What is proved

All theorems hold for every value of the constants that satisfies the named
assumptions of the module. Each is proved from an inductive invariant.

### The session

`SessionDriverProofs` assumes positive capacities, that `InitSize` is a size, and
natural bounds:

| Theorem | States |
|---|---|
| `Inductive` | `Spec => []IInv` |
| `TypeCorrect` | types, and both queues within their capacity |
| `Flushes` | `FlushBeforeClose` |
| `InOrder` | `WritesInOrder` |
| `LosesNoOutput` | `NoOutputLost` |
| `ReleasesTransport` | `ClosedMeansReleased` |
| `SizesConverge` | `ResizeConverges` |
| `DoomedForGood` | `DoomLasts`: a `wait()` on a driver that owes more events than there is room for never returns |
| `Refines` | `Spec => SessionLifecycle!Spec` |

Why an inductive invariant is needed: none of the properties survives a step by
itself. That the chunk being written follows the last one written depends on the
numbering of the whole queue, and that on the chunk in hand; `OrderInv` says that
commands from the one in hand to the last accepted are numbered without a gap.
`SizeInv` says that the last queued resize, or the size being given if none is
queued, is the size last requested. `OutputInv` counts: messages sent by the
server are forwarded, in hand, or in russh's queue, and a close is the last of
them. `StreamInv` ties the place of the driver to the last state announced, which
holds only while somebody listens, so it is conditional on a live handle;
`LinkInv` and `InHand` tie it to the connection and to what the driver holds.
`SessionDriverInv!IInv` is their conjunction; TLC checks it in `session_safety`.

The proof has one lemma per part (`TypeStep`, `InHandStep`, `AbortStep`,
`StreamInvStep`, `LinkStep`, `OrderStep`, `SizeStep`, `OutputStep`, `EndStep`),
each a case split over the actions, with frame lemmas for the many actions that
leave a part alone and lemmas on `Append`, `Tail` and the cardinality of
`StreamIn` for the others. `NextInv` puts them together. For `Refines`,
`StepRefines` shows that a `Send` maps to the step of the lifecycle its event
stands for, that other steps stutter, and uses `IInv` for the guards.

### The client

`TuiProofs` first shows `RunsSession`: every behaviour of Tui is one of
SessionDriver, so that `IInv`, and with it every theorem above, holds below the
client. On top of `IInv`:

- `RestoresTerminal`, from `ScreenInv`, which says what of the terminal's modes
  and of a pending toggle each place in `run_tui` may have left undone;
- `ClientCorrect`: `ClientInv` with `HeardInv`, which says that the state and the
  error App has are what the events already taken said, and the queued events
  are what remains of the stream; hence `ShowsOutcome` and `FinalIsQueued`;
- `ShowsEverything`, from `ShownInv`: what was forwarded is shown or queued;
- `GridsConverge`, from `GridInv`, which follows a resize from the window through
  the keyboard queue, the send and the driver to the PTY.

### The other components

| Module | Theorems | Argument |
|---|---|---|
| HostKeysProofs | `HostKeysTypeCorrect`, `RejectsUnknown`, `KeepsRecordsConsistent`, `LaterConnectsMatch`, `AlarmsAreTrue` | records are never removed; `LookupInv`: a client saw at least what was there when it began, and one about to record saw no rival |
| HistoryProofs | `HistoryTypeCorrect`, `RanksBest` | the newest rows of the directory, or else the newest of all, are the best of the lexicographic ranking, whatever rows `LIKE` matches |
| HistoryProofs | `MatchesLiterally` | by induction over the escaped pattern, `LIKE` matches a typed character by itself and the final `%` by anything |
| AppProofs | `AppTypeCorrect`, `ExtendsShadow`, `TagsTruly` | `ShadowInv`: besides the properties, an accepted line not edited since (`lastSug`) is empty or a recorded command (`TagInv`); every way to treat a key and every chunk preserves it. `PromptInv`, `RemoteInv` and `WireInv` type what the remote may send. What the query matches is left open |
| AppFollowedProofs | `MirrorsLine`, `GhostBehindItsLine`, `ExecutesEntered` | the keys under way, replayed on the shell's line, give the shadow; below |
| KeysProofs | `StreamUnderstood`, `ShadowInLockstep` | the bytes under way fall into units, one per event; below |
| OscScannerProofs | `OscTypeCorrect`, `FindsEvents`, `ImplementsMarkers` | `Place`: in every state of the scanner, the rest of the unit adds to the events found exactly what the unit was sent for |
| OscScannerProofs | `DecodesExactly`, `AsciiOnly` | by induction over the bytes in both directions: `Decoded` reaches the end between two characters exactly if the bytes spell the path; below |

**The shadow follows the line.** The theorems of AppFollowedProofs have the
hypothesis `Followed`: the user presses keys App follows exactly (characters,
Backspace, Left, Right, Home, End, Enter, Ctrl-A, -E, -K, -W, -C) and waits for
the prompt, which has OSC 133 markers. The instance of `app_followed` satisfies
it; with Ctrl-L among the keys TLC refutes both (section 3). The alphabet, the wide
characters, the history, the chunks and both delays are arbitrary. Neither
property is inductive, since shadow and line agree only once everything has
arrived. `FollowInv` says in which of three situations they are: a command runs
and nothing is typed (`Away`), the prompt is printed but its chunk is still under
way (`Prompting`), or the user edits (`Editing`). In the last, `Leads(up, line,
shadow)`: the keys under way, replayed one after the other on the two halves of
the shell's line, lead to the shadow split at its cursor, or, if the last of them
is Enter, to the line that was recorded. Pressing a key appends one step to that
chain and the shell takes one from its front; `EditReads`, `MoveReads` and
`ReadlineReads` show that App's edit of the shadow and the shell's edit of the
halves are the same step (`Reads`). `ScreenInv` and the position of the prompt tie
the columns the gate compares to the halves, which is where wide characters enter.

**The byte stream.** `Unit(bs, ev)` says that the parser reads `bs` as `ev` and
stops behind it whatever bytes follow. Every encoding is a unit or, for a paste,
a sequence of units, under every mode; hence the mode need not be what it was
when the bytes are read. `StreamInv` says that the bytes under way can be cut
into units, one for each event sent and not yet read; sending appends units and
reading removes the first. `AgreeInv` says of each event sent that App and
readline agree on it if and only if it is not `Drifting`, which with `StreamInv`
gives `Lockstep`; `CtrlAgrees` and `CodeAgrees` compare the two tables key by key. That a number is read as it
was written is an induction over its digits, and that a pasted text is cut at its
characters one over the text.

The inductions over data, the digits, the text, the pattern and the URL, are done
with a set of natural numbers in place of a predicate (`CountUp`, from the
well-foundedness of `<`), as the induction theorems of the library take an
operator.

**Directories.** `Names(url, path)` says, without decoding, which URLs a shell may
write for a directory: after an optional `file://` and host, each byte stands
for itself or is written as `%` and two hex digits. `DecodesExactly` shows for
every URL that `parse_file_url` returns the path it names, read as Latin-1
(`Read`), and otherwise nothing; `AsciiOnly`, that this is the path itself
exactly if all of it is ASCII.
`PayloadsAssumption` uses it for the constants: directories are sent as URLs that
name them and fit the cap, and noise, cut at the cap, neither is a marker nor
names anything. TLC evaluates it for the payloads of `osc_units`.

`ImplementsMarkers` is the safety part of `MarkersSpec`.

Every invariant of a passing run is stated by a theorem. Only model-checked are
the liveness properties with the fairness they rest on and the fairness of
`MarkersSpec` (out of the prover's reach).
`KeysInv` and `FollowInv` quantify over all sequences, so TLC does not evaluate
them; it checks the properties they imply.

## 5. What is not modelled

- Terminal emulation, rendering: a wrapper of alacritty_terminal, and drawing
  without state; the one decision in it, the gate, is `CanShow`.
- Arguments, password input, tracing, configuration, error types: no state after
  the start.
- `History::recent` and the scores of `suggest.rs`: not read by the client.
- russh's rekeying and keep-alive, its own queues behind resize, close and
  disconnect; SQLite's locking.
- The text put into the clipboard; that writing it may fail is part of `LoopTop`.
- The viewport scrolled back into the history.

## 6. Plan

Done: SessionLifecycle, SessionDriver, Tui with set-up, tear-down, mouse capture
and window, HostKeys, Keys, History, App with wide characters and earlier
history, OscScanner with decoding and its abstract specification, and the proofs
of section 4. Left, in this order:

1. **App**: the width of the window, a wrapped line and the grid's reflow under a
   prompt; the kernel's echo of keys typed while no prompt is up.
2. **AppFollowedProofs** for more users: accepting a suggestion with Right, which
   both sides take as the characters of its rest.
