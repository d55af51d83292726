# A verification of NextUI-Cast-Pak in TLA+

NextUI-Cast-Pak streams the screen of a handheld console to players on the
local network. This directory models the parts of it where several goroutines,
processes and clients meet, checks the models with TLC on small instances and
proves the main safety properties for all instances with TLAPS.

Paths below are relative to the repository root (`src/` here). "Request",
"session" and "run" are used in one sense throughout: an HTTP request of a
player, a streaming session of the daemon (one `runServer`), one call of the C
function `cedar_run`.

## 1. Inventory

The program is one binary. `launch.sh` starts it twice: as a daemon, which lives
on, and as the UI. They talk over a unix socket with one JSON value per line.

```
 UI (internal/ui) --commands--> ipc.Server --HandleCommand--> cast.Controller
      ^                            |                               | runServer
      +-------- events ------------+ <--- Broadcast ---------------+
                                                                   v
 players --HTTP :7979--> stream.StreamServer --Start/Stop/Wait--> Encoder
                             |                     exec: one ffmpeg process
                             +-- OnMetrics -->     cedar: cedar_run + ffmpeg mux
                                                   rtp:  cedar_run + ffmpeg to RTP
                                                   raw:  cedar_run alone
```

| component | state | operations | what is hard | what makes it correct |
|---|---|---|---|---|
| controller (`internal/cast/controller.go`) | `state`, `cfg`, `streamSrv`, `cancelFn` under `mu`; a goroutine per session | start, stop, get-status, five set commands, `setState`, `runServer` | commands of several connections and a starting session overlap; the lock is released between related steps | :7979 always has an owner; state, port and configuration agree; a stop is final |
| stream server (`internal/stream/server.go`) | `activeEncoder` under `cmdMu`; metrics under `metricsMu` | a handler per request, `Stop`, content directory, DLNA description, SSDP, a metrics ticker per handler | a new request evicts the previous client's encoder while its handler still runs; `Wait` is called with `cmdMu` held; statistics are read under the lock and sent outside it | no encoder without somebody to stop it; one at a time; everybody returns; the metrics are true; what is sent is what was announced |
| encoders (`encoder.go`, `ffmpeg.go`, `cedar_encoder.go`) | process, stop flag, `done` channel under `mu` | `Start`, `Stop`, `Wait`, the encode goroutine | `Start` has a middle, in which `Stop` and `Wait` find nothing | `Stop` followed by `Wait` leaves nothing running |
| Cedar encode loop (`cedar_encoder_linux_arm64.c`) | per call: framebuffer, memory adapter, encoder, buffer pool; global: library handles | `cedar_run`, `cedar_probe` | every call can fail; one cleanup for all of them; vendor library with hidden counters | whatever was acquired is released once; the pool never runs dry |
| IPC (`internal/ipc`) | the set of connections, `done`, listener | accept, handle, `Broadcast`, `Stop`; the UI's client | slow readers block writers; accept loop and shutdown | commands of a connection are handled in order; shutdown ends the loop |
| configuration store (`internal/config`) | `config.json`, copies in the UI and in the daemon | `Load`, `Save` | two processes write; a write can be cut off | the file holds what the user chose last and can be loaded |
| Wi-Fi probe (`internal/wifi`) | none | `HasWiFi`, `LocalIP` | the answer is stale at once | - |
| daemon lifecycle (`cmd/cast`, `launch.sh`) | pid file, socket, signal channel, 15 s ticker | start, signal, stop | a crash leaves the pid file and the socket; two launches race | one daemon, found through its files; a UI never without it |
| UI (`internal/ui`) | menu, selection, `latestState`, own copy of the configuration | event handler, menu actions, settings | it joins in the middle of a change; late and repeated reports; a state event wipes the metrics off | what is shown becomes what the daemon does |
| presets, resolution, ALSA, ffmpeg arguments | none | look-ups, parsers | combinations of settings; bytes chosen by the size | the stream has the format announced, and its parameter sets its size |
| logger and rotation (`internal/logger`) | a file, a level | `RotateLog` at every start | a crash between truncating and writing | the newest runs are kept, without a gap |
| back-off, bench, scripts | none | - | integer width of the back-off | - |

The file `PROJECT.json` lists, under `hazards`, each place in the code where one
of these difficulties bites, with the properties aimed at it.

## 2. Modules

| module | models | extends |
|---|---|---|
| `Controller` | `controller.go`, with the ticker of `main_daemon.go` and the order of writes on a connection | - |
| `Session` | abstract: what the controller promises a user | - |
| `StreamServer` | `handler()` and `Stop()` of `server.go`; `Start`, `Stop`, `Wait` of all encoders | - |
| `CedarRun` | `cedar_run` and the library handles it shares with other calls | - |
| `Ipc` | `ipc/server.go` and `ipc/client.go`, the ticker that broadcasts | - |
| `Settings` | the settings in the UI (`split_layout.go`), in the daemon (`HandleCommand`) and in `config.json` (`config.go`) | - |
| `Delivery` | `GetEncoder`, the choice and the output of the encoders, presets, routes, content types and the content directory, as one player meets them | - |
| `Screen` | the server's metrics and their tickers, the controller's and the status ticker's reports, the UI's event handler and first menu item | - |
| `Boot` | `launch.sh`, `main_daemon.go`, the connecting UI, pid file, socket, log rotation, crashes and power failures | - |
| `MCController`, `MCStreamServer`, `MCCedarRun`, `MCDelivery` | symmetry sets, the limits of two calls and the screens for TLC | the module in the name |
| `ControllerProofs`, `StreamServerProofs`, `IpcProofs`, `SettingsProofs`, `BootProofs`, `CedarRunProofs`, `ScreenProofs`, `DeliveryProofs` | theorems | the module in the name, `TLAPS` |

How they compose:

- `Controller` implements `Session` (`KeepsContract`, run `overlap`, and theorem
  `ContractKept`), whatever its clients send and when: `asked` is `wanted`,
  `serving` is whether the port is bound, `told` is `state`, `calm` is `calm`.
- `CedarRun` takes its callers as they are: calls may overlap, because
  `StreamServer` shows that two encoders can run (`SingleEncoder` and its exception,
  section 4). Its `stop` and `closed` are what `StopEncoder` does there, its `deaf`
  what `stalled` is.
- `Boot` is about which process lives; `Settings` about what its configuration
  file holds (`Boot` takes from it only that a save that is cut off can leave a file
  that cannot be read). `Screen` takes the handlers from `StreamServer`, with the
  encoders left out, and the commands from `Controller`, one at a time; that what
  is written to the connection arrives, in order, is `Ipc`'s.

`map` in `PROJECT.json` gives the lines each definition stands for. A definition
whose name has an underscore (`Evict_NoWait`) is a mutant: the same operation
with a bug somebody could write, against which the property named in
`PROJECT.json` is tested.

### Controller

Every goroutine that can be inside `HandleCommand` is an element of `Clients`
(one per IPC connection) or of `Tickers` (the status ticker); every session is an
element of `Sessions`. `pc` says where each is. The unit of interleaving is one
critical section of `c.mu` or one effect outside it: cancelling a context,
binding or closing :7979, writing `config.json`, writing an event.

`stopServer` is five steps (`TakeServer`, `Cancel`, `Shut`, which closes :7979 and
may take seconds, `ShowIdle`, which sets the state, then the broadcast),
`startServer` adds `CheckWiFi` or `NoWiFi` and `Arm`, `runServer` is
`SessionHasWiFi`, `Listen`, `Publish`, `SessionUp`, the broadcast and
`SessionDone`, or `SessionFails` at two of these points. A broadcast is
`ReadEvent` (the state as it is then, not the one just set) and `Send`. The four
settings whose change restarts a session are one value, `cfg.stream`; the log
level, which does not, is `cfg.log`. There are two history variables: `wanted` is the
last of the start and stop commands, and `calm` whether that one has been left
alone: it came when nothing was in flight (`Quiet`), and no command has come upon
its work since. Clients may send at any time; `calm` only says of what the
properties speak.

`deviceName`, `errMsg` and `sessionStartedAt` are written in the same critical
sections as `state` and `streamSrv` and are left out.

### StreamServer

Every request has a path ending and a kind of encoder, chosen at the start, and
an encoder record: is there a command (`made`), does its process run (`proc`),
the encode loop (`loop`), the stop flag (`flag`), the `done` channel (`done`).
`Start` is three steps, because `Stop` and `Wait` of another goroutine may fall
between them: `Start` (the flag and the channel are reset), `Spawn` (the process
exists) and `Publish` (the command becomes visible to `Stop`, the loop begins).
`cmdMu` is a variable only where it is held across a step: around `Wait`, in
`Reap` and `StopReap`. Handlers wait in `serve` for the client to leave or for the
encoder to end. Clients may leave at any time, and with `Stalls` stop reading.
Requests and `Stop()` come at any time, also while a handler is `Underway` to its
encoder. Two history variables remember what this leads to: `raced` are the
requests whose encoder was stopped while they were, `late` those that took the
place after `Stop()` had let go of `cmdMu`.

### CedarRun

One step per resource `cedar_run` acquires, one `Fail` for every place it can go
to `done` from, and one step for every line of the cleanup. `flags` are its flags
and pointers, as the code sets, clears and tests them; `owns` is what it really
holds. Every step of the cleanup is guarded by its flag alone, so a flag that is set
too early, or forgotten, releases the wrong thing. A buffer of the pool is free,
held, submitted (`queued`) or `lost`: `ReturnOneAllocInputBuffer` may fail, which
nobody looks at (`Return`), and `AlreadyUsedInputBuffer` may give a buffer
without an address (`ReclaimNull`). The pool frees what is in its queues and, as
far as the code can know, what it lent. `Encode` is followed by the drain: `Fetch`,
and `Written` once the reader has taken everything, which a reader that stalls
(`deaf`) puts off until it reads on or the pipe is closed. A call in `Raw` writes to
the client and has no pipe. The library handles are globals over the reference counts of
`dlopen`; testing, closing and clearing one are separate steps. Calls may overlap: `met`
is a history variable, the calls that were active together with another one.

### Ipc

A client is one connection: it connects, sets its callback, sends and closes;
`readLoop` runs beside it. On the server's side there are the accept loop
(`Accept`, `Register`, `Spawn`), a goroutine per connection (`Scan`, then the
command, which ends in a broadcast) and the other goroutines that broadcast
(`Pushers`). A broadcast copies the map under the lock (`Snapshot`) and writes to
one connection after the other without it. Each direction of a connection is a
buffer of `Cap` messages, and writing to a full one blocks: this is how one slow
reader can stop everybody. An event in a buffer is either the answer to a command
of the client that will read it, or of no concern to it. `owed` is a history
variable: the commands a client has had no answer to. Every command in this
module is one that is answered (get-status); what the others do is Controller's.

### Settings

All five settings with their options, in the order in which the menu offers them.
`config.Save` is two steps, because `os.WriteFile` truncates and then writes: what
a second writer leaves depends on the length of the two texts, so `Size` counts
the letters that differ between configurations. The end of a longer text behind a
shorter one is always `}` with what is before it, which `json.Unmarshal` refuses;
`Load` then gives the defaults, with an error for which the daemon exits and
which the UI ignores. A change takes one command, except for H.264, which takes
two. `chosen` is a history variable: the configurations the UI has shown since
its start.

### Delivery

One player, every setting, and a screen with or without the hardware encoder.
The player browses the objects it has been given (`Browse`), remembers the
manifest, and asks for any registered path at any time (`Get`). `GetEncoder` is
two steps, because it leaves `c.mu` between reading the transport and reading the
preferred encoder: `ReadSettings` and `Respond`, with any commands between them.
Formats are their MIME types: what an encoder writes (`body`), what it says it
writes (`EncoderType`) and what the response says (`HeaderType`) are three
things. Parameter sets are their bytes, and `FrameSize` reads them as a decoder
does, bit by bit. `steady` and `due` are history variables: whether the transport
is still the one of the manifest, and the format promised to the request.

### Screen

A report is read in one step and delivered in a later one: `ReadStats` and
`SendStats` in a handler, `TickReads` and `TickSends` in its ticker goroutine,
`StatusTick` and `StatusTell` in the status ticker. The deferred cleanup is two
critical sections: `End` releases `activeEncoder`, so that the next request finds the
place free, and `Unshow` sets `connected` to false later, whoever is connected by
then. `RunServer` makes a server that takes requests, `Streaming` sets the state.
On the other side `TellState` replaces all of `latestState`, `TellBitrate` ignores a
disconnect within two seconds of the last report of a client (`recent`, which `Age`
ends), and the UI loses what comes before it has registered its handler (`Open`,
`Register`) and forgets everything when it ends (`Leave`). `before` is a history
variable: the handlers that had still to clean up when a client connected.

### Boot

Every start-up step that touches a file is a step: `RotateLog` reads, truncates
and writes; the socket path is unlinked and bound; the pid file is created empty
and then written. So is every step of a shutdown. A daemon can die between any
two of them, leaving both files, and a power failure clears `/tmp`. `launch.sh` looks
at the pid file once and then becomes the UI, which tries to connect. `log` is the
sequence of the runs in the log with their sizes. `disturbed` is a history
variable: the daemon was stopped or hurt, or could not read its configuration,
since the launch.

## 3. Runs

| run | instance | what it shows |
|---|---|---|
| `overlap` | 2 connections, 2 sessions, 2 settings, saves may fail; 4.1 M | `PortOwned`, `ServerListens`, `StateTruthful`, `KeepsContract`: however starts, stops and restarts overlap, the server on :7979 is one the controller can stop; and what commands that overtake each other leave wrong is right again after the next start or stop that is left alone |
| `session` | 1 connection that may send while a session is starting, the ticker, 2 sessions, 2 settings; 0.85 M, with fairness | `PersistedConfig`, `NoLostCancel`, `StartAnswered`, `StatusConverges`: a start is answered, the UI comes to know the state, no session waits for a cancellation nobody can send |
| `mixed` | 2 requests, all paths and kinds, failing starts, stalling clients, `Stop()`, at any time; 4.2 M | `TypeOK`, `NoOrphanEncoder`, `ActiveServed`, `NoGhostClient`, `SingleEncoder`, `EncoderOwned`, `StoppedSilent`: takeovers and stops do what they should but to an encoder that is still starting |
| `takeover` | 2 requests of either path, exec, cedar and raw, `Stop()`, at any time; 0.68 M, with fairness | `CallersReturn`: who waits for an encoder with `cmdMu` held gets it |
| `cedar` | 2 calls that may overlap, one without a limit that writes to the client, one of 1 frame that writes to ffmpeg, pools of 2; 0.58 M, with fairness | `PoolConserved`, `ReleasedInOrder`, `NothingLeft`, `LibsLoaded`, `StopHeeded` |
| `ipc` | 2 clients, one of which sends up to 3 commands, the ticker, buffers of 1, `Stop`; 0.16 M, with fairness | `NoLostAnswer`, `Registered`, `AllAnswered`, `LoopEnds` |
| `settings` | 5 changes of any settings, 1 power failure at any point; 1.8 M | `Agreement`, `OnlyChosen`, `Healed` |
| `delivery` | all 72 configurations, the 4 screens of `MCDelivery`, with and without Cedar; 0.56 M | `BodyAsAnnounced`, `StaleAddressServed`, `TornReadHarmless`, `SizeDescribed` |
| `screen` | 2 requests, sessions that start and stop, a UI that joins and leaves at any time; 0.76 M, with fairness | `MetricsOfServed`, `DisconnectShown`, `ConnectShown`, `MenuConverges` |
| `boot` | 3 daemons one after the other, 2 crashes or power failures, every earlier log of up to 5 runs of 3 sizes; 0.65 M | `OneDaemon`, `PidTruth`, `NeverAlone`, `LogRotated` |

Two more runs show where the code does not do what its documents or comments say:

| run | property violated | how |
|---|---|---|
| `stop_lost` | `NoServerAfterStop` | A stop is handled while `runServer` is between its start and `c.streamSrv = streamSrv` (controller.go:264). `stopServer` cancels the context, which nobody looks at before the server is published, and finds no server. The server comes up after the stop, and the state becomes "streaming". |
| `loop_dead` | `LoopEndReported` | The encode loop returns by itself (an error, `max_frames`). Its goroutine calls `cmd.Wait()` before the deferred `pw.Close()`, and ffmpeg ends only at the end of its input. |

More weaknesses show when one constant of a passing run is changed; section 4
lists them.

### Bounds, and why they are enough

- `Sessions` bounds how often a session may be started. A command that could
  start one is sent only while `MayStart`: there is a fresh session for every busy
  client. Two sessions are the least for a restart, and for a start that overtakes
  another; a third would meet only what the second meets, since a stopped session
  only has its own steps left. The properties of `overlap` and the invariants of
  `session` are also proved for any number.
- Two connections are enough for every pair of overlapping `HandleCommand`s.
- Two requests and `Stop()` are enough for every takeover; the safety properties
  of `mixed` are also proved for any number (section 5).
- A buffer of one message is the smallest and blocks soonest; three commands are
  one handled, one in the buffer and one that waits. `NoLostAnswer` and
  `Registered` are also proved for any number of clients and any buffer.
- Five changes take the transport once round its options, or put two changes of
  the same setting on both sides of a third. The properties of `settings` are also
  proved for any number of changes and of power failures.
- Two calls of `cedar_run` overlap in every way two can. Two buffers are one that is
  lost and one the loop goes on with, and the pool is empty when both are lost.
  `max_frames` is 0 (no limit, as in the daemon) or 1; without a limit frames are
  not counted. The invariants of `cedar` are also proved for any number of calls,
  buffers and frames.
- `Screen`: two requests are one that is evicted and the one that evicts it; each
  has one ticker goroutine with at most one report on its way. Commands come one at a
  time, since `Controller` has what happens when they do not.
- `Delivery`: 1280x720, 640x360 and 480x270 give every entry of the table of
  parameter sets (two of them need alignment), 1024x768 gives none. One player is enough,
  because nothing in `GetEncoder` or in the headers depends on another request.
- `Boot`: three daemons are one that dies, one that starts over its remains, and a
  third that meets what the second left; `Failures` = 2 lets both of the first two die,
  or one die and the power fail. `Tries` = 2 stands for the UI's ten: the
  last try is made when no daemon is starting any more. `MaxRuns` = 5 is the real
  constant; `MaxBytes` = 5 with runs of 1, 3 or 6 makes runs that fit, that fit only
  together with few others, and that never fit. The properties of `boot` are also proved
  for any numbers, limits and sizes.
- `CHECK_DEADLOCK FALSE` is set for the stream server, for `cedar_run` and for `Boot`:
  their supply of requests, of calls and of process ids is finite, and when it is
  used up they stop. The controller always has a network that may change, the
  screen a status ticker and the player something to browse: they need no such
  setting.

### Assumptions a run makes

- One connection in `session`: commands are handled one at a time, and the next one may
  come while the session of the last is still starting. With two connections
  `PersistedConfig` fails (the older copy can be written last, controller.go:68), and
  so does `NoLostCancel` (two starts arm a context each, controller.go:162).
- `Stalls = FALSE` in `takeover`: a client reads or leaves. With a client that does
  neither, `Wait` of a Cedar encoder waits for the muxer's output to be copied,
  and `Stop()` with it.
- `Failing`: which kinds of encoder may fail to start. With "cedar" among them
  `CallersReturn` fails (section 4).
- `Overlap` of `Boot` says whether `launch.sh` may run while a daemon starts or stops.
  With `TRUE` all four of its properties fail (section 4).
- `Boot` assumes that a process id is not used again while an old pid file names it
  (`kill -0` cannot tell), and that the UI's ten tries last longer than a start.
- `Screen` takes one request at a time: the next one comes when the last one is
  served or over, and an evicted encoder has ended when the next handler goes on.
- `Silent`: the clients that never read. It is empty: with a silent client every
  broadcast ends up waiting for it, since there is no write deadline (server.go:77).
- `Settings` assumes that writes do not fail, that a UI started while the daemon
  is alive gets connected within its ten attempts, and that the UI is not started
  again before the daemon has handled what the last one sent.
- Without a power failure a daemon never finds an unreadable file. After one that
  fell between the two steps of a save it exits at every start until the UI, which
  then runs on the defaults, has saved a setting (`Healed`).

### Fairness, and why the code justifies it

- A goroutine that can take its next step takes it (`ClientStep`, `SessionStep`,
  `Push`, `HandlerStep`, `StopStep`, `CloseDone`). Weak fairness is enough for
  those that wait for `cmdMu` in the runs that check liveness: whoever holds it
  across a step waits for an encoder, and Go's mutexes are handed to a goroutine
  that has waited for a millisecond.
- A goroutine that writes to a connection, or waits for another that does, is
  served in turn (`Handle`, `Broadcast` of `Ipc`: strong fairness). Go queues the
  writers of a connection, so none of them is passed over for ever. Those that
  read a connection or accept need weak fairness only, and users owe nothing.
- The status ticker keeps firing (main_daemon.go:59).
- A loop whose stop flag is set ends (the test at the head of the loop,
  cedar_encoder_linux_arm64.c:437). A loop whose flag is not set owes nothing.
- In `Screen` handlers, their tickers, the controller and the UI take their steps;
  a handler that was evicted, or whose server was stopped, comes to its end, because
  its encoder does; the status ticker and a handler's ticker keep firing; and
  two seconds pass (`Age`).
- Every call of the vendor's library returns, with success or failure, and the
  encoder has finitely many frames of output, so the drain comes to its end (strong
  fairness of `Drained`). `cedarEncoder.Stop` goes on from setting the flag to
  closing the pipe. A reader owes nothing: `StopHeeded` promises a return only where
  there is a pipe to close or the client does not stop reading for good.
- Clients, players and the network owe nothing: they may be silent for ever.

## 4. What the code does, as seen from the properties

- *The port always has an owner.* `TakeServer` moves the server out of the
  controller in the same critical section in which it takes the cancel function,
  so that two stops cannot both hold it, and a session publishes its server
  whatever has happened to its context. That second fact is what loses a stop
  (`stop_lost`) and what keeps the server reachable for the next one.
- *An encoder stays with its handler.* `activeEncoder` may be another request's or
  nil by the time a handler ends; it stops its own encoder through its own
  reference when the client leaves, and the cleanup stops it again only if it is
  still the active one.
- *No answer passes its client by.* A connection is in the map before its
  goroutine exists, and leaves it when the goroutine returns, so the copy of the
  map made for an answer always holds the client that asked (`Registered`,
  `NoLostAnswer`). And because `Send` gives up `c.mu` before it writes, `readLoop`
  can always read: if `Send` kept it, server and client could each wait for the
  other to read (TLC finds that deadlock at once).
- *The three copies of the settings agree* although UI and daemon truncate and
  overwrite the same file, because every save of the UI is followed by a command,
  and so by a save of the same configuration by the daemon, and because the
  daemon applies the rule "H.264 and RTP need ultra" itself. The UI sends the
  quality for H.264 a second time; for RTP it relies on the daemon.
- *Nobody waits for ever* holds as long as `Stop` finds something to stop: an
  encoder in the middle of `Start` is the exception.
- *Overtaking does not last.* Commands of two connections, or a command that finds a
  session starting, can leave a server nobody asked for and a state that is wrong.
  Both end with the next start or stop that is left alone: `stopServer` finds any server
  that is bound, since each is in the controller by then, and the state follows
  the port again.
- *The cleanup of `cedar_run` is exact*, although it has seven resources and a failure
  at every step: each flag is set right after the call it stands for and the order of
  the releases is the reverse of the acquisitions. A buffer the pool refuses
  is lost until the pool is released, and a run that has lost all of them ends.
- *What is sent is what was announced*, for a player that reads the directory and
  then asks, although the settings are read twice in between: the second read can
  only choose an encoder, and each encoder does what the transport of the first
  read asks, or (RTP) is not chosen. A player with the address of the transport stream
  under RTP is redirected.
- *The screen becomes true again* after a report that was overtaken, because every
  ticker repeats itself. A client that is served is wiped off the screen by each
  status report, every 15 s, until its next statistics come.
- *One daemon* survives any crash, because the pid file is only believed together
  with a live process, and a daemon takes the socket's path by removing what
  is there.

Where the code falls short, beyond the two runs above:

| what | where | how to see it |
|---|---|---|
| A request that takes over while the previous handler is inside `encoder.Start()` does not stop it: `Stop` sets a flag which `Start` resets, `Wait` finds no channel yet, and both encoders run. | server.go:156 | `mixed`: drop `raced` from `SingleEncoder`, or from `EncoderOwned`: the encoder of a session description can be left with nobody to stop it (server.go:195) |
| A handler that waits for `cmdMu` while `Stop()` holds it starts its encoder on the stopped server. | server.go:682 | `mixed`: drop `late` from `StoppedSilent` |
| Two calls of `cedar_run` at once clear each other's globals: one closes a library the other is using, and another stays open for good. | cedar_encoder_linux_arm64.c:150, 216 | `cedar`: drop `met` from `LibsLoaded`, or from `NothingLeft` |
| Without ffmpeg the encode loop writes to the client itself: one that stops reading without leaving keeps the loop, and whoever waits for it. | cedar_encoder_linux_arm64.c:544 | `cedar`: drop the condition on `Raw` from `StopHeeded` |
| A session that comes up during a stop is reported idle, and two starts at once leave a session that nobody can cancel. | controller.go:184, 162 | `overlap`: drop `calm` from `StateTruthful`, or check `NoLostCancel` there |
| A Cedar `Start` that fails after it made `done` leaves it open. A takeover or `Stop()` that waits for it holds `cmdMu` for good. | cedar_encoder.go:293 | `takeover` with "cedar" in `Failing` violates `CallersReturn` |
| The parameter sets for 640x368 are a copy of those for 480x272, so a decoder is told the wrong size. The comment above the table says "All entries are Annex B, Baseline Profile, verified on H618 hardware." (cedar_presets.go:30). | cedar_presets.go:38 | `SizeDescribed` says so, lemma `Described` proves it; drop its exception and `delivery` finds the screen 640x360 |
| The cleanup of a handler, evicted or ended by itself, sets `connected` to false after its successor has set it: the client that is served is shown as waiting until it is gone. | server.go:265 | `screen`: drop `before` from `MetricsOfServed` |
| With transport H.264 and the software encoder the directory announces `video/h264`, and the response says `video/mp2t` around an H.264 body, because `FFmpegEncoder` has no content type. | server.go:135 | `delivery`: drop the condition on the encoder from `BodyAsAnnounced` |
| The address of the H.264 stream, kept under RTP, is answered with a session description called `video/mp2t`: only `.ts` is redirected. | server.go:130 | `delivery`: `StaleAddressServed` for every path but `.sdp` |
| Without its fonts the UI falls back to a list that reads the state once: it goes on offering to start the server it has started, and never to stop it. | split_layout.go:229 | `screen` with `Fonts = FALSE` violates `MenuConverges` |
| `launch.sh` sees no pid file while a daemon is starting, and starts a second; a daemon that is stopping removes the socket and the pid file of its successor; a UI launched during a stop stays alone. | launch.sh:33, ipc/server.go:59 | `boot` with `Overlap = TRUE` violates `OneDaemon`, `PidTruth`, `NeverAlone` and, with two daemons that rotate, `LogRotated` |

## 5. Theorems

They are of the form `Spec => []Property`, but for `ContractKept`, for any values of the
constants that satisfy the named assumptions of the module and those of the theorem.

| module | theorem | assumes | argument |
|---|---|---|---|
| `ControllerProofs` | `TypeCorrect`, `PortAlwaysOwned`, `ServerAlwaysListens` | - | `IInv` |
| | `StateAlwaysTruthful` | - | `CalmInv` |
| | `ContractKept` (`Spec => Contract!Spec`) | - | the same, step by step |
| | `ConfigAlwaysPersisted` | `OneAtATime`; saves succeed | `Saved` |
| | `CancelNeverLost` | `OneAtATime` | `Armed`, `Serial` |
| `StreamServerProofs` | `TypeCorrect`, `NoOrphans`, `ActiveAlwaysServed`, `NoGhosts` | - | `EncoderInv` and one strengthening each |
| | `OneEncoder`, `AlwaysOwned`, `SilentAfterStop` | - | `TakeoverInv` |
| `CedarRunProofs` | `PoolAlwaysConserved`, `TypeCorrect` | - | `Pool`, `Counted` |
| | `AlwaysReleasedInOrder` | - | `Held`, `Gone` |
| | `LibsStayLoaded`, `NothingEverLeft` | - | `Kept`, `LoneInv` |
| `IpcProofs` | `TypeCorrect`, `MapExact`, `AnswersKept` | - | `IInv` |
| `SettingsProofs` | `CopiesAgree`, `DaemonOnlyChosen`, `AlwaysHealed` | - | `Path`, `DaemonSaves`, `UiAlone` |
| `ScreenProofs` | `MetricsAlwaysOfServed` | - | `InTurn`, `Holds`, `Latest`, `Counted`, `Between` |
| `DeliveryProofs` | `AnnouncedIsSent`, `StaleAlwaysServed`, `TornReadsHarmless` | - | `Informed`, `HalfRead` |
| | `SizeAlwaysDescribed` | - | `Fitting`, `Described`: the tables decoded |
| `BootProofs` | `OnlyOneDaemon`, `FilesTellTheTruth` | `~Overlap` | who may touch which file |
| | `NeverLeftAlone` | `~Overlap` | `Expected`, `Unlinked` |
| | `LogAlwaysRotated` | `~Overlap` | `Numbered`, `Read`, `Rotated` |

*Controller.* Neither `PortOwned` nor `ServerListens` is inductive: a `Shut` in one
connection could close a port whose owner is another's, and a `Publish` could
overwrite a server. `Ownership` says what excludes it: a server in the controller,
one in a `stopServer`'s hands and one about to be published is the one that is
bound, only one of these places holds it, and only a session that has bound the
port is at `publish`. `IInv == TypeOK /\ Ownership`; `OwnershipStep` goes through
the actions, `Inductive` adds types, and the theorems follow.

*Commands left alone.* `StateTruthful` speaks of the moments when nothing is in flight
and the last start or stop was `calm`, so its invariant has to say what happens in
between. `Undisturbed` is what calm gives: one command at work or one session starting,
and not both. `PortFree` says that what `TakeServer` took is what is bound, and that the
port is free at the next start; `Truthful` that the state lags behind the port only
between `Listen` and `SessionUp` and within `stopServer`; `Obeyed` that whatever can
still start a server or report an error was asked for. `CalmInv` promises these only
while `calm` holds. A start or stop that comes when nothing is in flight
puts them in force again, whatever was wrong before: by `PortOwned` the server that is
bound is in the controller, where `TakeServer` finds it. For the refinement
one lemma each says which step of `Session` a command is (`CommandAsks`,
`SettingDisturbs`), the binding and the closing of the port (`ListenBegins`, `ShutEnds`)
and each change of the state (`IdleTold`, `FailureTold`, `UpTold`); the rest stutters
(`OthersStutter`).

*One at a time.* The last two theorems need that one command is handled at a time, which
one connection gives (`OneAtATime`, `Alone`): a session may still be starting. `Saved`
says that the copy being saved is the configuration in use, which no second command can
change before it is written. `NoLostCancel` fails when two starts overlap and one cancel
function overwrites the other. `Armed` sessions are those not yet cancelled; `Serial`
says that each is the one `cancelFn` names or the one a stop is about to cancel, and
that a start on its way finds none.

*Stream server.* `NoOrphanEncoder` says nothing of why a handler may leave its wait.
`EncoderInv` adds it: before `Spawn` nothing of an encoder exists; a process that
`Stop` cannot find is one not yet published; `done` is made before the process and
closed only when loop and process are over. So where `Wait` has returned, the
encoder has ended. `ActiveServed` rests on `ActiveHandled` (the active encoder's
handler is between installing and releasing it), `NoGhostClient` on the fact that
only media handlers ever show their client (`ShownByMedia`).

*Takeovers.* `SingleEncoder` is a claim about two handlers and a third party that
waits between them. `TakeoverInv` makes it one about a single place: what runs is
the active encoder, unless it raced (`SoleOwner`), so it is unique among those that did
not. That a step of `Reap` or `StopReap` keeps this is `Reaped`: who stops the active
encoder holds `cmdMu` until it is reaped, an encoder that is stopped while it is
starting has raced from then on (`Reaping`), and for any other `Wait` returns only when
it has ended. `Emptied` carries this past `Stop()`: from then on only a `late` encoder
is active.

*Cedar.* `Pool` says where the buffers of a call are, by its place: one is submitted
during a frame, one is in the loop's hands between two, and each is free, lent or lost.
`Counted` keeps the frames below the limit. What the cleanup does follows
from `Held`: what a call owns is what its flags say, without what the cleanup has
released so far (`Gone`), and the flags are set in the order of need. So each
line releases something that is owned, and nothing that is still needed, and at the end
nothing is left. The library handles are shared, and calls that meet spoil
them. Two things survive that: a global that is set has a call that will still clear it
(`Kept`), so that all are clear when no call is active; and a call that has met nobody
found them clear and is alone with them (`LoneInv`), so that it finds each library open
from loading to closing.

*IPC.* Even the types need more than themselves: that `owed` does not go below zero
is `NoLostAnswer`. That in turn needs `Registered` (the copy made for an answer
holds its client), `Current` (a broadcast writes to a connection of its copy),
`HandedOver` (a connection on its way from the listener to its goroutine is in one
place, and has no goroutine) and `Untouched` (no traffic before a client has
connected, and nothing owed before it has set its callback). There is one lemma
for each of these conjuncts, going through all actions.

*Settings.* `Pending` are the commands the UI has still to send and the daemon still to
handle. `Path` says that applying them one after the other to the daemon's configuration
leads to the one the UI shows, through configurations that it has shown (`Leads`, a
function from the positions of the queue). `SendKeeps` is that sending changes nothing
of it, `HandleTakes` that handling takes the first step, `CommandsLead` that what a
change enqueues is a path by itself, although H.264 takes two commands and RTP relies
on the daemon. `Agreement` is `Path` for the empty queue and `OnlyChosen` its first
place. `DaemonSaves` and `UiAlone` say whose text the file holds, and that a bad one
is in the middle of a save or was met by a UI alone.

*Boot.* With launches kept apart from starts and stops, only one daemon is alive at a
time, which makes the files its own: the invariant says for each place in its life
what the pid file and the socket hold, and that a pid file which names somebody
names the daemon that serves. A UI that is still trying has its daemon on its way or serving, or
`disturbed` says why not (`Expected`); at its last try nobody is on the way any more.
For the log, `Read` says that a daemon that is rotating has read what was there, or is
about to write the end of it, `Rotated` that `RotateLog` leaves the first end that
fits, and `Numbered` that ends of a sequence without a gap have none. That the loop's
result is the longest end within both limits is `TrimmedFits` and `LongestEnd`: the
least index that fits exists because the natural numbers are well-founded
(`MinIsLeast`).

*Screen.* A handler that is on its way holds the active encoder and everybody before it
is served or over (`InTurn`, `Holds`), and nobody comes after the one that has it
(`Latest`), so the one that connects last is the one that is served. Whoever has still to
clean up then is in `before` (`Counted`), so that only these can put out what it shows
(`Promised`); and the metrics are cleared for a new server only when no handler of the
last one is left (`Between`).

*Delivery.* What a player has read stays true while the transport does (`Informed`); what
`GetEncoder` has read first belongs together, and a promise is about that transport
(`HalfRead`). `Hardware` and `Software` say what each encoder produces for it, `Chosen`
that RTP gets the hardware whatever the second read finds. `SizeDescribed` is a
computation: `ZerosAre` and `GolombIs` say what reading a code gives, `SmallSize` and
`LargeSize` read the different tables from end to end, `Covers` is the alignment.
`Described` puts them together for every entry, also the wrong one: that for 640x368
tells 480x272 (section 4).

What stays with TLC is liveness under fairness (`StatusConverges`, `StartAnswered`,
`CallersReturn`, `StopHeeded`, `AllAnswered`, `LoopEnds`, `DisconnectShown`,
`ConnectShown`, `MenuConverges`): it needs `ENABLED`, which the prover does not have.
Every other property of the passing runs, the refinement included, is also a theorem.
Two assumptions on the environment are left: `OneAtATime` for two theorems of the
controller and `~Overlap` for `Boot`; what fails without them is in section 3. The
theorems on takeovers, on the cleanup of `cedar_run` and on the state take requests and
commands at any time, and name in their statement what they except: encoders that
`raced` or came `late`, calls that have `met`, commands that were not left alone. That
`Trimmed` and the other operators on data do what the Go code does is not a theorem but a
translation.

## 6. Not modelled

- `http.Server.Serve` and the goroutine per connection, beyond one handler per
  request; `Shutdown`'s two seconds are "Stop() does not wait for handlers".
- The bytes on pipes and sockets: what of an encoder's output is lost when `Wait`
  closes the read end of its pipe (encoder.go:116), who still writes to a
  response whose handler has returned (encoder.go:78), the counters and the rates
  computed from them. In `StreamServer` a pipe is blocked or not, and closed or not.
- SSDP: a loop that repeats a constant announcement, with the address at the start
  (server.go:558 keeps it after a change of network); the device description,
  which is a constant text.
- Drawing, text textures, fonts and images, the input of sticks and buttons and the
  movement of the selection (`split_layout.go`; a stick stops at the fifth of the six
  lines of the settings, line 643): the menu is what its first item offers and what
  choosing a setting does.
- Pixel conversion and the reassembly of the bitstream in
  `cedar_encoder_linux_arm64.c`, `cedar_probe`; ffmpeg's own behaviour beyond "its
  process ends when it is killed, may end by itself at any time, and waits for the
  end of its input", and the tuning options it is given.
- `backoff.go`: nothing but its test calls it (its product overflows for large
  attempts, backoff.go:8).
- The choice of an address among the interfaces (`wifi.go`), logging, profiling, the
  benchmark and the build scripts.

## 7. Plan

1. Proofs: what holds of the configuration with two connections, and of the pid file
   when launches overlap starts and stops.
2. `Encoder`: an abstract contract (after `Stop` and `Wait` nothing runs, and what
   was written before the end arrives), with the pipes of the exec and of the
   Cedar encoder.
3. `Menu`: the UI's selection and its actions, with the events that change the
   items under it.
