# Verification of ble_nrg_serial

`ble_nrg_serial` is a Qt application that connects to up to two Bluetooth Low
Energy sensors ("wearables"), synchronises their clocks, starts and stops a
recording on all of them, downloads what they recorded in "huge chunks" over a
UART-like service, writes it to log files and uploads those.

This directory holds TLA+ modules translated from its C++ sources, the
configurations that model-check them with TLC, and proofs checked with TLAPS.
File names without a directory are those of the repository's root; `DC` stands
for `devicecontroller.cpp`.

## 1. Inventory

### Threads

The main thread holds the user interface and all objects but one kind: each
connected device has a `DeviceInterface` in the main thread and a
`DeviceController` in a thread of its own (`deviceinterface.cpp:24`).  The two
talk by queued signals only, so **a queued call is an event that is handled
some time later, in order per sender**, and everything between two returns to
an event loop is one atomic step of its thread.  That is the granularity of
all modules.  Timers are events of the thread they belong to.

### Components

| Component | State | Operations | Talks to | What makes it correct |
|---|---|---|---|---|
| Command channel (`DC:524-571, 972-1000`) | outstanding command, retries, `m_cmdTimer`, backlog and its timer | send, retransmit, take an answer, retry the backlog | main thread, handlers, device | one command at a time; a command is over only when the device has heard it; nothing asked for is lost; the channel becomes free again |
| Chunk reception (`DC:705-903`) | slots, highest index, "skipped"/"last received" flags, list of missing packages | start of a chunk, package, end of stream, missing package | device, command channel | a package ends up in its own slot; a hole never goes unnoticed |
| Chunk download (`DC:454-472, 778-968`) | the two above, next-request timer, payload handed over | request, acknowledge, repair, hand over, report | device, `LogFileHandler`, `CatchController` | the device lets go of a chunk only when it is safe; files end up whole, in order; the download ends |
| Connection (`DC:44-350`) and its parameters (`DC:388-512, 1002-1039`) | stage of the set-up; requested and current mode, `m_connParamTimer` | connect, discover, lose; change mode, timeout | Qt Bluetooth, `CatchController` | a loss is not passed over; a mode change ends in success or failure, once |
| `TimeSyncHandler` | state, message count, travelling times, threshold, timer | start, one slot per reply, timeout | devices, `CatchController` | a device is synchronised by the very stamp that was judged; the average behind a threshold is of one time at least |
| `CatchController` | three state machines (sync, download, start) and their timers, device in turn, `remaining_c`, readiness, "all connected", common main state | start/stop all, sync all, download all, dispatch of triggers | everything | no device is passed over; the files of an index are those of one catch; "connected" means all; nothing goes on too early; the user is told of the end |
| `DeviceInterface`, `DeviceInfo` | last alive message, connection and readiness flags | forward signals, build commands | `DeviceController`, `CatchController` | flags reflect what arrived |
| `DeviceFinder` | found devices, selection count | scan, select, deselect, connect | `CatchController` (device list) | at most two selected; LEFT and RIGHT are different devices |
| `LogFileHandler` | file index, directory, session log | write a type, append, finish, next index | network manager | no file of an earlier catch is overwritten |
| `NetworkManager` | upload jobs, OAuth state | authorise, create folder, upload, reply | network | every finished file is uploaded once |
| `ConnectionHandler`, `AdapterInfo`, `QmlListAdapter`, `GraphPainter`, `PaintData`, terminals, QML | view state | display | user | pure input and output |
| Device firmware | - | - | - | not in the repository: external |

### Hard behaviour

* The command channel is stop-and-wait, but its answer `CMD_OK` names no
  command: retransmissions, late answers and a last-in first-out backlog with
  its own timer all meet in it.
* A package carries the low byte of its index only; the rest is rebuilt from
  the highest index so far.
* A reply to a request for a missing package carries no index and is stored
  where the *latest* request pointed.
* A payload is handed to another thread by reference and destroyed by the next
  hand-over.
* One `TimeSyncHandler` serves all devices; neither its counters nor its
  samples are reset by a start.
* `CatchController` has one download in turn, one file index and one counter of
  outstanding mode changes (`remaining_c`) for events of all devices, none of
  which says which request it belongs to.
* A file of the upload names its folder by what the last reply has left in
  `m_curr_folder_id`.
* The counters of the selection outlive the devices they count.
* Several fields are read before anything has set them (`skipped`, `last_idx`,
  `m_connectionAlive`, the last alive message, `m_deviceType`, `m_bleUplEnabled`,
  `m_googleEnabled`, `m_sensorDataWaitingForDownload`): every value is a possible
  initial state of the modules and of the runs, but for the last one, which starts
  FALSE in the runs of `CatchSession` (section 3, `Garbage`).

`PROJECT.json` lists each hazard with its line and the properties aimed at it.

## 2. Modules

| Module | Models | Uses |
|---|---|---|
| `CmdOps` | the command channel as operators on a record, one per function of the code | |
| `CmdDelivery` | abstract: commands are delivered one after the other | |
| `CmdChannel` | the channel at work: callers, timers, device, lossy link | `CmdOps`, refines `CmdDelivery` |
| `ChunkOps` | the receiver of a huge chunk as operators on a record | |
| `ChunkStream` | streams of packages, lost or overtaken, into that receiver, its check for holes and the packages requested again | `ChunkOps` |
| `ChunkDelivery` | abstract: chunks are saved whole and in order, then success is told | |
| `Download` | channel, receiver, device and main thread together | `CmdOps`, `ChunkOps`, refines `ChunkDelivery` |
| `TimeSync` | `TimeSyncHandler`, the part of `CatchController` that drives it, the devices | |
| `CatchSession` | start, stop, trigger, prompt, download of all devices and their files (`CatchController`, `LogFileHandler`, `DeviceInterface`) | |
| `ConnMode` | the change of connection mode before a sync, a download or a start (`DeviceController` and `CatchController`, Android build) | |
| `Connection` | CONNECT, the set-up of connections, "all connected" and the common main state (`DeviceFinder`, `DeviceController`, `DeviceInterface`, `CatchController`) | |
| `DeviceFinder` | searches, selection, LEFT and RIGHT | |
| `Upload` | `LogFileHandler` and `NetworkManager`: sessions, folders, jobs, replies | |
| `ChunkProofs` | the theorems about `ChunkStream` and `Download` | both, `TLAPS` |
| other `...Proofs` | the theorems about the module of that name | that module, `TLAPS` |
| `MC...` | instances for TLC | |

`CatchSession` stands one level above `Download`: what `Download` shows of one
device (its chunks are written in order, then success is told, or it stays silent)
is what a device that is asked does in `CatchSession`.

### How state and actions correspond to the code

`CmdOps`: the record `ch` holds `cmd_resp_struct` (`last_cmd`, `retry`),
`m_cmdTimer->isActive()`, the backlog with its retries and timer, and `air`, the
writes the device has not received.  `bleUartSendCmdWithResp`,
`onCmdTimerExpired` and `onBacklogTimerExpired` are the functions of those names
(the last one is `onBleUartSendCmdWithRespTimerExpired`).  `m_cmdTimer` is not
single-shot: it goes on ticking after the last retry, which the model keeps.

`ChunkOps`: the record `rx` holds `huge_chunk_helper_t`, `m_hc_vec`,
`m_hc_missed` and the header of the chunk.  `ReceivePackage` is the branch of
`bleUartRx` for the nine TX pool characteristics; `Turns` is its do-while loop,
which adds at least one turn.  Indices are naturals: `incoming_byte_count` is a
`quint16`, so no chunk has 2^16 packages and the 16-bit indices cannot wrap.
`m_hc_missed` is ascending and read from its front, so it is a set.

`ChunkStream`: any package may be lost or overtaken, the first of a chunk too, whose
loss leaves `last_idx` as the chunk before it left it (`DC:714` resets it with the
first package only).  `Check` is what `onStartHugeChunkAckProcArrived` does with the
receiver and `Reply` what `onReplyMissingPackageArrived` does; a reply may come more
often than once, as when the request is repeated.  `beheaded`, `left` and `repeated`
are ghosts that record which of these happened to a chunk.

`Download`: one action per handler; the signals between the handlers of a
`DeviceController` are direct calls, so `onStartHugeChunkAckProcArrived` includes
the acknowledgement, the hand-over of the payload and the start of the timer.
`mainq` is the queue of the main thread.  An event `WRITE` holds the payload and
whether it has been destroyed meanwhile (`Destroyed`, `DC:461`).  `Init` is the
state right after `startDownloadAllDataProcedure`.  `dev` and `Answers` are the
device, external: it offers one chunk at a time, goes on to the next when
`CMD_HC_ACK_OK` follows the stream, and answers each command as the code expects
(the order of `CMD_OK` and a missed package is left open).  `timely` is chosen
once: behaviours with prompt round trips and losses, or with timers that expire at
any moment and no losses.  A timely link has timers that were started in one handler
expire one right after the other (`Restarted`).  `MaxGap` bounds how many packages in a row are lost, `dev.gap`
counts them.  `SentinelAssumption` says that the values that stand for an empty slot
and an unwritten file are no payload and no content of a chunk.

`TimeSync`: one action per state of `slot_time_sync_msg_arrived`; the signal
`time_sync_finished` is a call, so `Judged` and `AckOfStop` include the start of
the next device.  Travelling times are chosen from a small set when a reply is
handled, and `calculate_compensation` computes with them as the code does; since
only the smallest, the biggest and the sum of them matter they are kept in ascending
order (`Added`), which also saves TLC the permutations.
`alive` starts with any values (`Garbage`): `DeviceInfo` never sets
`m_connectionAlive`.  A message to a device that is not connected reaches nobody;
in the program that write goes through a service pointer that has not been set,
whose effect is not modelled.  The Linux build is modelled: on Android
`startTimeSyncOfDevX` changes the connection mode first, which is module `ConnMode`.

`CatchSession`: `cc` holds the fields of `CatchController`, `index` and `files` those
of `LogFileHandler`; a recording is named by the start that began it, and the file
of an index and device holds the recording written last.  `ev[d]` is the queue from
one `DeviceController` to the main thread.  The commands under way to a device form
a set: the backlog of the channel may reorder them.  `ticking` are the devices whose
`m_cmdTimer` goes on without a retry left (`DC:566`), which report a failure again
and again until a late answer comes.  A request may arrive more often than once: the
`CMD_OK` of the device was lost or late and `DC:556` sends it again, so the device
answers again and the end of the download is told twice, without any error; the
chain of requests then runs twice, asks several devices at once and increments the
index twice.  `mishaps` counts the requests that were repeated or went unanswered.
`confirmed`, a ghost, is what the devices held
when the user answered the prompt for an index.

`ConnMode`: `state` holds `time_sync_state`, `download_state` and
`sending_start_state`; `remaining` is the one `remaining_c` they share.  `calls` are
queued calls of `startConnModeChangeProcedure`, `answers` queued
`requestedConnModeReached`.  FAST is the only mode asked for, because
`CHANGE_CONN_PARAM_OF_OTHER_DEVICES` is 0 (`global.h:16`).  Only the
end of a sync or a download is modelled, at any moment.

`Connection`: one index of `list`, `link` and `ev` is one interface with its
controller.  `searchCharacteristic` finds both characteristics or the link is stuck
for good; `Goes` names the stages.  `onConnAliveOfDevXChanged` includes what
`DeviceInterface` does with the same signal.  `getLastMainState` returns a `quint8` of
a `quint16`.  A second CONNECT appends interfaces of the same devices again.
`m_connectionAlive` and the last alive message of an interface begin with any value;
`atFirst`, a ghost, is what the former held.

`DeviceFinder`: `found` is `m_foundDevices` as a function; the order of the list
matters to nothing but the view.  `wearables` and `count` are the counters, which
`startSearch` does not reset.  A device whose name is that of a wearable has that
type; that of any other is never set (`devicefinder.cpp:126-134`, `deviceinfo.h:130`)
and may be the same.

`Upload`: `processAllJobs` runs to the end of the queue without returning to the
event loop, so it is one function on the record `nm`.  `m_googleEnabled` begins with
either value.  `Fails` leaves open whether the program survives an empty reply, whose
sixteenth piece `replyFinished` reads all the same.

## 3. Runs

| Run | Question | Bounds | Result |
|---|---|---|---|
| `MCCmdChannel` | on a link whose round trip is below the timeout, is the channel stop-and-wait delivery? | 3 commands, 2 retries, 3 losses per command (more than the retries), backlog of 3 | holds: `AckMeansHeard`, `TimeoutMeansLoss`, refinement of `CmdDelivery` |
| `MCCmdChannelSlow` | what is left without that assumption? | as above, 2 losses (as many as retries) | holds: `NoRequestLost`, `RetryBudget`; the channel always becomes free (`AlwaysFree`) |
| `MCChunkStream` | are packages stored in their slots, holes found and filled with what belongs there? | index byte of 5 values and window of 1 for 256 and 100; chunks of 1, 3 and 7 packages (7 wraps once), two in a row; gaps up to 2, at the head of a chunk too; links that keep order and links that let a package be overtaken by two others; repeated replies; `last_idx` 0, 1 or 3 and any `skipped` before the first chunk | holds: `StreamSlotsAreOwn`, `HolesAreFound`, `RepairIsOwn`, each with the exceptions section 5 lists |
| `MCDownload` | does a download save every chunk and end? | chunks of 6, 3 and 1 packages; up to 3 packages or up to 2 other messages lost, or timers at any moment | holds: refinement of `ChunkDelivery`, `AckMeansWritten`, `DownloadEnds` |
| `MCDownloadPayload` | is a payload intact until it is written? | chunks of 3 and 2, one package lost | violated, see 5 |
| `MCTimeSync` | is every device synchronised by its own messages, and is the user told? | 2 devices, 4 measured times of which 2 are trimmed, 2 compensated messages, travelling times 1 and 3 (both a successful and a failed sync occur), one loss or disconnection, two starts | holds |
| `MCCatchSession` | do the files of an index belong to one catch, and does each download end? | 2 wearables, 2 recordings, 2 finished indices, one request unanswered or repeated, one event of a device under way before the next is added | holds |
| `MCCatchSessionPrompt` | is the user prompted when all wearables have data? | as above | violated, see 5 |
| `MCDeviceFinder` | do two wearables get two sides, and are no more than two devices selected? | 2 wearables and another device whose type may be anything, 2 searches, 2 presses of CONNECT | holds |
| `MCConnection` | does "connected" mean all, and is the state shown the one they agree on? | 2 interfaces of one or two presses, states 0 (FRESH_BOOT), 4 and 2048 (ERROR, of which 8 bits leave 0), any value in the fields nothing sets | holds |
| `MCConnMode` | does what waits for a mode go on at the right moment, and a start end? | 2 devices, one retry, 3 procedures of any kind | holds |
| `MCUpload` | do files reach their folder, and is no job left waiting? | 3 sessions, 2 indices, 4 posts | holds |

The small numbers are chosen so that every branch is taken: retries run out,
the backlog holds more than one entry, indices wrap around, the shortcut that
skips the search for holes is taken and not taken, a repair takes several
rounds, a sync fails after its last message, a second recording meets the files of
the first, two folders are created at once, counters outlive a search.  Two devices
are what one selection can hold.  Deadlock is not checked: each system stops when
nothing is left to send or to press.

Every property of a passing run has been checked against a fault put into the
model (the definitions commented "Fault", which no specification uses): an
omitted reset, a missing wait, a swapped test.  With the fault in place the
property is violated.

### Assumptions of the environment

* `Timely` (`timely` in `Download`): a timer that waits for an answer does not
  expire while that answer is under way. Commands wait 500 ms
  (`devicecontroller.h:209`), those that come through a `DeviceInterface` 200 ms
  (`deviceinterface.h:66`), time stamps 250 ms. In FAST mode a round trip is a few
  tens of milliseconds; in SLOW mode the connection interval alone is 250 to 500 ms
  and the assumption is not justified, which is why the channel is also checked
  without it. In `Download` it includes the order of the timers that are started in
  the same handler (`Restarted`): `m_bleUartSendCmdWithRespBacklogTimer` and
  `m_nextRequestTimer` have the same 250 ms, so the former expires first and the
  latter right after it, and a channel that the one has found busy the other finds
  busy too. Left out is a `CMD_OK` that arrives between the two: the request would
  go out at once and an acknowledgement that was overtaken stay in the backlog, to
  be sent while the next chunk streams.
* `Prompt`: the main thread has written a payload before the device thread
  handles its next event.  Without it `DC:461` destroys payloads at will; in
  `MCDownloadPayload` even `Prompt` does not help, because two hand-overs happen
  in one event.
* `Losable`: of the device's messages in `Download` those that something repeats
  may be lost.  `CMD_START_HUGE_CHUNK_ACK_PROC` and a missed package are repeated
  by nothing once `CMD_OK` has stopped the timer: if one of them is lost the
  download halts until the watchdog of `CatchController` tells the user
  (`ToldAtTheEnd` of `CatchSession`, where a request may go unanswered).
* `Mixed = FALSE`: a run of `Download` loses packages of the streams or other messages,
  and with untimely timers nothing.  **The code fails on what is left out.**  One
  package lost and one `CMD_OK` lost, on a link however timely: the request for the
  missing package is repeated, the second reply lands in the slot of the next request
  (`DC:783`, `DC:802`) and the chunk is saved with a wrong package.  That case is in
  `ChunkStream`, where replies are repeated freely; `RepairIsOwn` says how much harm it
  can do.  And with an untimely link and lost packages the second acknowledgement of a
  repaired chunk goes through the backlog and, sent late, acknowledges the next chunk:
  `AckMeansWritten` does not hold.
* `Download` keeps the first package of every chunk (`dev.next > 0`), because **the code
  fails without it** as well: the index computation takes byte 0 for the head and
  the holes may not be found (section 5).  `ChunkStream` loses it.
* `LinkIsKind`: a gap of more than `Wrap - Window - 2` packages looks like a shorter one a
  turn later.
* `UserWaits` of `CatchSession`: the user answers the prompt when the devices have
  settled, begins no recording while a download runs or anything of one is under way
  (`AtRest`: of a chain that runs twice something may be left when the first has
  ended), and none after an error has been shown. Nothing enforces it: the prompt is
  modal, the progress of a download is not. `IndexIsACatch`, `OneAtATime` and
  `KeptUnlessTold` say nothing of a user who does not wait (`Undisturbed`);
  `ToldAtTheEnd` does not need it.
* `TimeSyncAssumption` asks for enough measured times: nothing resets
  `m_send_repeat_count` when a start cuts in, but `calculate_compensation` may have
  shortened the times, so each further start can find `2 * Trim - 1` fewer times than
  the count says.  With one time less than assumed TLC finds the division by zero
  of `timesynchandler.cpp:132`; the 30 messages of the code are more than the 12 that
  two devices need.
* `alone` of `ConnMode`, `clash` of `TimeSync`, `overlap` of `Upload` and `reselected`
  of `DeviceFinder` are ghosts that record that the one condition has occurred under
  which a property is known not to hold; they guard nothing.
* `Garbage = {FALSE}` in the runs of `CatchSession`, to save states: what
  `m_sensorDataWaitingForDownload` holds at first decides only when the user is prompted.
  The theorems of `CatchSessionProofs` hold for any `Garbage`, and `MCTimeSync` and
  `MCConnection` run with both values.

### Fairness

The timers and the queued events of a thread are weakly fair: each thread runs
its event loop.  A device in range answers what it receives in `CmdChannel`,
`Download` and `TimeSync`; in `CatchSession` and `ConnMode` devices owe nothing, the
watchdog and `m_connParamTimer` alone bring about the end.  Callers, losses,
connections and disconnections carry no fairness.  Lost messages are bounded
per command or per run; that is the only sense in which the link is fair.

## 4. Proofs

All theorems hold for every value of the constants that meets the assumption of
the module (`ConnModeAssumption` and the like, which TLC evaluates in the runs).

`CmdChannelProofs`, for every set of requests, every `Retry`, `BacklogRetry` and
every bound:

* `TypeCorrect`: `Spec => []TypeOK`.  The inductive invariant `TypeInv` adds that
  whatever is outstanding, in the air or in the backlog is a request that has
  been made, and that the timer of the channel runs only with a command.
* `RetryBudgetHolds`, `NoRequestLostHolds`: for any link.  The second rests on two
  lemmas about what `Append` and the removal of the newest entry do to the set
  of waiting commands.
* `AckMeansHeardHolds`, `TimeoutMeansLossHolds`: for timely links.  An answer in
  flight belongs to the outstanding command only because at most one message is
  in flight at any time; `TimelyInv` says so and relates it to the losses and
  the writes counted so far.
* `ChannelImplementsDelivery`: on a timely link every step of `CmdChannel` is a
  step of `CmdDelivery` or leaves its state unchanged.

`ChunkProofs`, first of `ChunkStream`, for every size of the index byte, every window
below it, every gap and all chunk lengths:

* `StreamTypeCorrect`: for any link.  Its core is `TurnsEnd`: the do-while loop of the
  index computation ends.
* `StreamSlotsAreOwnHolds`: if `LinkIsKind` (`LongestGap + 2 + Window <= Wrap`), for the
  chunks whose packages keep their order and whose first one arrives, as long as no
  reply is repeated.  The index is right (`IndexIsRight`) because the package sent next
  is the highest index plus one plus the gap, which is what the invariant `InOrder`
  says.  With the values of the code, 256 and 100, up to 154 packages in a row may be
  lost.
* `HolesAreFoundHolds`: for any link.  `NothingHidden` says that while nothing seems to
  have been skipped the slots that `last_idx` has counted are filled: from 0 if the
  first package has come, which resets it, and from what the chunk before has left
  there if it has not.  So the shortcut of `onStartHugeChunkAckProcArrived` is taken
  with no hole, or with holes below that value in a chunk without a head.
* `RepairIsOwnHolds`: for any link and any repetition of replies.  Requests go up
  (`Requests`): those made end with the one whose slot is awaited, so a reply is to that
  one or to one before it.

Then of `Download`, for all chunks, retries and bounds, on links that are timely and
lose packages of the streams or other messages but not both, or that have timers
expire at any moment and lose nothing (`LinkIsFair`, which is how `MCDownload` is
set up: section 3 says what happens otherwise):

* `TypeCorrect`: not inductive, since what a message means depends on what it
  answers. `Core` adds that slots hold their own packages (`SlotsAreOwn`) and four
  parts more. `Losses` relates what was lost to what can have happened. `Messages`
  says that an offer on its way is about the chunk the device is at. `Flight`: on a
  timely link at most one command or its answer is under way, and while `m_cmdTimer`
  runs there is one, or something was lost. `Stage` names the four stages of a chunk
  and what may be under way in each: the controller asks for it (`Asking`), takes
  its packages (`Taking`: those under way follow the highest index without an
  unrecorded gap, `Run`, and each carries its own payload, `Own`), requests what is
  missing (`Repairing`: the reply or the request under way belongs to
  `missed_in_request`, `Supplies`), acknowledges it (`Acking`). `CoreNext` has one
  lemma per action. Type correctness needs all of it: `DC:783` takes the first of
  the missing packages, which is one only if `missed_cnt`, which is added to and
  never set, was 0.
* `AckMeansWrittenHolds`: with `Prompt`, as in the run.  `Filing` says what the queue of
  the main thread can hold (`Queue`), that the chunks behind the device are stored
  and so is the one the controller is done with (`Behind`), that on a link that loses
  packages only the acknowledgement is heard before the next request (`AckFirst`),
  and that no chunk ahead has been handed over (`Ahead`).  The second acknowledgement
  of a repaired chunk is harmless because the channel sends the two back to back,
  before the request for the next chunk.  A lost `CMD_OK` lets that request overtake
  an acknowledgement in the backlog (`Acking`), which is why `AckFirst` needs to know
  that a backlog found busy for the first time means a loss: `Tries` charges the
  retries of `m_cmdTimer` to losses and `Fresh` says what the backlog holds before any.
* `SavesInOrderHolds`: the refinement of `ChunkDelivery` with the same invariant.  Only
  the main thread writes; `Handled` says what one event does, including the first of
  two hand-overs of a chunk, whose payload is destroyed: its file was not whole
  before, so nothing that was saved is spoilt.
* `FailureMeansLossHolds`, `NeverSilentHolds`: what of `DownloadEnds` is safety. By
  `Tries` a failure that is reported is the link's. `Due` names, stage by stage,
  what moves the download on and says that it is under way, or that a timer which
  asks for it again is running; so nothing is silent before success is told. The
  link may not lose the two messages that no timer asks for again (`AsksAgain`): the
  end of a stream (`DC:666`) and a missed package. That a running timer is enough to
  come to the end is liveness and stays with `DownloadEnds`.

`TimeSyncProofs`, for any number of devices, messages and losses:

* `NoDeviceIsPassedOverHolds`: devices are taken in the order of their indices, and
  those before the one in sync have a result (`Passed`).
* `SyncedMeansGoodHolds`, `GoodOneWasTheLastHolds`: as long as no second start cuts in,
  one message is under way between the handler and the device in sync (`Exchange`),
  so the answer it judges is the answer to its last stamp.
* `TypeCorrect`, `AverageIsOfSomeHolds`, `TimesAscend`: the type of the threshold is what
  is hard.  `Enough` relates, state by state, the count of stamps to the number of times
  gathered and the number of starts (`Lag`), and `Begun` bounds the starts by the devices
  that have come up; so more times are there than are trimmed.  That the average is
  not above the longest time needs the sum over a sequence, a fold whose value no
  induction can be made about here: `SumsExist` and `SumBounded` take the smallest set
  of indices that is an exception, which exists because `<` on the naturals is
  well-founded, and find a smaller one.

`CatchSessionProofs`, for any number of devices, recordings, indices and requests that
are repeated or go unanswered:

* `TypeCorrect`: what is handed over is a recording (`HasRecording`).
* `OneAtATimeHolds`, `IndexIsACatchHolds`, `KeptUnlessToldHolds`: the end of a download
  does not say which request it belongs to, it may be told again, and a file is named
  by the index of the moment.  What holds it together is that a recording is handed
  over once and comes before every end in the queue of its device (`Ordered`).  While a
  download goes on it has come to some device (`Pass`): those before it have their file
  and nothing left, however often they are asked again; those behind it still have
  what was confirmed and have not been asked.  Once the last one has handed over,
  what is left of the chains finds devices without a recording (`Idle`).  The indices
  to come are empty (`Fresh`).  All of it holds until the first error, after which
  nothing is claimed.

`ConnModeProofs`, for any number of devices, retries and procedures:

* `TypeCorrect`, and `WaitingMeansNotThereHolds`, which is inductive with it.
* `CounterIsRightHolds`, `NothingTooEarlyHolds`: of the procedure that began alone -
  the only one that waits - each device has at most one thing under way, and
  `remaining_c` is the number of devices that owe theirs.  The answer that brings it
  to zero is therefore the last.

`ConnectionProofs`, for any number of devices, presses and states:

* `TypeCorrect`.
* `DownStaysDownHolds`: a controller reports itself once and its loss last; a device
  whose loss has been handled has no event left and never will (`LossIsLast`).
* `ConnectedMeansAllHolds`: for any values in `m_connectionAlive`.  A flag is TRUE only
  if its device has come up or the flag began so (`AliveCameUp`).
* `AgreedIsShownHolds`: for states that fit into eight bits, or one device.

`DeviceFinderProofs`, for any devices, searches and presses:

* `TypeCorrect`, `AtMostTwoSelectedHolds`, `SidesDifferHolds`: the counters are only
  bounds, since a search forgets the devices and leaves them behind.  `Counted`
  bounds the selected wearables by the one counter and the others by the rest;
  `Sided` says that if the counter is one, the wearable that may be there is LEFT.

`UploadProofs`, for any names, sessions and bounds:

* `TypeCorrect`: including that the queue is empty between two events.
* `NothingWaitsHolds`, `NoFileAtTheRootHolds`, `InItsFolderHolds`: a job is posted by the
  call that hands it over, with the folder known at that moment; that is the folder
  of the session unless two are being created at once.

Checked by TLC and not proved: all liveness (`AlwaysFree`, `DownloadEnds`,
`UserIsTold`, `ToldAtTheEnd`, `UpIsNoticed`, `StartEnds`), which needs ENABLED.  Every
invariant and every action property of a passing run is a theorem.

## 5. Where code and comments differ

* `MCDownloadPayload`: a repaired chunk is handed over twice in one handler and the
  second call destroys the first payload before the main thread has seen it;
  `devicecontroller.h:96` says it is destroyed there.
* `MCCatchSessionPrompt`: `m_sensorDataWaitingForDownload` is set at
  `catchcontroller.cpp:302` and reset nowhere, so from the second recording on the
  user is prompted when the first wearable announces data; `catchcontroller.h:95`
  has the prompt on "all wearables are waiting".

Seen while modelling, and left out of what the properties claim:

* The backlog grows by one copy per failed attempt and the branch that gives up
  (`DC:988`) is never reached.  Its timer is single-shot and started per append:
  once the newest entry has been sent nothing starts it for the ones below
  (`DC:994`), so an overtaken command may stay for good.
* **Holes that are not found.**  `last_idx` is reset by the first package of a chunk only
  (`DC:714`).  If a chunk loses exactly its first `k` packages and the one before it has
  left `last_idx` at `k`, every package that comes is the successor of `last_idx`, nothing
  counts as skipped (`DC:753`) and the shortcut of `DC:860` acknowledges the chunk with
  `k` holes.  With `k = 1`: a chunk of one package, then one that loses its head.
  `HolesAreFound` names the exception (`beheaded`), and says that there is no other.
* **Packages in the wrong slot.**  A chunk of more than 256 packages that loses its first
  one misplaces what follows; a reply that is repeated is stored where the latest
  request pointed (`DC:783`), whether the link was late or a `CMD_OK` was lost.
  `StreamSlotsAreOwn` and `RepairIsOwn` are stated around these.
* The do-while of `DC:725` adds 0x100 before it compares, so a package that comes
  after its successor is stored 256 slots too far, although `DC:729` allows for
  disorder within 100; `StreamSlotsAreOwn` is claimed for links that keep order.
* `start_time_sync` keeps `m_send_repeat_count`: after a sync that was broken off late
  the test for the last message is met only when the counter has wrapped around.
  `travelling_times` are cleared by a success only, so after a sync that failed or was
  broken off the threshold of the next device is computed from both devices' times.
  While two starts of a sync overlap, an ACK of one device can stand for that of
  another (`clash`).
* The end of a download may be told again: by a device whose request was repeated
  (`DC:556`, `DC:897`), without any error, and by one whose timer goes on ticking.  Each
  report asks the next device again, or finishes the log and increments the index
  once more, and starts the watchdog anew (`catchcontroller.cpp:232-250`).  The user is
  told of the end while the second chain is still under way; an index may stay
  without files.  After an error nothing is claimed.
* `m_triggerTimestamp` is only ever set to 0, so a younger trigger is passed on as
  well, although the comment at `catchcontroller.cpp:386` means to drop it.
* With the card as the only medium a CATCH or DROP neither finishes the log nor
  increments the index.
* On Android, a failed mode change leaves the state of the procedure
  SETTING_CONN_MODE: a later sync or download that succeeds also sends the stale
  CMD_START.  Overlapping procedures may go on before all devices are FAST.  The
  states have no initial value; were one SETTING_CONN_MODE from the start, the first
  procedure would take it along (`Init` has a value no comparison meets).
* `m_timesyncTimer` (8.5 s) expires before the last retry of a mode change (10 s): the
  user is told of a failure and the sync may start all the same.
* The loss of a connection is final: nothing connects again, an error of the
  connection is only logged (`DC:77`), and `disconnectService` is called nowhere.
* With two devices a main state above eight bits (RESTARTING, ERROR) is never shown
  (`deviceinterface.cpp:176`), and its low byte is 0, which is FRESH_BOOT: when one
  device reports that while the other is in ERROR, FRESH_BOOT is shown for both.  The
  main state of a device that has not reported any is what the memory held, and is
  compared like any other.
* `m_connectionAlive` is read before anything has set it: if it happens to be TRUE, a
  device that never comes up counts as connected.
* A second CONNECT appends the same devices again; TERMINATE does nothing.  After a
  new search the counters of the old selection may block any selection.
* A repaired chunk is written twice and therefore uploaded twice; an expired token
  is not renewed; with two folders being created at once the reply that comes last
  names the folder of both sessions.

## 6. Plan

Done: all modules of section 2 and their theorems.  What would come next:

1. A refinement from `Download` to what `CatchSession` assumes of a device.
2. The interplay of `ConnMode` with the time-outs of the command channel.

Not modelled, and why: the conversions of samples to text in `LogFileHandler` (they
keep no state), `GraphPainter` and `PaintData` (drawing), `ConnectionHandler`,
`QmlListAdapter`, terminals, `AdapterInfo` and `main.cpp` (view, wiring, pure input
and output), the layout of QML pages, the values of connection parameters, commands
for settings of the firmware, the bodies of network requests, and the firmware
beyond what the code expects of it.
