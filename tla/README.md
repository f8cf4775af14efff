# Verification of dialogic_sip

TLA+ models of the two call programs of this repository and of the protocol
code between them and the service control point (SCP): what TLC checks of them
on small instances, and what TLAPS proves of them for all.

- `src/callserver`: the SSP. It takes calls from Dialogic GlobalCall lines,
  reports their events to an SCP over ZMQ and carries out the SCP's commands.
- `src/callflow`: the older stand-alone program. It answers a call, plays a
  fragment and drops it, or drops a "missed call" unanswered.
- `src/services`: a Python SCP that is reached over UDP; `UDPRequest`
  (`src/callserver/udp_request.cpp`) is its counterpart in C++.

## 1. Inventory

| Component | State | Operations | Interacts with |
|---|---|---|---|
| Channel bookkeeping (both programs, copied line for line) | `T_CHAN_INFO`: `PState`, `Calls[MAX_CALLS]` (CRN and state of the last two calls), `VReady`; the counters `stUnblocked`, `stUsed`; `interrupted` | the `process_event` cases for line, call and failure events; `RegNewCall`, `GetCallNdx`; `InitDisconnect`; `Deinit` (the signal handler); the closing of lines | the Dialogic library (asynchronous calls, SRL events), signals |
| callserver | the above, `SessionList`, the transport, open fragments | `processGlobalCall`, `processNetwork`/`processPacket`, the commands ANSWER, PLAY, DROP, `checkAppExitCondition` | SCP, library |
| `SessionList` | next session number, channel-to-session and session-to-channel maps | `createSession`, two look-ups; nothing is ever deleted | callserver |
| `TransportZMQ` | a bound REQ socket (and a REP socket nobody uses) | `send`, `recv` | SCP |
| `ssp_scp_interface` | none | encoding of events, decoding of commands, the factory of commands | SCP |
| `tests/scp.py` | none | one reply for each event | callserver |
| callflow | channel bookkeeping, an `iott` with a file descriptor for each channel | `process_event` in every mode, `InitPlayFragment`, `InitDisconnect`, shutdown | library, file descriptors |
| `UDPRequest` | an array of requests (active, data, attempts, deadline), `socketProcessed`, `currentReqIndex` | `send`, `update`, `recv` | UDP SCP, time |
| Python SCP: `scp.py`, `scp_interface.py`, `udp_server.py`, plug-ins, missed-call service | sockets by channel number, the plug-ins, a database connection | `handle`, `sendResponse`, dispatch of an event to a plug-in | SSP, database |
| Missed-call service (`missed_call.py`, `sdp.py`) | the history and notices in the database | `onOffered`: reply, four database calls | Python SCP, database |
| Settings | the global variables; while loading `ParamName`, `ParamValue` | `LoadSettings`, `FindParam`, `InitDialogicLibs`, `InitChannels` | both programs |
| Diversion header | none | `GetSIPRdPN` | callserver |
| Statistics, logs | files | formatting and writing | all |

What is hard here. Each program has one thread, so nothing races inside a
handler; what races is the order of events.

- Every call function is asynchronous. Its completion arrives some events later,
  and in between the caller may hang up, an operation may fail, a playback may
  end, the next call may be offered, a signal may arrive.
- Two calls of one channel overlap (the older is still being released), while
  half of the code acts on "slot 0" and half on the CRN of the event.
- A reply of the SCP names a session and the command is applied to whatever
  call the channel then has in slot 0.
- A REQ socket insists on strict alternation, the events of several channels do
  not alternate.
- `TDX_PLAY` says neither which playback nor which call it belongs to.
- Shutdown closes channels by their `PState`, which some paths leave behind.
- UDP datagrams are lost, sent again, answered twice, answered late; the service
  behind them replies first and records afterwards, and knows no request again.
- Session numbers wrap, and one of them means "no session".
- Numbers have a fixed field in memory and one length byte on the wire.
- The parser of the settings keeps text from one line to the next.

What makes the components correct:

- bookkeeping: an event finds its call; states only move forward; a released
  call was dropped; the counters count; no call without a voice resource;
- callserver: a command reaches the call the SCP was asked about; sessions are
  found; every call ends; the process ends after a signal and not before;
- callflow: the file that will be closed is the one that was played, and it is
  still open; descriptors that run out do not keep calls alive;
- `UDPRequest`: each request is reported exactly once, as what it is, and in
  the end;
- missed-call service: what was answered is recorded, and no more often than
  the network gives reason to;
- sessions: a reply finds the channel that asked, also when numbers wrap;
- messages: what one side writes is what the other reads, whatever the length
  of the numbers in it, and a reason comes back as the status it was;
- settings: each is what its last line says, and the devices opened are
  different ones.

`PROJECT.json` lists every component, also those that are not modelled, and
under "hazards" what is hard to test, each at its line.

## 2. Modules

| Module | Role |
|---|---|
| `LineDevice` | external: the GlobalCall and voice library as the programs use it, and the SRL queue of every channel |
| `CallChannel` | extends it: what the two programs share, as actions on `T_CHAN_INFO` |
| `CallServer` | extends that: the main loop of callserver, sessions, the REQ socket, the SCP |
| `ScpDialogue` | abstract: what the SSP promises the SCP |
| `PlaybackHistory` | extends `MCCallServer` by a history variable: which call a playback was for |
| `CallFlow` | extends `CallChannel`: callflow, its modes, playback and descriptors |
| `UdpRequest` | `UDPRequest`, the network and time |
| `RequestReply` | abstract: what a user of `UDPRequest` may expect |
| `MissedCallService` | extends `UdpRequest`: the Python service behind it, and the database |
| `WrapSessions` | `SessionList` with numbers of a fixed width |
| `SipDiversion` | `GetSIPRdPN`, pure |
| `ScpWire` | the bytes of events and commands, written and read on both sides, pure |
| `OfferedPath` | composes the last three: a call from the INVITE to the SCP and back |
| `Settings` | the settings file, the board and the devices, in both programs |
| `MCCallServer`, `MCCallFlow`, `MCOfferedPath`, `MCSettings` | budgets, scripts, calls and texts for TLC |
| `CallChannelProofs`, `CallServerProofs`, `CallServerSessionProofs`, `CallFlowProofs`, `UdpRequestProofs`, `MissedCallProofs`, `OfferedPathProofs`, `SettingsProofs` | theorems |

Operators whose comment begins with "(variant)" are mutations of the definition
below them; no specification uses them.

### How state and actions correspond to the code

**Library (`LineDevice`).** `call[c][n]` is the library's state of call `n` of
channel `c`, `evq[c]` the SRL events the program has not taken. A function that
is called in a wrong state fails at once: the operator returns the calls
unchanged, as the code ignores the return value after logging it. One that is
accepted leads to a pending state and later to `Complete` or `TaskFails`. A
disconnected call may be told so a second time until the program drops it: that
is the "Simultaneous disconnect" of callserver.cpp:979. What
the outside may do (hang-ups, faults, signals) is bounded by `Limit`. CRNs are
the ordinal numbers of the calls of a channel. Events of one channel arrive in
order; each `\E c` of the main loop takes the head of some channel's queue, so
events of different channels arrive in any order. `gc_Close` is assumed to
discard the events of its line, and a `gc_OpenEx` that fails at once is the same
to the programs as a line that never opens.

**Bookkeeping (`CallChannel`).** One action for each case of `process_event` that
both programs have; the lines mapped are those of `callserver.cpp`, and
`CallFlow` maps its copies. Each takes the event, updates the slot
`GetCallNdx` gives, and makes the library calls of that case in the same step.
`intr_hdlr` is the signal handler with `Deinit`; it may run between any two
steps of the main loop (a signal inside a handler is not modelled). Left out:
`VState`, `blocked`, the addresses and the per-interval call count, which are
written and never read; events that are only logged and change nothing
(`PROCEEDING`, `ALERTING`, ...); and `GCEV_CONNECTED`, whose case sets `CONNECTED`
and drops the call (callserver.cpp:942-950, callflow.cpp:920-928): it is raised
for an outgoing call only, and no code makes one.

**callserver (`CallServer`).** `pc` walks through the three functions of the main
loop. `processNetwork` handles all replies there are (`Answer`, `PlayFragment`,
`PlayFragmentFails`, `DropCall`, `UnknownCommand`), then `NothingReceived`
leaves it. `exchange` is the REQ socket together with the message on its way:
"idle", "asked", "told", or "lost" when the SCP returned or died without a
reply. `proc` says how the process ended: through the exit condition, by an
assertion, by `zmq::error_t` (a second send before a reply, which nobody
catches), by `std::out_of_range` (an unknown command), or by the null
transport of mode 0. In that mode `processNetwork` fails in the first turn, so
the autoresponder branches of `process_event` cannot be reached and are not
modelled. The SCP is assumed to be connected: without a peer, `send` would block.

**Whose playback (`PlaybackHistory`).** `plays[c]` is the queue of the sessions
whose playback was started on `c` and whose `TDX_PLAY` has not been handled. It
is a history variable: it reads `CallServer` and no action of that looks at it.

**callflow (`CallFlow`).** As callserver, and `InitPlayFragment` in its three
outcomes. `open()` gives the lowest free descriptor of `1..MaxFiles`;
`files[c]` are those open for channel `c`, `io_fhandle[c]` what the `iott` says,
`reads[c]` what the voice resource was last given. The three differ after a
refused playback and after a late `TDX_PLAY`, which is the point of having them.

**UDPRequest (`UdpRequest`).** `recv` is split where it looks at the outside: the
socket, the clock (once for each request of the array), and its returns. `at`
tells whether the owner is outside a poll, between two `recv` calls of it, or
`recv` is looping. Instead of a deadline the model keeps the whole seconds since
the last attempt. A socket error other than "empty" ends the reading of the
socket for this poll, as an empty socket does, so it is the same as a reply that
can be read later; a datagram too short or with a number out of range is
ignored in the same way, and the service sends none.

**Missed-call service (`MissedCallService`).** `Take` is `handle` up to its reply;
`addToHistory` and `saveSMSHistory` are the two writes of `onOffered`, each with
the query before it, and `DatabaseFails` is its early returns and what
`socketserver` catches. Only one datagram is in hand, for `handle_request` runs
in the thread that calls `update`. The procedures behind `sdp.py` are not in the
repository; of each the model keeps that it writes, or fails and writes
nothing. The service's memory is the database alone, so a request that is sent
again is a new missed call. `RoundTrip` bounds the whole time a request needs,
the wait behind another call's recording included: that this is short against
the timeout is an assumption (`Prompt`). `sdp_test.py`, which missed_call.py:6
imports in place of `sdp.py`, sleeps for a second per call, so that with a
timeout of 2 s the assumption fails already for three calls at once.

**Sessions (`WrapSessions`).** `M` is 2^32; `created` records who was given what.
`deleteSession` has no body in the repository, and nothing is ever removed.
`CallServer` keeps below the wrap; this module has only the sessions.

**A call's data (`OfferedPath`).** `SipDiversion` reads headers as sequences of
symbols, the pieces of text the code looks for being one symbol each.
`ScpWire` has the bytes: `strncpy` into a field, the C string that ends at the
first zero wherever that is, the length byte, the two readers of the SCP (with
and without length tests) and the commands. A byte is `0..B-1`, and the sizes
keep their proportion (`B = 2 * MAX_NUMSIZE`, as 256 and 128). Caller and called
number fit their fields (`GCEV_OFFERED` gives no longer ones); the diverting
number may have any length. `CallsAssumption` says what is offered: texts are ASCII,
a call has any number of Diversion headers, of any of the forms of RFC 5806, with
any parameters. TLC evaluates it on the calls of the run. Half of
`B` is the field's size, and a field has more than two characters, so that one
length byte tells every length a message can hold. `SipStatus` is external: the
SIP status a caller sees when a call is dropped with a cause, by which
`ReasonReturns` tells the entries of `reasonCodeIP2reasonCodeDialogic` apart. The
calls' states are `CallServer`'s; here a channel may send any later event at any
time.

**Settings (`Settings`).** `ReadLine` is a turn of the loop of `LoadSettings`, on a
chunk as `fgets` returns it: a line, or a piece of one that was too long.
`ParamName` and `ParamValue` keep their text as the code's buffers do. A text is
a value with what `sscanf` and `inet_addr` make of it; a number may be negative,
which neither program refuses, and the device numbers are computed with C's `/`
and `%` (`Quot`, `Rem`). Then the IPT board is sized and each channel's device
name made. `program` says which of the two programs runs; the tables differ.
Numbers that `sscanf` cannot fit into an `int`, and a `FirstChannel` so large that
`FirstChannel + i` overflows, are left out.

## 3. Runs

| Run | Instance | Shows |
|---|---|---|
| `CSOverlap` | 1 channel, 3 overlapping calls, 1 hang-up, 1 fault, 1 signal, `SendACM`, tests/scp.py | `TypeOK`, `CallIsFound`, `ReleaseFollowsDrop`, `NoCallWithoutVoice`, `StUsedCounts`, `LeakIsOnePerCall`, `SessionInv` (with `AssertionsHold` and `RepliesAreCurrent`), `NewestCallIsFirst`, `CallsNeverRegress`; live: `EveryCallEnds`, `OnlyStuckChannelsDelayExit` |
| `CSTwoChannels` | 2 channels, 1 call each, 1 fault, 1 signal, an SCP that replies anything | `SessionInv`, `ImplementsDialogue`; live: `OnlyStuckChannelsDelayExit` |
| `CSSignal` | as found | violates `SignalClosesAll` |
| `CSLatePlay` | 1 channel, 2 calls, 1 hang-up, tests/scp.py | violates `FinishedIsOfItsCall` |
| `CFPlay` | mode 0, 1 channel, 3 overlapping calls, 2 descriptors, all budgets, `SendCallAck`, `SendACM` | `TypeOK`, `PlayedFileIsKnown`; live: `EveryCallEnds`, `SignalEnds` |
| `CFMissed` | mode 1, 2 channels, 2 overlapping calls each, 2 hang-ups | `ReleaseFollowsDrop`; live: `EveryCallEnds` |
| `CFDescriptor` | 2 channels, 2 calls each, 1 hang-up, 3 descriptors | violates `PlayingFileIsOpen` |
| `UDService` | 2 numbers, 2 missed calls, 2 attempts, timeout 2, round trip 1, poll 1, 2 losses, 1 database error | `ServiceTypeOK`, `PromptInv`, `NoNeedlessTimeout`, `EntriesWithinLosses`, `ImplementsRequestReply`; live: `EveryRequestEnds`, `AnsweredIsRecorded` |
| `UDLate` | round trip 3, timeout 1 | violates `ReportsAreChanges` |
| `STLoad` | files of 3 chunks, 7 names, 4 texts, one a negative number, both programs | `TypeOK`, `LastLineWins`, `RangesShareNoDevice`, `IptWithinBoard` |
| `STSkip` | files of 2 chunks, empty buffers before the first | violates `IncompleteLinesAreSkipped` |
| `SWOffered` | 2 channels, 4 sessions, `M = 3`, fields of 4 bytes of 8, 70 calls | `FramingHolds`, `OnlyOverlongFails`, `UnpackersAgree`, `DiversionAsMeant`, `RecentIsRouted`, `AssertionOnlyAtWrap`, `ReasonReturns`, `ReplyReachesAsker` |

**Why the bounds are enough.** A channel has two slots: three overlapping calls
are the fewest that push one out while its events are still to come. Descriptors,
the REQ socket and the exit condition are what channels share: two channels are
the fewest that can take them from each other. One hang-up meets every state of
a call, one fault every function, one signal every step; the budgets are not
spent in any fixed order, so every pair of them occurs. `CFMissed` has
two hang-ups, of two calls or twice of one (the simultaneous disconnect). In
`CSTwoChannels` there is none, for the faults of one channel, a lost reply among
them, are to meet the other channel and the signal; hang-ups meet all of this on
the one channel of `CSOverlap`. Its SCP may reply any command to any event, but
drops the call when a playback is finished: one that plays again for ever would
keep a call, and so the process, for ever. Two descriptors and
three playbacks exhaust them. `CFPlay` passes with two hang-ups as well (555
thousand states), which matter for `PlayedFileIsKnown`: only then a playback
begins while the `TDX_PLAY` of the one before is still to come and its own call
is hung up before that is handled. In `UDService` two numbers let one request be
added behind the index while the other is looked at, and let one call wait
behind the recording of the other; a request that ends in time lets its number
be used again by the second; two attempts have one resend, two losses take both
datagrams of a request, and one second over a poll moves the clock between any
two looks at it. Three chunks are a line, one that disturbs it and one between
or after them; the names have a parameter of every kind and one that is none, the
texts a number either side of 0, and `MaxOther` looks at the instances on both
sides of 0. Two lines are enough to leave a text behind.
Four sessions of three numbers pass the largest number and use one again.
Diverting numbers have 1 character, as many as their field but one, as many as
their field, and as many as a length byte counts: with one of the last kind and
a reason behind it, the length byte wraps. `CHECK_DEADLOCK` is off: the
programs end, after its last call a channel is quiet, and a file has an end.

**Fairness (`FairSpec`).** `WF(MainLoop)`: `sr_waitevt` and `zmq::poll` return after
a bounded time, and no handler waits. `WF` of `Complete`, `PlayDone`, `ResetDone`,
`OpenDone`, `Unblock`: the library ends what it accepted, which both programs
rely on, for neither has a timer; a fault may take the place of an open or of
the completion of a call function. `WF(ScpProcess)`: the SCP serves the request it
holds; that it does not is a fault. No fairness is assumed of callers, hang-ups, faults or signals. For
`UdpRequest`: the owner keeps polling, `recv` returns, a datagram arrives or is
lost, time passes. `ServiceFairSpec` has for the service `WF(Serve)`: it goes on
recording, which may end in a database error, and takes the next datagram when
it is done. That is its own `while` loop, given database calls that return.

**Exceptions of the live properties.** Each names what it excuses, most of it a
fault's doing. `EveryCallEnds` of callserver: a call that nobody has
hung up and for which nothing more is on its way, because its reply was lost or its
playback did not start.
`OnlyStuckChannelsDelayExit`: a lost reply, and a channel left in `PST_RELEASING` or
`PST_PLAY` with nothing going on (without a fault the way `CSSignal` finds);
`SignalEnds` of callflow: such a channel, and only after a fault. `AnsweredIsRecorded`:
the very call whose database access failed (`failed`, a history variable).

**Found.** Each violated property quotes the repository (see "findings").

1. `CSSignal`: when the caller hangs up, the call is released, and the `DROP` of
   the SCP arrives afterwards, `InitDisconnect` sets `PST_RELEASING` for an empty
   slot. No `RELEASECALL` follows, and after a signal the channel is never
   closed. (The same state also contradicts callserver.hpp:26, "DropCall is in
   progress".) `OnlyStuckChannelsDelayExit` says that nothing else delays the exit.
2. `CSLatePlay`: a hang-up stops the playback, and its `TDX_PLAY` is handled
   after the next call was offered. It is reported under that call's session,
   and tests/scp.py drops the new call for it. One channel and two calls that do
   not overlap suffice.
3. `CFDescriptor`: a refused playback closes its file and leaves the number in
   the `iott`; the next `TDX_PLAY` closes that number again, which may be
   another channel's file by then.
4. `UDLate`: `recv` believes every datagram with a number in range, so a request
   that was sent again is reported twice.
5. `STSkip`: `ParamName` and `ParamValue` keep their text from line to line, so the
   test that is to skip a line without a name or a text never sees one once a line
   was read: a `name=` line takes the text of an earlier line, a `=text` line sets
   the parameter of one. `LastLineWins` says what remains true: only a line that is
   taken for the same parameter disturbs a setting.

The models have also shown what contradicts nothing that a run could refute, or
is plain from the code once it is seen:

- mode 0 of callserver, the default and documented in callserver.cfg.dist:24, has
  no transport and ends in the first turn of the loop (callserver.cpp:625);
- in callflow too a late `TDX_PLAY` is taken for the end of the next playback
  (callflow.cpp:1066), so that a call is dropped before its fragment was played;
- if that next call is hung up before the late `TDX_PLAY` is handled, the channel
  is in `PST_RELEASING` and closes the file it is playing (callflow.cpp:1080): one
  channel and two hang-ups suffice for what `CFDescriptor` shows with two channels
  and one. `PlayedFileIsKnown` is what remains true, and says it of `PST_PLAY`;
- callserver's `IPTDevicesCount` is 0 when the file does not give it; its default
  of 120 is used for unreadable texts only (callserver.cpp:158);
- when a playback does not start in callserver, nobody drops the call, for the
  result of `InitPlayFragment` is ignored (callserver.cpp:1331): it stays until the
  caller hangs up. `EveryCallEnds` has it as an exception (`Unattended`);
- a negative `FirstChannel` is taken as it is: callflow then opens IPT devices with
  numbers below 1, and callserver media devices (`IptWithinBoard` says from where
  on callflow's exist);
- a diverting number of `MAX_NUMSIZE` or more characters with a reason ends
  tests/scp.py by an exception (`OnlyOverlongFails` says: nothing else does);
- a URI without a parameter of its own keeps its `>`, and a reason that is the
  last parameter is not found, for nothing ends it; number and reason may come
  from two headers (`Legible` is the part that is read as meant);
- a request that is sent again is entered in the history once more;
- that two channels, or a hang-up around a reply, end callserver with a
  `zmq::error_t` is not a disagreement with anything the repository says;
  `ImplementsDialogue` states what remains true: instead of breaking the
  dialogue, the process stops.

## 4. Proofs

All proved by TLAPS, for every number of channels, calls, sessions, descriptors,
requests and attempts, every width of the session counter, every script of the
SCP, every settings file and every budget, from the ASSUMEs of the modules alone.

| Theorem | States |
|---|---|
| `CallServerProofs!TypeCorrect` | `Spec => []TypeOK` |
| `CallServerProofs!VoiceBeforeCalls`, `CallFlowProofs!VoiceBeforeCalls` | `Spec => []NoCallWithoutVoice`, in each program |
| `CallServerProofs!ReleaseFollows`, `CallFlowProofs!ReleaseFollows` | `Spec => []ReleaseFollowsDrop`, in each program |
| `CallServerProofs!NeverRegress`, `CallFlowProofs!NeverRegress` | `Spec => CallsNeverRegress`, in each program |
| `CallServerProofs!UsedCountsCalls`, `CallFlowProofs!UsedCountsCalls` | `Spec => []StUsedCounts`, in each program |
| `CallServerProofs!CallsAreFound`, `CallFlowProofs!CallsAreFound` | `Spec => []CallIsFound`, in each program |
| `CallServerSessionProofs!SessionsAgree` | `Spec => []SessionInv` |
| `CallServerSessionProofs!AssertionsNeverFail`, `RepliesStayCurrent` | its parts `AssertionsHold`, `RepliesAreCurrent` |
| `CallServerSessionProofs!DialogueImplemented` | `Spec => ImplementsDialogue` |
| `CallServerSessionProofs!NewestFirst` | `Spec => []NewestCallIsFirst` |
| `CallServerSessionProofs!LeakBounded` | `PlaysWhenAnswered` gives `Spec => []LeakIsOnePerCall` |
| `CallFlowProofs!TypeCorrect` | `Spec => []TypeOK`, no descriptor open for two channels |
| `CallFlowProofs!PlayedFileKnown` | `Spec => []PlayedFileIsKnown` |
| `UdpRequestProofs!TypeCorrect` | `Spec => []TypeOK` |
| `UdpRequestProofs!PromptCorrect` | `Prompt` gives `Spec => []PromptInv` |
| `UdpRequestProofs!NoTimeoutWithoutLoss`, `RequestReplyImplemented` | `Prompt` gives `NoNeedlessTimeout` and `ImplementsRequestReply` |
| `MissedCallProofs!ServiceIsAllowed` | `ServiceSpec => Spec` of `UdpRequest` |
| `MissedCallProofs!ServiceTypeCorrect` | `ServiceSpec => []ServiceTypeOK` |
| `MissedCallProofs!FewEntries`, `ServiceRequestReply` | `Prompt` gives `EntriesWithinLosses` and `ImplementsRequestReply` |
| `OfferedPathProofs!RecentRouted`, `NewestUsed`, `UnknownAfterWrap` | `SessionSpec` gives `RecentIsRouted`, `NewestIsUsed`, `UnknownOnlyAtWrap` |
| `OfferedPathProofs!PathRouted`, `PathAssertions`, `ReplyReaches` | `Spec` of the composition gives `RecentIsRouted`, `AssertionOnlyAtWrap`, `ReplyReachesAsker` |
| `OfferedPathProofs!LastHeaderCounts` | `Spec => []DiversionAsMeant` |
| `OfferedPathProofs!Framing`, `OverlongOnly`, `ReadersAgree`, `ReasonComesBack` | `Spec` gives `FramingHolds`, `OnlyOverlongFails`, `UnpackersAgree`, `ReasonReturns` |
| `SettingsProofs!TypeCorrect`, `FileIsFollowed` | `Spec` gives `TypeOK`, `LastLineWins` |
| `SettingsProofs!DevicesAreDistinct`, `BoardCoversChannels` | `Spec` gives `RangesShareNoDevice`, `IptWithinBoard` |

**Types.** `CallChannelProofs` proves the typing of the library and of each shared
handler once; the two programs use it. The types are stronger than a
declaration: sessions that are remembered or on their way have been created, so
look-ups by session are defined; descriptors are disjoint; active requests
were sent.

**Why `SessionInv`.** `AssertionsHold` is not inductive: that an event to be
reported has a session depends on the queue. `SilentUntilKnown` says that on a
channel without a session nothing is being answered or played, and no `ACCEPT`,
`ANSWERED` or `TDX_PLAY` is queued; only a command starts such a thing, and a
command is for a session. `RepliesAreCurrent` in turn needs
`ChannelKnowsNewest`: a channel remembers the newest of its sessions. A new
session arises in the same step that occupies the REQ socket, or ends the
process, so no reply under way can become outdated. The theorem also explains
why sessions that are never deleted do no harm.

**Why `VoiceInv`.** A line without its voice resource must not wait for calls, but
the handlers of `RESETLINEDEV` and of offered calls do not look at `VReady`. They
need not: `VoiceInv` says that on such a line no reset is in progress or announced,
no `TASKFAIL` is queued that would start one, and no call is alive that could
raise it. All of these need a call, calls need `gc_WaitCall`, and the first
`gc_WaitCall` needs `VReady`, which is never reset.

**Why `OrderInv`.** That a call's release finds it `IDLE`, and that no late event
sets its state back, depends on the whole queue. `OrderInv` gives every event the
rank of the state it sets and says, for each call: its events are queued in the
order of their ranks, `OFFERED` once and before all others; none is beyond what
the library has reached (`Due`); the state in its slot is not ahead of any of them;
a call whose release is under way or announced is `IDLE` in its slot; no call has two
slots. Each function of the library moves a call on or does nothing
(`OrderedRequest`), each completion raises an event of at least the rank the call
had, and `gc_ReleaseCallEx` is issued only by the handler that sets `IDLE`. The
lemmas about a channel are proved once (`CallChannelProofs`) and used by both
programs.

**Why `CountInv`.** `stUsed` is compared with a set that no step changes as a whole.
`CountInv` adds to `StUsedCounts` that the set is finite, and `QueueInv`: what is
offered is a call; a release is announced once, and only of a call that is
released; while there was no fault and no signal, no `TASKFAIL` is queued and no
call is over before its `OFFERED` was taken. Then each step is of one of three
kinds, proved channel by channel: it leaves the set (`Steady`), it takes an
`OFFERED` (`CountAdds`) or a `RELEASECALL` (`CountRemoves`). A reset or the closing of
lines takes calls out of the set and leaves the counter (`CountShrinks`), which is
why the equality ends there.

**Why `FoundInv`.** That an event finds its call depends on the calls that will be
offered before it is handled. `FoundInv` follows a call through the queue: an
event of a call that nobody has dropped finds it in slot 0 at its place in the
queue (`Newest`: it is in slot 0 now, or was offered before, and no call is offered
and no line reset in between), the completion of a drop finds it at least in slot 1
(`Found`), and the same holds of events still to be raised. It needs that
`RELEASECALL` is the last event of its call, that a reset is in progress only on a
line without live calls, and that a live call was offered last. What callserver
drops is the call in slot 0, which is why a dropped call is at most one behind.

**Why `NumberInv`.** `NewestCallIsFirst` compares a command, which is for a session,
with a call. `NumberInv` numbers both: the calls of a channel are offered in the order
of their numbers, the `OFFERED` events in its queue are the next ones, and the
channel has had as many sessions as calls registered, so that slot 0 is empty or
has the call of the newest session.

**Why `LeakInv`.** Nothing closes what a playback opened, so `LeakIsOnePerCall` needs
that no call is played to twice. `LeakInv` says that the open fragments of a channel,
with the one a reply on its way may still open (`Promised`), are at most the calls
whose `ANSWERED` was taken or will never come, of as many as the channel had
sessions. A call is answered once (`AnswersOnce`: the library answers what was not
answered before), so each `ANSWERED` pays for one playback. The hypothesis
`PlaysWhenAnswered` is about the SCP, and tests/scp.py satisfies it
(`TestScriptPlaysWhenAnswered`); an SCP that sends PLAY again does leak more.

**Why `PlayInv`.** `PlayedFileIsKnown` could fail when a playback is refused or a file
not opened, for both overwrite the `iott`; so the channel must not be in `PST_PLAY`
then. `PlayInv` says that in `PST_PLAY` every call that may still be answered, or
whose `ANSWERED` is queued, has its `OFFERED` in the queue as well, which by
`OrderInv` comes first and leaves `PST_PLAY`. When a playback starts this holds
because its call is in slot 0 and was answered once (`FoundInv`, `AnswersOnce`): any
other call that could be answered was offered later.

**Refinement.** `DialogueNext` maps `OnOffered` to `NewSession` or `Stop`, a report
to `AskAgain` or `Stop`, the receipt of a reply to `Answered`, all else to a
stutter. `AskAgain` asks for the newest session of a channel, which
`ChannelKnowsNewest` provides.

**Why `PromptInv`.** That a reply is for the open request depends on what is
on its way. `PromptInv` says that at most one datagram of a number travels, that
it belongs to the last attempt of an active request, that its age is the
request's, and, in a poll that has emptied the socket, that the request has
waited at most `RoundTrip + cycle`. From `Prompt == RoundTrip + MaxCycle <=
sendTimeout` follows that a request with a datagram on its way does not expire
(`TravellingNotExpired`), so a resend or a timeout happens only after a loss, and
never makes a second datagram. The condition is exact: with one second more
TLC finds a request reported twice.

**Why `RecordInv`.** The service adds conjuncts to `UdpRequest`'s actions and
variables to its state (`ServiceIsAllowed`), so what is proved there holds of the
two together. `EntriesWithinLosses` is not inductive: an entry is due while a call
is in hand, and one will be while its request is on its way. `RecordInv` bounds
their sum (`Load`): for an open request it is at most the attempts, and the attempts
are at most the losses plus what is on its way, for by `PromptInv` a resend finds
nothing on its way, and what was and is not any more was lost. When the request
closes, the sum can only stay.

**Sessions and settings.** `RecentIsRouted` needs that the `k`-th session has
number `k - 1` modulo `M`, which is stated by steps (`Following`), not by `%`:
of two sessions fewer than `M` apart the numbers differ. `LastLineWins` speaks
of the chunks and the program goes by `ParamName`; `NameInForce` ties the two:
once a name was read, `ParamName` is the last one read. With it a chunk that does
not touch a parameter leaves it alone (`UntouchedIsKept`), and one that gives it
sets it. `IncompleteLinesAreSkipped` is false, and `STSkip` shows it.
`IptWithinBoard` and `RangesShareNoDevice` are arithmetic of the device names.
In the composition (`OfferedPath`) the sessions move as `SessionSpec` says or
not at all, so that the theorems about them carry over; that a reply reaches the
channel that asked needs in addition that the session of a message on its way is
one of that channel's.

**Why `OfferedIsTold`.** What an SCP makes of an event is computed from its bytes, and
what comes back from what it made of them, two steps later. `OfferedIsTold` ties them
to the call: the event on its way is that of the channel and call that asked, what
the SCP has read is what it reads from that event, and the reply carries that
call's reason. The rest is about bytes. `Has` says that a text is in a message at a
place, and `Joined` where the parts of a message are. `MemoryLaid` places the
fields of the event in memory; a number that fits is read back as it is
(`FieldRead`), and one that does not runs on into the reason behind it, an integer
whose upper bytes are zero, so that what is read is the number as cut and at most
two bytes more (`DiversionRead`) and its length still fits one byte. `EventWritten` gives the message
then, `CallRead` what is read from it, `CutFails` that no shorter message passes the
length tests, and `ReadsAll` that where the checked reader succeeds the unchecked one
reads the same, on any bytes. So only a diverting number that fills its field is
told wrongly, and the reason comes back as it was given.

**Why `DiversionIs`.** `GetSIPRdPN` is a loop over the headers, each of which is written
with a loop over its parameters, so this is induction over data. The library's
induction theorems take a predicate, which the provers here cannot be given;
`Induction` says the same of a set of numbers and follows from `Least`, that a set of
numbers has a least one. By it the functions that define the two folds exist
(`FoldExists`, `JoinExists`), which gives their turns one by one (`Loop`, `JoinSteps`);
by it again each header is written as `ParametersWritten` and `RenderedIs` say, and
what is found so far is a text and a reason the program knows, whatever the headers
(`IsDiversion`). Of the last header `NumberRead` and `ReasonRead` give the places that
`find` returns. That the headers before it do not count follows from the last turn
alone: a header of a legible form has both a number and a reason.

**Not proved, only model-checked.** Everything live (`ENABLED` and fairness are out
of the prover's reach): `EveryCallEnds`,
`OnlyStuckChannelsDelayExit`, `SignalEnds`, `EveryRequestEnds`,
`AnsweredIsRecorded`. No model needs recursion of its own.

## 5. Not modelled

Logs and statistics are pure output. Outgoing calls: `InitNewCall` is never
called. `ChannelManager` is an unfinished refactoring whose source file is
empty. The second ZMQ socket is bound and not used. A signal inside a handler:
`intr_hdlr` runs between steps. Of the plug-in manager the loading of modules by
name is left out; it has one plug-in, and calls it as `MissedCallService` says.
That its `update` blocks in `handle_request` until a datagram comes
(plugin_manager.py:24), which the comments of plugin.py:6 do not expect of an
update, delays nothing while there is one plug-in. A recording slower than the
timeout is outside `Prompt`; `UDLate` has the slow replies that follow from it.

## 6. Plan

Done: the SSP, its hazards and types; `ScpDialogue` and its proof; callflow;
`UDPRequest` with the theorem for prompt replies; the missed-call service; wrapping
sessions, the bytes and the diversion of a call; the settings; whose playback
is reported; the proofs of the bookkeeping, of the numbering of sessions, of the
playbacks, of the settings, of the
diversion of a call and of the bytes of an event. Left:

1. `MissedCallService` with a recorder as slow as `sdp_test.py`, and the largest
   number of simultaneous calls for which answers stay prompt.
