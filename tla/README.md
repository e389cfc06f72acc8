# Verification of ha-codex-voice

ha-codex-voice lets Home Assistant and small speakers talk to a Codex App Server
through a local *bridge*. This directory holds TLA+ models of its concurrent core,
the TLC configurations that check them on small instances, and TLAPS proofs of what
matters most. Paths below are relative to the repository (`src/` in `PROJECT.json`).

Run a check with `tlc -workers 2 -config X.cfg MCModule`, the proofs of a module with
`tlapm XProofs.tla`; each takes some minutes from nothing. `PROJECT.json` lists every run,
property, theorem and, under `map`, the source lines of every definition.

## The system

| part | state it keeps | operations | talks to |
|---|---|---|---|
| Tool broker (`bridge/tool_broker.py`) | the authority's socket and snapshot, pending calls, retired ids, send lock | register, unregister, handle_message, call | the Home Assistant component over one WebSocket; realtime sessions call it |
| Component's tool client (`custom_components/codex_voice/realtime_tools.py`) | connection, tasks of running tools, call count | connect, serve, run a tool, answer, stop | the bridge's broker; Home Assistant's LLM API |
| App Server client (`bridge/app_server.py`) | pending calls, server requests and their timers, write lock, subscriptions | call, respond, subscribe, exit | the Codex App Server process over stdin/stdout |
| Managed realtime session (`_run_realtime_socket` in `bridge/service.py`) | generation, active executor turn, queued request, early events, tool calls, render slot | user text and turns, interruption, executor events, answers, teardown | device socket, provider events, executor thread of the App Server, broker |
| Audio gate and output epochs (same function) | authorized render, armed response, epoch, remote cancellations | provider data events, PCM frames, device acknowledgement | provider, device |
| Speech lane (`BridgeState`) | speech lock, retained session, offer, provider cleanups | lease, offer, release, watchdog, close | transcription and synthesis requests |
| Conversations (`BridgeState`, conversation socket) | cached threads with their users and expiry, turn owner, pending tool calls | acquire, retire, prune, run a turn | Home Assistant conversation agent, App Server |
| Realtime admission and startup | session count per authority, provider startup and cleanup tasks | admit, start, settle, stop | device, App Server |
| Transcription, synthesis | one request each | stream in, transcribe, stream out | speech lane, provider session |
| Provider session (`bridge/realtime.py`, `webrtc.py`) | SDP exchange, data channel, peers | start, send, receive, stop | App Server, WebRTC |
| Device client (`device/thirdreality/realtime_client`) | session state machine, queues, playback, one network thread | wake, stream, play, interrupt, stop | bridge's realtime socket |
| Component's bridge API, TTS, STT, conversation entities | one HTTP request or socket each | transcribe, synthesize, converse | bridge |
| configuration, deployment scripts, probes | files | one-shot | file system, SSH |

Everything in the bridge runs in one asyncio loop: a task is interrupted only where it
awaits. What is hard is what may happen at those awaits: a request is superseded while
its `turn/start` is out; an answer, a deadline and a disconnect meet; two tasks each wait
for what only the other delivers; a lock is held across a socket's backpressure; a
`finally` block runs after its successor started. `PROJECT.json` lists these hazards at
their lines, with the properties that catch them going wrong.

What makes each part correct:

- *broker*: a caller is told what Home Assistant answered or that the outcome is unknown,
  a tool runs at most once, one authority at a time, a deadline always ends a call;
- *App Server client*: each request of the App Server gets an answer and never a second
  one; every call ends, and so does close();
- *managed session*: an interrupted turn runs no tool, the newest request is served, an
  answer is spoken once and for the request it answers, no task waits for ever;
- *audio gate*: only the audio of the authorized render reaches the device;
- *speech lane*: one transport at a time, every thread has one owner that deletes it, a
  retained session is spoken on only if it has been quiet;
- *transcription*: a text taken as complete is complete, and the request ends;
- *conversations*: a thread in use is never deleted, a dropped one is deleted once;
- *device*: its states follow the protocol, playback and microphone exclude each other.

## Modules

| module | models | composes / used by |
|---|---|---|
| `RemoteCall` | abstract: what a caller of the broker may rely on | refined by `ToolBroker` |
| `ToolBroker` | the broker, its send lock and sockets, and the component's end | `MCToolBroker`, `ToolBrokerProofs` |
| `ExecutorTurns` | the executor side of a managed realtime session | `MCExecutorTurns`, `MCExecutorSpeaking` |
| `ExecutorTurnsSteps` | its inductive invariant and the kinds of steps its proof tells apart | extends `ExecutorTurns`; `ExecutorTurnsProofs` |
| `RenderGate` | the speaking side of the same session: gate, render slot, epochs, frames | `MCRenderGate` |
| `SpeechLane` | the speech lane: lease, offer, watchdog, cleanup tasks | `SpeechRequests` |
| `SpeechRequests` | what uses it: transcriptions, syntheses, realtime startups, the end of the bridge | extends `SpeechLane`; `MCSpeech` |
| `Transcription` | one transcription in time: capture, attempts, the wait for the text | `MCTranscription` |
| `AppServerRpc` | the App Server client | `MCAppServerRpc` |
| `Conversations` | the thread cache and the conversation sockets | `MCConversations` |
| `DeviceSession` | the realtime session of the device and the bridge as it sees it | `MCDeviceSession` |
| `Queues` | what a queue is without some of its members | `AppServerRpc`, `Conversations`, `RenderGate`, `ExecutorTurns` |
| `QueueProofs` | lemmas about queues | extends `Queues`; the proof modules but `SpeechProofs` |
| `ToolBrokerProofs`, `SpeechProofs`, `AppServerRpcProofs`, `ConversationsProofs`, `RenderGateProofs`, `DeviceSessionProofs`, `ExecutorTurnsProofs` | theorems about the module they are named for (`SpeechRequests`) | extend that module |

`Dropping` of `Queues` is `SelectSeq` written as a recursive function: TLAPS knows nothing of `SelectSeq`.

All modules but `DeviceSession` share one view of asyncio: an action is a stretch of one task from one await
to the next, so nothing interleaves inside it; an `asyncio.Lock` is a sequence, its
holder first and its waiters behind in order; cancelling a task removes it from the
queue it waits in. A step may separate "the lock is free" from "the task has it", which
adds interleavings and removes none.

### ToolBroker

- `authority`, `published` and the registered event are `_websocket` and `_snapshot`; a
  generation of the broker is identified with the socket that registered it, because a
  socket registers once. `pending`, `retired` and `evicted` are `_pending` and `_retired`
  with what fell out of it; `sendQueue` and `written` are `_send_lock` and whether its
  holder's bytes are out; `status`, `future` and `interrupt` are one `call()` each.
- `Register`, `Unregister`, `Correlate`, `HandleResult`, `HandlePing`, `BadMessage` are the
  handlers of `tool_broker.py`; `CallStep` is the body of `call`; `Ha*` is the loop of
  `realtime_tools.py` on the other end of the socket.
- Abstracted: a deadline or a cancellation may arrive at any time and is seen at the next
  await (`interrupt`); a frame is named by its sender; pongs are not put on the wire;
  a call that is refused before it is registered changes no state. `effect` is a history
  variable: what Home Assistant did for a call.
- `_pending` and `_retired` are bounded by the same kind of limits as in the code (16 in
  the source, 1 or 2 here); 1024 calls per connection become `HaMaxCalls`.

### ExecutorTurns

- `generation` is `background_generation`; `owner` the four `active_background_turn_*`
  variables; `early`, `heard`, `queued`, `starting` have the names of the code without
  their prefix; `lockQueue` is `background_turn_lock`.
- `UserText`, `UserInterrupt`, `SpeechStarted`, `UserTurnCreated/Done` begin generations;
  `StartTurn`, `TurnStarted`, `InterruptTurn`, `TerminalSeen`, ... are the stretches of
  `start_background_turn` and `interrupt_active_background_turn_locked`; `Handle*` is
  `handle_executor_event`, `Consume` and `Replay` its two callers; `Tool*` a tool task;
  `TearDown*` and `Shutdown*` the end of the socket.
- `running` keeps the other tasks out while one task goes through several events without
  an await.
- Abstracted: the limits on tool calls and their duplicates are a nondeterministic refusal;
  any bounded wait may time out (`Raises`); the voice thread's own tool calls are always
  rejected and left out, and the end of its events (`VoiceEnds`) ends the session; the render slot is freed when `data_events` is idle to see the
  provider's terminal (`RenderGate` has the details); one watchdog of the turns of a
  session at a time.

### RenderGate

- `render` is the `backend_render_*` record, `gate` is `backend_output_generation`, `armed`,
  `speaking` and `epoch` are the `output_*` variables, `timer` is `output_arm_task`, `lock`
  is `output_state_lock`. `chunk` is the frame `audio()` holds together with the
  generation under which it read it.
- `ClientBegins` and `HandleSpeech` begin a generation; `AnswerReady` ... `Submitted` is
  `append_background_speech`; `HandleAck/Created/Done` are branches of `data_events`; `Arms`,
  `Ends`, `Looks` ... `Stopped` are `arm_output` and `end_output`; `Receive` ... `Write` is
  `audio()` with `begin_output_locked` and the guard of `send_audio`.
- Provider and network are external: controls and media each keep their order and
  overtake each other; one turn speaks at a time; the turn after an acknowledgement is
  the one made for that render; frames of an ended turn arrive within the quiet tail
  (`QuietPasses`), the assumption the code states at 5433. The provider may speak turns of
  its own at any other time.
- The preroll is empty whenever the lock is free (the first frame with a signal is sent by
  the step that queues it), so it is no variable. `output_arm_generation` adds nothing to
  the cancellation of the timer in that case. The wire lock is not modelled: a send is
  a step that may be as late as it likes.

### AppServerRpc

- `pc` is what each writer awaits (a caller, the session that answers a request, the
  fallback timer, the reader that rejects), `state` the entry of a request, `writeLock` and
  `stateLock` its two kinds of lock, `stdin` and `committed` histories of the bytes written.
- `start` and `closing` say how far `start()` and `close()` are; `_stop_process` of a failed start is
  the same code as that of `close()`. `AppServerExits` is the end of stdout at any time.
- An id is not used twice; one session answers a request; a session whose queue overflowed
  never answers; the bridge starts one process. A pipe that is being closed takes no more bytes.

### SpeechLane and SpeechRequests

- `owner`, `offer`, `cleaning` are `_speech_owner`, `_speech_session_offer` and `_speech_cleanup_tasks`;
  `held`, `parting` and `waitFor` are the locals of `speech_session_lease`; `dog` is the watchdog
  of an offer. A session is named by the number of its thread; `thread` and `link` are what became of the
  two. `_speech_state_lock` is never held across an await and is no variable.
- `LaneBusy` ... `Claim`, `Recheck`, `Sanitize`, `Drained`, `HandBack`, `Release` are the lease, `DogFinds`
  ... `DogStopsLate` the watchdog, `CloseRetained` a cleanup task, `ReleaseOffer` the HTTP call.
- `Begin` ... `Publish` are an attempt and what it leaves behind, `Speak`, `Spoken`, `HeldClosed` a synthesis on
  a retained session, `StartTalk` ... `Left` `_serve_realtime_session` with its startup task
  (`startup`) and its cleanup tasks (`scrub`, by who started them), `CloseBridge` and `CloseOn` `_close`.
- Several requests are separate tasks; each step of one is a stretch between awaits. A request may be
  given up (`GiveUp`, `Interrupt`) at every await the code protects differently.
- `thread` becomes `orphan` after a `thread/start` whose answer was not awaited to the end: the bridge does
  not know its id. It becomes `stray` when the session of a synthesis cannot be made (`NoSession`): the
  bridge was told its id and has lost it. `again`, `stirred` are histories.
- Abstracted: which offer a synthesis matches (`match`); what is heard or said; the reasons of a
  failure; `_collect_speech_audio` to its outcomes.

### Transcription

- Time is counted in chunks of audio: `Tick` lets the client speak one chunk, the track play one, and the
  windows run. What the bridge can do at once it does within the tick (`Pending`), except where a stall
  of the client is meant (`MaxStall`).
- `capture`, `watch`, `phase` are the three tasks of `_transcribe_stream_admitted`; `stage`, `tries`, `outcome`
  an attempt; `taken` and `gain` the live normalizer; `tape` the paced track; `due` is
  `fragment_finalization_at`, `still` and `drained` are measured from `last_fragment_at` and `drained_at`;
  `read` is what `_wait_for_user_transcript` has assembled, from two sources of fragments.
- A POST starts in `Init` with its audio complete. A word is one chunk of speech; the provider hears what was
  played and sends it by either source, up to `MaxLag` ticks late (`lag`, `Owes`), or closes. Words are counted,
  not told apart: the two sources carry fragments of the same text. A client ends an utterance after `MinTail` chunks
  of silence (`Tailed`).
- Assumed of the levels: the calibrator, if it becomes sure, does so at the first word it is given or
  at the one chunk after it, so the chunk it has kept before is all it needs (`Calibrates`); trimming removes
  only leading silence (`Trims`).

### Conversations

- `cache` is `_conversations` in its order of use, `lock` is `_conversation_lock`; `retired`,
  `pending`, `owner` and `turnLock` are the `_ConversationTurnState` of a thread; `main`,
  `dispatch` and `run` are the handler, the event dispatcher and the `run_turn` tasks.
- `GetsCache`, `Pruned`, `Replaced`, `ThreadStarts` are `conversation_thread`; `Expired` is
  `_prune_conversations`; `Drops` is the locked part of `retire_conversation`; `Stops` ...
  `MainDisposed` is the `finally` of `_run_conversation_socket`.
- `limit` is `MAX_CONVERSATIONS`, chosen initially up to `MaxConversations`, so one run has a cache that is
  full and one that is not. The hour of `CONVERSATION_TTL` may pass whenever a socket is about to
  prune (`Ages`); `thread/delete` is counted when it is issued; the thread of a `thread/start` that
  timed out is unknown to the bridge and left out. What `close()` deletes (`service.py` 1225) it
  deletes once every socket has ended; that loop is left out.

### DeviceSession

- Here there are threads. `Submit` and `Detect` are `submit_audio` on the microphone's thread,
  `Start`, `Interrupt` and `Stop` the vendor's threads, everything from `Connect` to `Close` the
  network thread in `_run`, whose place in the loop is `net`. Only that thread owns `output`,
  `last`, `suppressed` and `player`.
- `_state_lock` is held by `submit_audio` through the detection, so `Detect` is a step of its own
  and what takes the lock waits for it (`StateLockIsFree`). `interrupt` and `stop` do all they do
  under it and are one step each. The barge-in lock covers `local`, `asked` and `count`, and each
  of its sections is within one step. A step of the network thread ends where it leaves a lock
  and another thread's change would matter: `ReadBegin` and `Begin` are the two sides of
  `player.begin`, `CleanUp` and `Close` those of the `finally`.
- `player` is the epoch of its process, the frames it still has to write, named by the epoch
  they belong to, and `finish_when_drained`. A frame of the microphone is named by the
  `era` of its admission, which counts interruptions and resumptions.
- `duplex` is chosen initially, so one run covers both modes. A frame of the microphone is quiet or
  speech, which stands for the thresholds of `_detect_local_barge_in`.
- `Unverified` is the check of the echo cancellation and `Incompatible` a start message the device cannot
  use; `Serviced` is the set of outcomes of one pass of the player.
- `Breaks` stands for every other error and deadline of the loop: hard limit, idle, pong,
  player, a malformed message. The pacer decides when a frame is due: here,
  at any time. The events `_ready` and `_terminal` are implied by `state`.
- The bridge is a native session, as in `service.py`: it opens one epoch after the other, hears the
  user, and answers an interrupt after its cancellation was confirmed, or gives up. The
  connection is reliable and ordered in both directions.

## Runs

"States" are distinct states found. Every passing run explores its instance completely.

| run | question | instance | states |
|---|---|---|---|
| `broker_safety` | registration, correlation, retired ids, refinement of `RemoteCall` | 2 sockets, 2 calls, room for 2 pending and 1 retired | 1.5 M |
| `broker_live` | does every call settle | 1 socket, 2 calls, room for 1 | 0.1 M |
| `exec_safety` | which turn runs, runs tools and is spoken | 2 turns, 1 tool request, 3 requests of the user, 1 message per turn | 2.7 M |
| `exec_live` | do all waits end, those of the teardown included | begins with an answer in the render slot; 3 turns, 1 user turn, 1 tool request, 3 requests, 1 message per turn, early buffer of 2 | 0.4 M |
| `rpc_answers` | is each request answered, and last once; do calls and `close()` end | 1 call, 2 requests, table of 1 | 0.2 M |
| `conv_shared` | deletion and marks of shared threads, and deadlock over the cache | 2 sockets, 2 ids, 2 threads, 3 turns, 2 tool sets, room for 1 or 2 | 2.2 M |
| `render_gate` | what the device hears | 2 provider turns, 2 generations, 1 frame unread | 0.9 M |
| `device` | epochs, barge-in, interruption and end of the device's session | 2 epochs, 2 interrupts, queue of 1 frame, 2 messages on the wire | 0.9 M |
| `speech_lane` | who owns the lane, the transports and the threads | 1 transcription of 2 attempts, 1 synthesis, 1 realtime session, handoff enabled | 0.9 M |
| `transcription` | is the text whole, does the request end | 5 chunks, 2 attempts, quiet windows of 2 and 1 chunks, client 1 chunk late, 2 chunks of silence at the end, provider 1 tick late | 1.0 M |
| `exec_lost`, `conv_pruned` | findings, see below | | |

Why these bounds: what goes wrong here goes wrong between a thing and its successor, so two
sockets, turns, threads or renders, with one more request or turn than can be served, reach
each such pair; limits of 1 make the tables full with the second entry, so eviction, refusal
and forgetting happen. In `speech_lane` one request of each kind suffices because the lane admits one at
a time: the interesting pairs are a request and what the one before it left behind (an offer, a cleanup, a
startup left to itself), and the three kinds come in every order. `speech_lane` runs with the handoff enabled, which
this version of the code ships disabled (service.py:125): the larger behaviour includes the smaller. `conv_shared` has a third turn, so that
one queues behind another on a shared thread, and room for two, so that a cached thread is replaced and not
only pruned. `exec_live` starts where the first answer is being spoken and the second turn runs, a state `Init` leads to
(`MCExecutorSpeaking`), so that a third turn fits: an answer then waits for the render slot (`append_background_speech`)
in `executor_events`, or in `data_events` when it has just started the turn of the user and replays its early events, while
the session may fail or stop. Without the deadline of that wait the run fails (one of its mutants). In `transcription` five chunks hold a
word, a pause as long as the short window, another word and the silence at the end; each of the two bounds that
`TextIsWhole` rests on, when it is exceeded by one, is violated with these five. In `device`, the second epoch begins while the first is still heard or cut, and the second
interrupt comes while the first is pending or was just answered. `MaxRequests`, `MaxParts`,
`MaxPings`, `MaxGeneration`, `MaxFrames`, `MaxEpochs`, `MaxInterrupts`, `MaxWire`, `MaxChunks` bound the model
only; `MaxStall`, `MinTail` and `MaxLag` are assumptions on client and provider; the others are limits of the code made small.

### Fairness

Only the bridge's own means are fair: a task that can run runs, a sleep or a timeout ends, a
send ends or fails by its timeout, a socket known to be closed is seen. Users, Home
Assistant, the provider, the device, and the executor are never obliged to do anything. In
`AppServerRpc` the specification `ReadingSpec` adds that the App Server reads its stdin;
without it neither calls nor `close()` need end (see below). `ExecutorTurns` assumes the same (`Fairness`). In `SpeechRequests` the fairness has three parts.
`Fairness` is the bridge's own: lease, attempts of a transcription, watchdogs, cleanups, startups and the end of
the bridge go on when what they wait for is over or its deadline is (the stop of a session and the disposal of a
thread are bounded with their writes, an attempt by the total deadline). `ReadingServer` assumes, as
`ReadingSpec` does, that the App Server reads its stdin, because the write of a call has no deadline. `ClientsGoOn`
assumes that clients go on or go away: nothing limits the wait for the body of a POST
(`service.py` 1911) nor the write of streamed audio (3414), and the lane is held meanwhile; a realtime client leaves
in the end. Without either assumption TLC finds `LaneComesToRest` violated. Nobody has to give up, release an
offer or close the bridge. In `Transcription` the handler and
the attempt go on and the deadlines pass; nothing is asked of the client or the provider. In `DeviceSession` the network thread, whose waits are
all bounded, keeps going, `submit_audio` returns, and time passes; the bridge owes no answer. In `RenderGate` not even the acknowledgement of
an answer is assumed, so `BargeInStops` rests on the bridge alone.

### Findings

- `exec_lost`: `start_background_turn` clears `background_turn_starting` and then awaits the
  rejection of a foreign early tool request before it replays the events it buffered for
  its own turn. Meanwhile later events of that turn are handled directly. The completed
  turn is then reported as having no final response.
- `conv_pruned`: the list of idle conversations is computed once; a thread that becomes
  busy while an earlier one is deleted is deleted under its turn.

More observations have no run of their own:

- When `data_events` itself replays an early `turn/completed` (`complete_managed_user_turn` →
  `start_background_turn` → `append_background_speech`, 5417-5430) while an earlier render holds
  the slot, it waits for a terminal only `data_events` can deliver; the wait ends by its 5 s timeout
  and the session fails. TLC finds it as a violation of `pc["data"] # "retiring"` in `ExecutorTurns`.
- A frame of a turn the provider made by itself may be played if it arrives between the end of a
  render's speech and the handling of its `turn.done`: media says nothing of its turn.
  `HeardIsCurrent` therefore speaks of renders.
- The timeout of `call()` (`app_server.py`) covers the response and not the write. With an App Server
  that does not read its stdin, the call, and the realtime teardown that awaits one, do not end. TLC
  shows it as a violation of `AllSettles` under `FairSpec` instead of `ReadingSpec`. `close()` and a failed start wait
  for stdin's buffer just so (`app_server.py` 509-512); what a writer whose lock comes after
  `stdin.close()` writes is dropped silently.
- A one-shot conversation whose client leaves before `started` was sent (`service.py` 3638) is not deleted: the
  `finally` that does it (4014) is never entered. `tests/bridge/test_service.py` 2090 says "A
  conversation without a stable ID cannot remain loaded after close."
- A cold synthesis makes its `RealtimeSession` (`service.py` 3445, where `peer_factory` may raise
  `WebRtcUnavailable`) after `start_thread` and outside the `try` that deletes the thread. The thread is live, nobody
  has its id, and it is still there when the bridge has closed, against `docs/architecture.md` 157-158 and 180 and
  `docs/security.md` 71. The transcription makes its session inside its `try`. TLC shows it as a violation of
  `bridge = "down" => \A t \in Threads : thread[t] # "stray"` in `SpeechRequests`, in 12 states. `ThreadsAreOwned` and
  `ClosedAfterCleanups` except that thread.
- A watchdog that is cancelled in the `finally` of its wait (`service.py` 1340), with activity already received,
  reports the cancellation and not the activity, so the claim goes on with a session that is not quiet.
  `tests/bridge/test_service.py` 3778 says "A claim cannot hide an unsafe result already dequeued by the
  watchdog."; the test covers a result dequeued before. The handoff is disabled, so the case is dormant;
  `QuietBoundary` excepts it (`dog = "late"`).
- The quiet window of a live clip takes the audio to be played `duration` after `feed_started` (`service.py`
  2726). If the client's audio stalls for as long as the window and the track runs dry, the wait may end
  before the last words were played. TLC shows it as a violation of `TextIsWhole` when `MaxStall` is 2
  in the instance of `transcription`.
- The quiet window does not wait for the provider. If its last fragment is behind by as much as the silence
  at the end of the utterance, or more, the text may be taken without it, with the short window and with
  the long one (`MaxLag >= MinTail`; TLC finds `TextIsWhole` violated with 1 and 1, and with 2 and 2). `bridge/README.md` 48-49 and
  `docs/performance.md` 418-419 say so of the short window: the drain of the input does not prove that recognition
  has emitted its final fragment. `TextIsWhole` therefore is claimed for a provider that is less behind.
- A terminal transcript that arrives while the capture still runs is taken as it is when the audio has
  been fed, and a total deadline that passes while the session of a finished attempt is being stopped
  loses its text.
- Without echo cancellation, between `_set_local_output_epoch(None)` and the end of the old process
  in `player.begin` (`session.py` 965-967) the microphone is admitted although the previous player may
  still be heard. `MicrophoneIsOurs` excepts that instant.
- A stopped device session with an interrupt pending becomes `READY` again when the bridge
  confirms (864-865), so `submit_audio` admits frames after `stop()`. They are dropped and never sent.
- The bridge may open an epoch between the provider's cancellation and its answer to the interrupt (a
  late transcript arms the output, `service.py` 5969). The device then forgets the epoch it suppressed
  and the next frame ends its session. `EpochsFit` excepts that case by `early`.

## Proofs

Every safety invariant and action property the runs check of the seven modules below is proved for
every value of the constants, but for `NobodyIsStuck` and what a finding refutes.
The argument is the same everywhere. No property is inductive alone, so the module defines
`IInv`, the type invariant and the parts listed below; one lemma per part says that a step of
`Next` keeps it, with one step per action, or per kind of action, and lemmas for what the helpers
of the actions do; `Invariant` is `Spec => []IInv`, and the properties follow from it. TLC checked
every part of each `IInv` as an invariant of the module's run (the same instance, all its
states) before it was proved.

### ToolBroker

`ToolBrokerProofs` proves, for any sockets, any finite set of calls and any limits:

- `TypeCorrect`: the type invariant with the bounds of both tables;
- `Invariant`: `Spec => []IInv`, of which the following are consequences;
- `Truthful`, `Current`, `Exclusive`: `ToldTheTruth`, `TablesAreCurrent`, `OneAuthority`;
- `Detached`: the action property `DetachedByItself` (proved only, no run lists it);
- `Refinement`: `ToolBroker` implements `RemoteCall` under the mapping at the end of
  `ToolBroker` (`told` is the status of a call unless it was already interrupted, `sent`
  is what entered the wire, `acted` is `effect`);
- `HonestKept`: `HonestAuthorityIsKept`;
- `LiveCallsFit`: the action property `LiveCallsNeverOverrun`, where the component accepts as many
  pending calls as the bridge holds open (`MaxPending <= HaMaxPending`; both are 16 in the code).

None of these is inductive alone. `IInv` adds: a call that is not active has no pending
interruption and one that is idle was never on the wire (`CallsInv`); whatever is in a table
is active, or given up, and of the current generation (`TablesInv`); Home Assistant acted
only on calls its socket has seen (`ActedInv`); an answer on its way is what was done
(`AnswersInv`); nobody is twice in the lock's queue, and a queued call that was not yet written
is neither interrupted nor on the wire (`QueueInv`), which is what makes a dispatch happen
at most once and never after its caller gave up; frames in a socket were sent (`WireInv`).
There is one lemma per part of `IInv`, with one step per action, and lemmas for the
helpers the actions share (`Retire`, `Settle`, `Release`, `Enqueue`, `RemoveAt`).

The last two need more (`WholeInv`), and their reasons are of another kind, about counting and order:

- An answer is refused when the broker does not know its call. `ExpectInv`: as long as an answer may
  come, its call is pending, retired or fell out of the table. `EvictedInv`: what falls out leaves a
  full table of distinct ids, all given up on, and nobody who was given up on is taken back (`Stays`);
  so more than `MaxRetired` calls of that generation were. `FreshInv`: a socket registers once, so
  nothing is left of a generation that begins.
- `LineInv`: of the calls that run at the component, or are on the wire or in the send lock's queue
  before a given call, fewer than `MaxPending` are pending. It holds when that call starts, by the
  bridge's own limit, and nobody joins a line but at its end. When the component is full of pending
  calls, the call it refuses contradicts it. `FirstInv` excludes the other reason to refuse: `registered` precedes
  every call on the wire, in whatever order the handler and the calls get the send lock. `OwnCallsInv`:
  the component runs calls of its own socket only.

The assumptions are those of the module: `None` outside the sets, finitely many calls, natural limits.

### ExecutorTurns

For any sets of turns, tool requests and user turns, any early buffer and bounds, and with or without the
continuation: `TypeCorrect`, `InterruptedTurnsRanNoTool` (`InterruptedRunNoTool`), `NewestRequestStays`
(`NewestRequestKept`), `RequestsAreKept` (`NoRequestForgotten`), `AnswersFit` (`AnswersFitRequests`).

The actions share their helpers (`Rejects`, `Leaves`, `AfterAnswer`, `Handle`), so one action has many outcomes:
`HandleDone` alone may pass on, go back, start the queued request, wait to speak or end the session. The proof
first splits `Next` into kinds of step, one per outcome, each saying of the state what the invariant needs
(`Steps` of `ExecutorTurnsSteps`; `StepKinds` is the lemma that every step is one of them; TLC checked it on the run's instance
before), and then has one lemma per part of `IInv` with one step per kind.

- *Where a task is*: `LockInv` says who is in the queue of `background_turn_lock` and that its holder alone is
  past the guard; `PlaceInv` that the job of a task fits the await it is at (a turn that is being started has a
  generation, only a replay has events at hand, only a rejection has requests to reject); `IdleInv` and
  `PhaseInv` do so for idle tasks and the teardown. `StartInv` follows from the lock: one `turn/start` is
  out, no turn is active then, and early events are kept only meanwhile.
- *What is known of a turn*: until the reply to its `turn/start`, nothing (`FreshInv`): it is not active, not
  finished, no task has it, none of its requests was admitted. `EventInv` ties the requests in the
  buffers to the turns that made them.
- *Interruption*: `TurnInv` and `ToolInv`. A tool runs only for the active turn, which is marked in the same step
  as having run one; a barge-in spares a marked turn and tombstones another, whose requests are refused from then
  on; a turn that started too late was never active. The tombstone survives the wait for the lock because
  it is on the record of the active turn, and the waits of the interrupt keep the lock.
- *One place for a request*: `BoundInv`, `TokenInv`, `UserInv`, `NewestInv`. A generation above zero is a token: it is
  queued behind a turn, or with one task that is about to start a turn (`Wants`), or a turn was started for it,
  and in one of these only. The newest is in one of them, which is `NewestRequestKept`, and no two turns
  have the same, which is the second half of `AnswersFitRequests`.
- *Answers*: `OwnerInv`, `AnswerInv`, `SpokenInv`. What was heard is of the active turn; when the turn ends, its
  messages, generation and turn go with the task that speaks them, to which the turn belongs alone until it
  is submitted.
- *Tool requests*: `ForgottenInv`. Consuming, buffering, replaying and rejecting hand on every request, the early
  events being split into those of the new turn and the rest.

### SpeechRequests

For any finite, pairwise disjoint sets of transcriptions, syntheses and talks, any number of attempts,
with and without the handoff: `TypeCorrect`, `LaneExclusive` (`LaneIsExclusive`), `BoundaryQuiet`
(`QuietBoundary`), `ThreadsOwned` (`ThreadsAreOwned`), `ShutdownComplete` (`ClosedAfterCleanups`). The last two
except the thread of a synthesis whose session could not be made (`NoSession`, see the findings).

- *Who is where*: `PhaseInv` ties the owner of the lane, and what it holds or parts with, to its `pc`;
  `AttemptInv` and `TalkInv` do so for the attempts and for a startup and the handler that may have
  abandoned it; `RestInv` says which slots are empty then.
- *The lane*: `CleanInv` says when nothing may be on offer or being cleaned up, `StillInv` that what is opened or
  closed is with who does it, `UpInv` where the one open transport may be. Together they keep
  `LaneIsExclusive`: whoever opens a transport has waited for every other to be closed.
- *Quiet*: `QuietInv` follows a retained session that was stirred from its watchdog to the claim; it shows,
  in its queue, its validity or its watchdog, until nobody may speak on it.
- *Threads*: `AskInv`, `KeptInv`, `GoneInv`, `LiveInv`, `LinkInv` and `ApartInv` say that a thread has one owner
  from the answer of `thread/start` on, that what is let go is with the task that deletes it, and that
  two owners never have the same. `ThreadsAreOwned` needs all of them, because each hand-over
  (offer, claim, cleanup, startup left behind) moves a thread between two of these slots.
- *The end*: `BridgeInv` says that what each stage of `_close` waited for stays done.

### AppServerRpc

For any calls and requests and any `MaxRetired \in Nat`: `TypeCorrect`, and `AnswersAreLast`, the action
property `AnswerIsLast`. `HolderInv` carries it: whoever writes an answer has the lock of its request
and the request is open; the answer and the retirement happen under that lock, so whoever has it next
finds the request retired, or forgotten (`CommittedInv`) when its id fell out of the table. `LockInv` and
`UnseenInv` say who is in the queue of a lock, `StatelessInv` that a writer
without a state answers an id that was forgotten, `RetiredInv` what is in the table, `EndInv` how
`start()` and `close()` keep step.

### Conversations

For any sockets, conversations, threads and turns and any `MaxConversations \in Nat \ {0}`: `TypeCorrect`,
`NoSecondDeletion` (`DeletedOnce`), `NoThreadIsKeptBusy` (`NobodyKeepsAThreadBusy`), `TurnsOnLiveThreads` (the action
property `NoTurnOnDeletedThread`).

A thread is deleted by who removes its entry from the cache, or by the one-shot socket that made it.
`CacheInv` says that a thread has one entry at most and that it was not deleted while it has one,
`OwnInv` that the thread of a one-shot socket is in no entry and used by no other, `DeletedInv` that whoever
deleted a thread has marked it before. `LockInv`, `PruneInv` and `FreshInv` are what makes `CacheInv` inductive: the
lock of the cache is held from the look at an entry to its removal, across the awaits of a prune, so what
a prune has still to delete is there. `SocketInv`, `RunInv` and `PendingInv` tie the threads in use to the tasks
that use them. That a thread may be deleted *in use* (`conv_pruned`) is no contradiction: such a
thread is marked, and no further turn starts on it.

### RenderGate

For any finite set of turns and natural bounds: `TypeCorrect`, `OnlyCurrentIsHeard` (`HeardIsCurrent`),
`SlotIsBoundRight` (`BoundToItsTurn`).

A frame says neither which turn nor which request it belongs to, so both rest on order. `OnceInv`: a request
is answered once, so that one turn is made for it. `OrderInv`: of the turns that begin after the
acknowledgement of an unbound render, the first on the control channel is the one made for it; that binds
the slot right. `SlotInv` ties the slot to what the provider was asked and acknowledged. `FrameInv`: frames of a render reach
the session only while it is in the slot, and an answer is handed in once the quiet tail has
passed; `GateInv` and `ChunkInv`: the gate is open for the render in the slot only, and the frame at hand
was read under the gate of its turn; the guard of `send_audio` compares that with the generation
once more. `EpochInv` bounds the epochs by the turns that began; `LockInv`, `TimerInv` and `TurnInv` say
who is in the queue of `output_state_lock`, when the arming timer runs, and what a turn has left on its way.

### DeviceSession

For any natural bounds: `TypeCorrect`, `EpochsAlwaysFit` (`EpochsFit`), `SilenceKept` (`SilencedStaysSilent`),
`MicrophoneOurs` (the action property `MicrophoneIsOurs`).

`WireInv` says that the messages on the wire continue what the device knows: epochs in
order, each begun before it speaks and silent after its end. `EndInv` says that what was begun is still spoken
or has its end on the wire, `CoverInv` that a frame on its way belongs to the epoch that is open, to the one
that was cut, or to one still to be begun. These hold while the network thread reads, the last as long as
no interrupt was answered inside an epoch (`early`, see the findings). `VoiceInv` bounds what the bridge
says at its start and end; `PlayerInv`, `MicInv` and `RequestInv` relate player, speech and pending interrupt to the
epoch and the phase of the loop.

### Lemmas about queues

`QueueProofs` says what appending, taking the head, joining, cutting and `Dropping` do to the
members, the order and the injectivity of a sequence. `Dropping` is a recursive function, and the library's
induction theorems cannot be used (they take an operator), so what it returns is proved by the least
length at which it could fail (`Least`, `KeptExists`).

### Only model-checked

- Liveness, which is out of the prover's reach: `CallsSettle`, `WaitsEnd`, `AllSettles`,
  `BargeInStops`, `LaneComesToRest`, `RequestEnds`, `SessionEnds`.
- `NobodyIsStuck` of `Conversations`, which speaks of `ENABLED`.
- The safety properties of `Transcription` (`TypeOK`, `TextIsWhole`): not proved yet.

## Not modelled

`PROJECT.json` lists every part with its status. Left out for good: parsing and validation of
messages, configuration and environment, deployment scripts, probes, media coding and SDP
(pure or I/O, no behaviour over time). Left out for now:

- of `service.py`: a realtime session without the managed executor; the fan-out of the App Server's
  notifications; the deltas, tool requests and early buffer of a conversation turn; the
  streaming of synthesized audio (`_collect_speech_audio` is reduced to its outcomes);
- of the provider session (`realtime.py`, `webrtc.py`): its replay queues and audio levels; what remains
  is its transport, open or closed, in `SpeechRequests`, and its paced track and text in `Transcription`;
- of the device: the vendor's assistant around the session (`sitecustomize.py`) and its configuration;
- of the Home Assistant component: the streams of its API client, its entities and flows.

## Plan

Done: `ToolBroker` with `RemoteCall`, `AppServerRpc`, `Conversations`, `RenderGate`, `SpeechLane` with
`SpeechRequests`, `DeviceSession`, `ExecutorTurns`, all with their proofs; `Transcription`, checked only.
Next, the most important first:

1. To prove: `TextIsWhole` of `Transcription`, from an invariant that ties the chunks sent to each attempt
   to the text it has and to what the last commit covered.
2. A composition of `ExecutorTurns` and `RenderGate`, whose common point is the render slot.
3. `ConversationTurn`: the events of one conversation turn, its early buffer (`service.py` 3942) and
   interruption.
4. The device's owner of a session: wake, stop, and the fallback to the vendor's assistant.
5. Component: reconnects of the tool client, the bridge API's streams, the TTS queue.
6. An abstract exclusive lane that `SpeechRequests` refines.
