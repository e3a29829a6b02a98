# Models and proofs of agentcontroller-client

TLA+ models of the parts of this repository that keep state and react to events, the TLC
configurations that check them on small instances, and TLAPS proofs of their main
properties for every size. Paths below are relative to the repository's root.

    tlc -config AcpRequests.cfg MCAcpSession     # one run; PROJECT.json lists them
    tlapm RunTeeProofs.tla                       # one proof module

## 1. Inventory

The repository is a client side: a TypeScript package that talks to a hub and, over a
WebSocket, to the agent in a run's sandbox; a mock of the hub that plays the server side
for development; the start script of the goose harness image; and scripts, manifests,
docs and slides.

| component | state it keeps | operations | talks to |
|---|---|---|---|
| **ACP client session** `packages/agentic-client/src/acp/index.ts` | pending map, request ids, session id, the turn in flight, heartbeat, close callbacks | connect, newSession, listSessions, loadSession, prompt, cancel, close, onClosed; socket and timer events | the socket, the agent behind it, the program's callbacks |
| **Run readiness** `contract/index.ts` `waitForRunning` | a deadline, a timer, a listener on the caller's signal | one polling loop | hub (getRun), the caller's AbortSignal and onPhase |
| **Contract helpers** `contract/index.ts` | none | parsing and validation | Secrets; the harness that reads what was validated |
| **Hub shim client** `transport-shim/index.ts` | none | one HTTP route per operation | hub |
| **Mock hub: run tee** `hack/mock-inventory-stack.mjs` 1076–1437 | per run: viewers, turn, ticker, open questions, queued steers, timers | attach, detach, steer, answer, cancel; ticks and timers | every viewer's socket |
| **Mock hub: nonces, upgrade, scripted runs** 50–61, 741–831, 1504–1537 | nonce map, script start times | mint, GET, upgrade | browser, run tee |
| **Mock hub: resource API** 697–735, 835–947 | the store | create, update, delete, list | UI (the shim is its twin for the client package) |
| **Mock hub: WebSocket framing and private sessions** 949–992, 1421–1502 | per socket: a buffer, timers of prompts, a drop timer | parse, frame, answer | both ends of a socket |
| **Goose harness entrypoint** `harness-goose/entrypoint.sh` | /workspace, .goosehints | clone, hints, skills, run or serve | git, goose, the container runtime |
| **Auth rig, bring-up, deployment scripts, manifests, slides** | files, cluster objects | straight-line shell | kubectl, docker |

How they interact: the UI lists runs through the shim, waits for one with
`waitForRunning`, mints a nonce, dials the run's ACP endpoint through the hub's upgrade
and speaks ACP through an `AcpSession`. At the other end is the harness's `goose serve`,
or, for a live run of the mock, the tee that several viewers share.

What is hard, and what has to hold:

| component | hard behaviours | properties |
|---|---|---|
| ACP session | concurrent calls over one socket; frames decoded out of order; close by either side at any point; a dead link without an event; concurrent turns and one set of "current turn" fields | answers reach their call; pending map and promises agree; after a close nothing is held, said or awaited; cancel reaches the turn; watchers told once; every call returns |
| Run readiness | status that is stale when it arrives; an abort at each await; a deadline looked at between requests only | bounds on how late it ends; no leaked listener; no false time-out; it ends |
| Run tee | several viewers answering, steering and cancelling at once; timers that outlive the turn; several questions open; late attachers | paused while a question is open; each question asked of each viewer once and closed once; the end is final; the stream goes on |
| Upgrade | status seen now, dialled later; nonce reuse and expiry | a nonce opens one socket; ready means dialable |
| Harness entrypoint | killed at any point and restarted over what it left | the hints are whole; the pod ends as goose did |
| Resource API | a check before or after an await; a list that changed while a body came in; a body that ends the process | one resource to a name, nothing resurrected, each answer true when given; no spec the CRDs refuse; every request answered |
| Framing, private sessions | chunk boundaries, lengths, timers that fire between frames | each frame taken once, when it is whole; a prompt streamed and then ended |
| Shim client, helpers | an answer lost after the deed; limits of 64 bits | a promise tells what was done; client and harness agree on an id |

`PROJECT.json` lists each hazard at its line, with the property that covers it.

## 2. Plan

Written so far, in the order in which they matter:

| module | models | abstract specification | checked by | proofs |
|---|---|---|---|---|
| `AcpSession` | client session, socket, agent | `RpcRequests` | `MCAcpSession`, four runs | `AcpSessionProofs` |
| `RunTee` | live run of the mock, its viewers | `RunTurn` | `MCRunTee`, two runs | `RunTeeProofs` |
| `WaitForRunning` | the polling loop, hub and controller | – | `MCWaitForRunning`, two runs | `WaitProofs` |
| `AcpUpgrade` | nonces, scripts, upgrade | – | `MCAcpUpgrade` | `AcpUpgradeProofs` |
| `HarnessEntrypoint` | start script, restarts | – | `MCHarnessEntrypoint` | `HarnessProofs` |
| `HubStore` | the mock's resource API | `ResourceStore` | `MCHubStore` | `HubProofs` |
| `PrivateSession`, over `WsFrames` | a socket of the mock that nothing streams to, and its frames | – | `MCWire` | `WireProofs` |
| `ShimClient` | one call of the HTTP client | – | `MCWire` | `WireProofs` |
| `ContractHelpers` | Secret key and application id | – | `MCWire` | `WireProofs` |

What would come next: a composition of `AcpUpgrade` and `RunTee` for the runs that are
upgraded and teed (the two meet in one line, 1535, and share no other state); the
liveness of a browser's session, which needs a time-out that the code does not have.

A run asks one question of one component. Properties that the same instance can decide
share a run, and `wire` holds three small modules that share no state, each explored from
an initial state of its own, so that the project stays within a dozen of them. The type
invariants are proved and therefore not run.

## 3. The ACP client session: `AcpSession`, `RpcRequests`

`AcpSession.tla` is the class `AcpSession` of `acp/index.ts`, the socket under it and the
agent at the other end. One action is one event handler, or one continuation of an async
method, run until its next `await`.

| code | model |
|---|---|
| `socket.readyState`, the network | `sock`, `link` (`"dead"`: no frame passes and no event tells) |
| `AcpSession.connect()` | `StartHandshake`, `ConnectDone`, `ConnectRejected`, `ConnectTooNew` |
| `nextId`, `pending`, the promises | `promise` (a sequence, one entry per id ever used), `pending` |
| `request`, `sendRaw` | `Issue`, `Request` (a socket that is not open drops the frame or throws) |
| `newSession`, `listSessions`, `loadSession`, `prompt` | one action for the call, one for the continuation (`Resume...`), `EndPrompt` for the `finally` |
| `cancel`, `close`, `onClosed` | `Cancel`, `Close`, `OnClosed` |
| `handleMessageEvent`, `toText`, `dispatch` | `FrameArrives`, `Decoded`, `Dispatch` with `Settle`, `HandleNotification`, `HandleServerRequest` |
| `await onPermissionRequest(...)` | `HandlerAnswers` |
| error and close listeners, `teardown` | `SocketError`, `SocketClose`, `Teardown` |
| `startHeartbeat`, the interval, the pong listener | `StartHeartbeat`, `HeartbeatTick`, `Pong` |
| the agent (goose, or the mock stack) | `AgentAnswers`, `AgentRepeats`, `AgentUpdates`, `AgentAsks` |

The payloads are abstracted to what the class branches on. An answer is an error, "ok",
a session id, a page with a cursor (`"more"`) or a protocol version that is too new. The
agent's inbound leg is folded into the time it takes to answer: it answers what it owes in
any order.

`RpcRequests.tla` is what a JSON-RPC connection promises to whoever awaits its requests:
settled once, by the own answer or by closing; closing settles everything at once.
`AcpSession` implements it under the mapping `state <- the promises' states`,
`open <- ~closed`.

### Runs

| run | question | bounds |
|---|---|---|
| `acp_requests` | Are the pending map, the correlation of answers and calls, the adopted session and the page cap right under any interleaving, and does the session implement `RpcRequests`? | 2 calls (a request races one other: every handler names at most two), 2 sessions, a page cap of 2, drops, refusals and repeated answers (one at a time, while no other answer is on its way), frames decoded in any order |
| `acp_turns` | Is the turn visible, does no pin outlive its turn, and does `cancel()` reach the turn in flight while sessions are loaded? | 3 calls of prompt and load, one turn at a time |
| `acp_callbacks` | Are updates, permission requests and watchers right against every kind of close? | 2 watchers, 2 updates, 1 request of the agent, errors and a dead link |
| `acp_live` | Do `connect()`, once its socket was open, and every call come back? | all four methods, every fault |

`PageCap` is 16 in the code; nothing depends on the number, so the runs use 2 and the
theorems hold for any.

`OneTurn`, that the program awaits a turn before it prompts again, is what `acp_turns` is
checked with, and where its properties say most. `prompt()` keeps one pair of fields, `promptActive` and
`promptSessionId`, for all turns, and its `finally` clears them whichever turn ended. The
comment at `acp/index.ts:390` says that a concurrent `loadSession` cannot retarget the
turn's cancel. It can when two turns were in flight and one has ended, until the next begins: with four
calls, two prompts and two loads, a cancel then goes to a session with no turn in flight.
For turns that overlap, the two properties therefore say less: no pin outlives its turn,
and a cancel reaches a turn in flight while no turn has ended since the last began. The
theorems `TurnCorrect` and `CancelCorrect` hold for both kinds of program.

The order of updates is a matter of text frames: `UpdatesInOrder` says nothing of Blobs.
Each is decoded in an `await` of its own, and an update in a Blob may reach `onUpdate`
after one that was sent later. `acp_requests` lets Blobs overtake each other;
what holds there is that answers reach their own calls.

`FailedConnectLetsGo` states an exception on purpose: when the agent refuses `initialize`,
`connect()` throws and leaves the socket open with no owner. A protocol that is too new
closes it.

### Fairness

`Fairness` is what a JavaScript runtime gives: queued events and settled promises are run,
the interval ticks, and a closing socket ends in a close event (node's `ws` and browsers
both time out the closing handshake). `acp_live` also needs an agent that answers what
reaches it (`AgentFairness`), because the client has no request timeout. It needs
`NodeSocket = TRUE`: a browser socket has no `ping`, no heartbeat runs, and a request on a
dead link waits for ever. A session that is closed settles its calls with nobody's help;
`EveryCallReturns` covers them too, and `connect()` from its open event on. No fairness is assumed of the program, the network or the faults.

### Proofs

`AcpSessionProofs.tla` proves, for any number of calls, sessions, watchers, updates and
any subset of the faults, `TypeOK`, `PendingMap`, `ClosedHoldsNothing`, `Correlated`,
`SessionLives` and the refinement of `RpcRequests`. Everything rests on one inductive
invariant, `IInv`, their conjunction with `ClosedSocket` (a closed session's socket is
closing or closed). `ClosedSocket` is needed because after `closed` a request must not
become owed to the agent: that a handler stays silent follows from the socket's state, not
from the flag. `Correlated` is inductive only together with `PendingMap` and the type
facts `id <= Len(promise)` and `answered \subseteq DOMAIN promise`: a fresh id is one
nobody awaits and nobody has answered. `DataLemmas.tla` holds the facts about sequences
that the steps use. Two theorems are about `RpcRequests` itself, and so about every caller of
a session: `SettledStands`, a settled promise keeps its outcome, and `NothingOutstanding`,
nothing is outstanding once the connection is closed.

The remaining safety properties are proved in the same module, each from `IInv` and an
invariant of its own:

| theorem | property | what had to be added to `IInv` |
|---|---|---|
| `SilentCorrect`, `QuietCorrect` | `ExplicitCloseIsSilent`, `QuietAfterClose` | nothing: an empty map settles no promise, an empty set of callbacks calls nobody |
| `WatchersCorrect` | `WatchersTold` | `Joined`: until it closes, whoever joined is still in the set of callbacks, and uncalled |
| `FailedConnectCorrect` | `FailedConnectLetsGo` | `Handshaken`: what each stage of `connect()` says of the socket and of request 1; a settled promise stays as it is (`PromisesStand`) |
| `ListCorrect` | `ListStopsAtCap` | `Paged`: a call that is done was fulfilled, and its page is within the cap |
| `TurnCorrect`, `CancelCorrect` | `TurnVisible`, `CancelReachesTurn` | `TurnInv`: a pinned turn has a session, and under `OneTurn` at most one is in flight |
| `RepliesCorrect` | `OneReply` | `AskInv`: no two frames carry the same request, and a request still in a frame is untouched |
| `NoCallForgotten` | `NothingForgotten` | `Plumbing`, `Uncalled`, `NoneForgotten`: see below |
| `OrderCorrect` | `UpdatesInOrder` | `UpdateInv`: what is being decoded continues what was handed over without a gap, the wire continues that, and while the socket lasts nothing that was sent is missing |

`OrderCorrect` holds trivially for Blobs, about which `UpdatesInOrder` says nothing.

The liveness properties, `DeadLinkNoticed` and `EveryCallReturns`, are model-checked only,
but what the second rests on is a matter of states, and proved: `NothingForgotten` says that
a pending promise belongs to an open session and waits for something that can happen. The
agent has the request and can be heard, or its answer is on a wire that can move, or the
socket is closing, or the network is dead and the heartbeat (node's socket only) has an
unanswered ping. Three invariants carry it: `Plumbing` relates socket, network, wire and
heartbeat to each other; `Uncalled`, that nobody waits on a session that is still opening;
`NoneForgotten`, that each pending id is under way in one of the four places.

## 4. The run tee: `RunTee`, `RunTurn`

`RunTee.tla` is one live run of the mock hub (`STEER_RUNS`): the turn of its agent and the
viewers' connections to it. The server is single-threaded, so an action is one frame
handled or one timer fired. A timer is a flag, or a queue where several of one delay may
run, and fires when it likes: the properties hold whatever the delays are.

| code | model |
|---|---|
| `st.active`, `runOverrides` | `active`, `phase` |
| `st.viewers`, `attachRunStream`, its return value | `conn`, `Attach`, `Detach` |
| `st.ticker`, `st.tick`, `st.cue`, `st.turns` | `Tick`, `ToolCompleted` (the endless stream), `PlayCues` (a transcript) |
| `PLAN(...)` frames | `PLAN`, `SendPlan`, `Ladder`; `plan[v]` is the last one sent to `v` |
| `pendingAsks`, `askSeq`, `paused`, `askTimer`, `askHuman` | the same names, `AskHuman`, `ScriptedAsk` |
| `resolveAsk` and the follow-up | `ResolveAsk`, `askFollowUps` |
| the steer handler, its pick-up timer | `Steer`, `SteerStale`, `steers`, `PickUp` |
| `session/cancel` and its 500 ms timer | `Cancel`, `CancelTurn` |
| `endRunTurn`, its 700 ms timer | `EndTurn`, `MayEnd`, `PushCompleted` |
| the 800 ms announcement of the run id | `announce`, `Announce`, `told`, `knows` |

A viewer sees what it is sent in order; what it sends may be late, so it can answer a
question that is already closed. `RunTurn.tla` is what the run promises the humans: no
work while a question is open, each question closed once, one end, one outcome. `RunTee`
implements it with `work <- tick + cue`, `asked <- askSeq`, `open <- pendingAsks`,
`outcome <- phase`.

| run | question | bounds |
|---|---|---|
| `tee_asks` | Who is asked what, when is the stream paused, how does it end, and does the run implement `RunTurn`? | 2 viewers (one to answer, one to come late or answer too), a transcript of four cues, the two scripted questions and one of a steer, one cancel |
| `tee_live` | Does the stream go on through all its pauses? | one viewer who stays, one who comes and goes, 2 ticks, one steer |

`EveryViewerAsked` and the others are over the questions `1..2+MaxSteers`: the
script asks two and each steer one at most, which `ScriptAskedOnce` checks.

Four things that a reader of the docs and comments may not expect are in the model as the
code does them, and no run is spent on them:

- `docs/hitl-in-harness.md:154` has `activeRunId` null at the end, but the timer of
  mock:1279 tells a viewer the run id 800 ms after it attached without looking whether
  the turn is still active: `told[v]` can go from `"null"` to `"run"`;
- a second steer is picked up while the question of the first is open (mock:1380 has a
  timer for each), although the comment at 1390 says that nothing else happens until the
  question is answered;
- the ladder for a late viewer is computed (1267), not the last one remembered (1211): in
  the 700 ms of the final push it is ahead of what the others were sent. `LadderInStep`
  is therefore about the time while the turn runs;
- a finished run is upgraded and attached like a live one (1533), although its status
  says that its endpoint is gone (1347).

**Fairness.** `tee_live` assumes that timers fire, which the event loop gives, and that
one viewer (`Patient`) attaches, stays and answers: the ticker does nothing without
viewers and a question waits without limit. Nothing is assumed of other viewers.

**Proofs.** `RunTeeProofs.tla` proves all the invariants, `EndIsFinal` and the refinement
of `RunTurn` for any viewers, transcript, variant and bounds. `IInv` adds three parts to
the properties. `Unasked`: a question not yet put has left no trace, without which
"asked once" is not inductive, since the next question number must be a fresh one.
`Script`: what the script's timer and follow-up have left, because the second question is
armed by the answer to the first. `OutcomeOpen`: the outcome is settled at the end of the
turn.

`StreamGoesOn` is model-checked only; `StreamKeptAlive` proves the part of it that is about
states, `NeverStuck`. While the turn is live and somebody watches, the ticker runs, and
either a question is open that every viewer has been shown and whose answer will count, or
the stream is not paused and has a cue left. It adds `Going` to `IInv`: whoever attached to
a live turn started its ticker, a turn that has played its last cue is over, and steers keep
within the bound, so that no question is beyond those the model counts.

## 5. Waiting for a run: `WaitForRunning`

The loop of `waitForRunning` in discrete time, with the hub that answers it, the
controller that changes the run meanwhile and a caller who may abort at any point, in
`onPhase` as well. An action is what JavaScript runs without interruption: `Call` and
`Wake` go up to the await of `getRun` (`Poll`), `Answered` from its answer to the sleep
(`Verdict`, `Sleep`), `Abort` is the signal. `HubReads` separates the status that is read
from the one that arrives.

| run | question | bounds |
|---|---|---|
| `wait_bounds` | How late does a wait end, what does it leave, may it time out on a run that was there? | time-out 5, interval 2, requests of up to 2 steps: three rounds, with the deadline in a request or in a sleep |
| `wait_abort` (violation) | Does an aborted wait hand out no run? | the same |

`Horizon` only keeps the clock finite; it is larger than any pending wait can get, and the
assumption says so. `PollMs` is at least 1 because `setTimeout` takes 0 for 1. `Latency`
bounds a request for the sake of the bounds: the code sets no limit of its own.

`wait_abort` shows a defect: the signal is looked at before a request and during a sleep.
If it aborts during the request and the run is connectable by then, the promise resolves
(contract:606), where the comment at 581–583 says that it rejects. Three further
observations are in the model: the "overall deadline" (570) is overrun by up to one
interval and one request (`BoundedOverrun` states by how much); a signal that aborted
during the request is not heard by the sleep that follows, so the rejection comes an
interval later (`AbortHeard`); a run that succeeds while being waited for is polled until
the time-out.

**Fairness.** Requests are answered or fail, timers fire, time passes. A hub that never
answers would hold the wait for ever.

**Proofs.** `WaitProofs.tla` proves the five invariants for every time-out, interval and
latency. `IInv` adds `Waiting`, what is known at each of the loop's waits (a request is
made before `TimeoutMs + PollMs`; a sleep that follows an abort began within its request),
and `Fresh`, that the status which arrives was right at or after the time it was asked
for; `TimeoutIsTrue` follows from the latter. `WaitEnds` is model-checked only.

## 6. Reaching the endpoint: `AcpUpgrade`

The mock's nonces, the runs that replay a boot, and the upgrade. `GetRun` starts a run's
script, `ListRuns` does not; `ReadyAt` and `acpAt` are the two timelines of `SCRIPTED`, the
status shown and what a dial meets. `Dial` is the upgrade handler: the nonce is redeemed
first (`Redeemed`), then the dial is refused, dropped or open (`Answer`).

The run `upgrade` has two viewers, two nonces, a run that starts to listen and one that
ends before it does. A step of the clock is 6 s, which is as fine as the scripts are; a
nonce lives one step instead of five, so that nonces expire before, while and after the
pod begins to listen without a longer clock.
`NonceOnce`: a nonce opens one socket at most and none after its expiry, whoever dials
with it. `ReadyIsDialable`: the panel dials once, on `ACPReady`; whoever has seen it True,
even long ago and from another request, is not dropped.

`AcpUpgradeProofs.tla` proves both for any clients, runs and times. `IInv` has `Unspent`
(a nonce in the map has opened nothing) and `StaysReady` (what a client saw ready still
is): it rests on a script's start being set once, and its clock never going back.

## 7. The harness's start script: `HarnessEntrypoint`

`entrypoint.sh` step by step, in a container that can be killed between any two of its
effects. With `restartPolicy: OnFailure` (`docs/UPSTREAM-FEEDBACK.md`, item 7) the kubelet
starts it again over the same `/workspace`; with `Never` (`docs/DEV_MODE.md`) the pod
fails. The hints file is a sequence of pieces, one for each `printf` or `cat`, any of which
may fail; goose may change every file, its hints too.

| script | model |
|---|---|
| 22–37 workspace | `CloneStarts`, `CloneEnds`, `CloneSkipped` |
| 79–88 `> .goosehints` | `OpenHints`, `NoText`, then `WritePiece` for each part |
| 95–106 `>> .goosehints` | `WritePiece` for each heading and SKILL.md |
| 114–123 | `StartGoose`, `GooseEnds`, `ExitRc` |
| container runtime, kubelet | `Killed`, `ContainerEnds`, `Restart` |

The run `harness` starts from every kind of run (repository or none, one with hints of its
own, standing text, a skill, batch or server, either policy) and restarts it twice, so
that the second restart runs over what a restart left.

`AgentKnows`: when goose starts and no write failed, the hints end with this start's text
and skills, once and in order, and hold nothing else if there is a standing text.
`StageEnds`: a batch run under `Never` completes, and succeeds only if goose did; it needs
no more than that the script goes on and `goose run` ends.

Three effects of a restart are in the model and contradict no comment: without a standing
text the skills are folded in again behind the old ones; a clone that failed or was killed
is not tried again, because by then the workspace holds `.goosehints` or half a clone; a
`printf` that fails (a full disk) is not reported, because the group ends in `true`.

`HarnessProofs.tla` proves `AgentKnows` for any text, skills and number of restarts. The
invariant is `Folded`: while nothing was lost the pieces dealt with so far are the last
ones of the file, and the only ones after a truncation. `StageEnds` is model-checked only.

## 8. The resource API: `HubStore`, `ResourceStore`

`HubStore.tla` is the mock's handler of `/agentic/<kind>` (835–947) for one kind; the
kinds have lists of their own that never meet. A GET or DELETE is one action. A POST or
PUT is routed when its headers come and then awaits its body (`readBody`), and everything
else may happen in between.

| code | model |
|---|---|
| `store[kind]` | `list`, in its order; `Fixture` is what the mock starts with |
| routing by method, kind and name | `Shows`, `Creates`, `Updates`, `Deletes`, `Arrive` |
| `await readBody(req)` | phase `"reading"`, ended by `BodyEnds`, `Crash` or `Aborted` |
| POST after the await | `Create`, `CreateAs` |
| PUT after the await | `Update`, `UpdateAt`, `Kept` (a body without a spec keeps the old one) |
| `specError` | `specError` over the fields that it looks at |
| `createCounter` | `generated`: a name made by `generateName` is not made again |
| `cr.spec` where `cr` is null | `Throws`, `Crash`; `Restart` is whoever starts the mock again |

`ResourceStore.tla` is what a hub promises about a kind: a request takes effect in the step
that answers it, a name has one resource at most, an update or delete touches the resource
that it names, and what is answered is true at that moment. A hub that runs keeps what it
has; one that has stopped answers nothing and starts again with the first resources. It
knows neither bodies nor positions. `HubStore` implements it with `res <- Range(list)`;
awaiting and aborting are stutters. The abstract store keeps a set, so that the refinement is the place
where the names must be shown to be distinct: `findIndex` and `splice` work on the first
entry of a name, which is the only one as long as no create looked too early.

The run `hub_store` has three requests, which is a create that races another, or an
update, with a third that deletes in between. They are drawn from twelve messages of all
methods with valid, invalid, empty, null and unparsable bodies, on a kind with rules for
its specs, one with other rules, one that only knows runs, and one that is unknown.
`ValidSpecs` compares `specError` with what the CRDs ask (the comment at 713); it covers
the update without a spec, which is checked with the spec it keeps.

A PUT whose body is `null` throws in an async handler. Nobody catches it, so node ends the
process and every request that was under way with it: `AnsweredUnlessNull` says that
nothing else leaves a request unanswered. **Fairness**: a body that is under way comes to
its end, unless its client goes away.

`HubProofs.tla` proves `ValidSpecs`, the distinct names and the refinement for any
fixtures, names, messages and number of requests. `IInv` has the types, `Distinct(list)`,
`ValidSpecs`, that a request that was not answered shows no answer yet (so that the abstract
request can still be answered), and that an unknown kind has an empty list. `AnsweredUnlessNull` is model-checked only.

## 9. On the wire: `WsFrames`, `PrivateSession`, `ShimClient`, `ContractHelpers`

`WsFrames.tla` writes and parses frames as the mock does (949–992); a byte is a number.
`Masked`, a browser's frame, is external and follows RFC 6455. `PrivateSession.tla` puts
it to use: the client's bytes arrive in chunks of any size (`Data`), the frames among them
are handled in one go (`Take`, `Handle`), and the timers of a prompt and of a flaky run
fire between (`ChunkTimer`, `ReplyTimer`, `DropTimer`). Of timers of one delay the oldest
fires first, and a prompt's 600 ms are over after its 300 ms; nothing else is said of time.

`ShimClient.tla` is one call of any of the shim's operations, given as a table: which
method, which resources, whether the body is read. The server does what it is asked and
answers, or refuses; the network loses the request, the response or a part of it.

`ContractHelpers.tla` has two helpers that decide something about another program's
input: `resolveSecretKeyFromData`, against a description of the key that is meant, and
`invalidApplicationIdReason`, against Go's `ParseUint`, which reads digit by digit in
numbers that wrap around. The function has unbounded integers, so this is a comparison of
two algorithms.

The run `wire` explores the three, one in each behaviour. A session: three frames of five
kinds, cut anywhere, with a close, a ping and an ended socket among them. Lengths are
scaled so that every form is small: `Base = 2` values of a byte, `Half = 4` (a marker 2
announces a length of two bytes, 3 one of `Wide = 3`), payloads of 0 to 4 bytes, hence
both sides of each limit. A call: every operation. A helper: every set of keys with texts
that decode or not, and every id of up to four characters over three digits and a letter,
where a number has five bits, so that ids of three and of four digits overflow.

- `FramesArrive`: the frames taken are those the client sent, each when its last byte is
  there, however they were cut, and what the mock writes comes apart into what it meant.
- `PromptsEnd`: a prompt is streamed and then ended, whatever comes in the meantime,
  unless the socket goes. **Fairness**: the timers fire.
- `CallsTruthful`: a promise that resolves means that the thing was done, once; one that
  rejects with a status, that it was not.
- `HelpersAgree`: the key found is the one meant; an id passes exactly if the harness can
  read it.

What the models say that a reader may not expect:

- the comment at mock:951 counts lengths "up to 64 KiB" in, but a payload of exactly
  65536 bytes is written with the length 0;
- the parser does not look at FIN, so that a part of a fragmented message is handled as a
  message; ACP clients do not fragment;
- a session/new on a flaky run that has one already leaves the first drop timer without a
  handle; it ends a socket that is ended anyway;
- the shim reads a body after an update (`updateSkillCard` and its like, 168–224), and a
  server that answers 204 without one, as the mock does (mock:926), has done what was asked
  when the promise rejects. `CallsTruthful` claims nothing of such a rejection;
- the shim sets no time-out and retries nothing, so that nothing is ever done twice and a
  call may wait for ever;
- the comment at `contract/index.ts:481` says that uint64 caps ids at 20 characters. It
  does so for numbers without leading zeros: any number of zeros before them passes the
  check and the parser, and a label of more than 63 characters would be refused.

### Proofs

`WireProofs.tla` proves the three invariants for every instance that satisfies
`FramesAssumption`, `SessionAssumption` and `HelpersAssumption`.

- `CallsCorrect`: `CallsTruthful` for any operation. `CallInv` says what is known of a call
  at each of its stages: before the server has taken it nothing is done; afterwards it is
  done exactly if the reply is a 2xx.
- `HelpersCorrect`: `HelpersAgree` for any Secret, any limit and any number of digits of the
  base, and ids of any length. `ParseUint` reads in numbers that wrap around, so each of its
  two comparisons has to see an overflow: `n >= Cutoff` exactly when the product is too
  large, and `n1 < n` exactly when the sum is. By induction over the digits, it is still
  reading exactly as long as the number read so far is within the limit.
- `FramesCorrect`: `FramesArrive` for any base, any widths of a length, any mask that undoes
  itself, any payloads and any number of frames, cut anywhere. It has three levels. `Codes`:
  the bytes of one frame, client's or server's and of any form, are not complete until they
  are all there, and then give the frame back whatever follows them. `Framed`, by induction
  over the frames: a row of frames comes apart at their ends (`Parsed`). `SessionInv`, the
  inductive invariant: for some `m` and `k`, `k` bytes have arrived and `m` frames to the
  end, the handler has taken these, the buffer holds the bytes from the end of frame `m` to
  `k`, the pipe those after `k`. `SessionTypes` adds what the steps need: that only the last
  frame can be a close, because the handler's loop stops at one and would drop what follows;
  and that all that was written fits the two-byte length.

`SessionAssumption` asks that a payload the mock echoes or writes is below `Base * Base`
(64 KiB): the mock's frames are wrong beyond that, see the first observation above. What it
echoes is the payload of a ping, which RFC 6455 limits to 125 bytes.

`PromptsEnd` is model-checked only. What it rests on is `PromptsKept`, that is
`PromptsServed` for every instance: a reply goes to a prompt that was taken, once and after
both pieces of its text, and as long as the socket is open a prompt has ended or the timers
that will end it are set. Its invariant, `PromptInv`, is `Serves` of the handler's record:
`TimersApart`, no prompt has two reply timers; `RepliesRight`, what was replied to has no
timer left; `Owes`, every prompt has a timer or a reply. It is carried through the handler's
loop by the same induction over the frames of a chunk as above (`LoopRuns`). What an ended
socket owes is void, because what is written to it goes nowhere.

What a recursive function computes is proved here although the library's induction theorems
cannot be used. `DataLemmas` states induction for a set of numbers, which needs no operator
as a parameter, from the well-foundedness of `<` (`SetInduction`); and shows that a function
that is given by recursion exists (`RecursiveValues`) and that two which go on alike are
equal (`AlikeByInduction`), so that a LET function of the models can be replaced by what it
is claimed to be.

## 10. Proved, checked, and left out

Proved by `tlapm` for every value of the constants, from the named assumptions of the
modules alone (`RunAssumption`, `WaitAssumption`, `UpgradeAssumption`,
`HarnessAssumption`, `StoreAssumption`, `FramesAssumption`, `SessionAssumption`,
`HelpersAssumption` and those of `AcpSession`): every invariant and every action property
that a run checks, the type invariants of the six larger components, and the three
refinements. They are listed under "theorems" in `PROJECT.json`.

Model-checked only: the liveness properties, for which the prover has no rules of fairness
(`DeadLinkNoticed`, `EveryCallReturns`, `StreamGoesOn`, `WaitEnds`, `StageEnds`,
`AnsweredUnlessNull`, `PromptsEnd`). For three of them the theorems `NoCallForgotten`,
`StreamKeptAlive` and `PromptsKept` prove that the system is never in a state in which what
is to happen waits for nothing; what is left to the runs is that fair steps take it there.
For `WaitEnds` that part is `DeadlineBound`.

Not modelled:

- of the contract helpers `parseSourcesAnnotation`, `invalidTargetBranchReason`, the
  lookup of environment variables and the CRD types: texts in, texts out, with nothing
  that reads the result in this repository to compare them with;
- of the session the payload parsers, of the mock the fixtures, the listing of
  applications, CORS and logging, of the shim the building of paths and `acpUrl`;
- the self-check, which is a test; the slides' tools, which make a slide deck and are no
  part of the system;
- the scripts that bring clusters up, log in and deploy: straight-line `kubectl`, `docker`
  and `curl`, whose state is the cluster's; the manifests, which are data for controllers
  of other repositories.

The hub, the agentic-controller, goose, git and the browser are modelled as far as this
code uses them and marked external in `PROJECT.json`.

Every property of a passing run has a mutant in `PROJECT.json`: a plausible slip in one
definition under which TLC finds the property violated. The mutants stand next to the
definitions they would replace, marked `Mutant`, and are used by nothing else.
