# Verification of NEXUS

TLA+ models of NEXUS, a local agent for macOS: a FastAPI backend that runs an
LLM agent with tools, an MCP server with those tools, a web client and an
evaluation harness. Everything here is translated from the code; where a doc or
a comment says something else, the code is what is modelled and the difference
is a run of its own, expected to fail, or a line of the list below.

## The system

| Component | State it keeps | Operations | Model |
|---|---|---|---|
| Agent runtime (`agent/runner, nodes, graph, state`) | coroutines, `_handles`, graph state | chat, model turn, tool batch, cancel | `AgentRun` |
| Approval broker (`agent/approvals`) | `_requests`, an event each | request, wait, approve, deny, cancel_task, eviction | `AgentRun`, promise in `ApprovalGate` |
| Task store and stream (`agent/tasks, events`, `api/websocket`) | `_tasks` (ordered), `_subscribers` and queues | create, publish, subscribe, replay, forward, unsubscribe | `EventStream` (records and statuses in `AgentRun`) |
| Mission engine (`mission/*`) | Mission, steps, their records | plan, loop, run_if, retries, limits, cancel, summary | `Mission` |
| Plan graph (`mission/graph_utils`) | locals of two functions | find_cycle, topological_order | `PlanGraph` |
| MCP client and catalog (`mcp/*`, `tools/registry`) | pool, sessions, catalog caches | open, discover, invalidate, build a registry, call, probe | `ToolCatalog` |
| Verification (`verification/*`) | - | plan, check, wait to settle, decide, record | `Verification` (that it follows a tool is in `AgentRun`) |
| Workspace context (`context/*`) | verdicts written to the memory store | collect, rank, cut, verify memories | `Context` |
| Execution trace (`trace/*`) | - | fold a record's events | `Trace` |
| Observations (`observations/*`) | detector's last view, ring, cooldowns, minute | sweep, record, dismiss | `Observations` |
| Suggestions (`suggestions/*`) | stop counter, ring, cooldowns, minute | consider, offer, accept, dismiss, expiry, publish | `Suggestions`, with a client `SuggestionPanel` |
| Memory store (`nexus-mac-mcp core/memory_store`) | rows in SQLite, a lock per process | save, delete, verify, mark stale | `MemoryStore`, promise in `FactStore` |
| Process manager (`core/process_manager`) | records, process groups | start, stop, list, shutdown | `ProcessManager` |
| Commands (`core/commands, process_policy`, `tools/commands`) | - | classify, run_command | `CommandPolicy`, `Commands` |
| File tools (`core/filesystem`, `tools/files, workspace, git`) | - | list, search, read, outline, find a repository | `Files` |
| Client (`useNexus.js`) | transcript, active task, mission panel, lists | send, stream, safety net, reconnect, decide | `Client`, `MissionPanel`, `SuggestionPanel` |
| Evaluation harness (`evals`) | results per case | run a case, poll, approve, score | `Evaluation` |

Interactions. The HTTP handlers call the runner, the broker and the stores
directly. A run builds its registry from the catalogs of the pooled MCP sessions
(or of its own) and calls tools through it; each call is a worker thread of the
MCP server, so that process manager, memory store and commands are the truly
concurrent parts. In the backend everything interleaves only at awaits. A run
publishes to the task store, which broadcasts to WebSocket queues and sets the
record's status from prompt events; the trace is a fold over the record. A
mission runs each step as a task of its own through the same graph and mirrors
its events; the client makes its panel of them. The context of a request is
collected by SAFE calls and its verdicts are written to the memory store. The
detector's, the verifier's and the tasks' observations reach the suggestion
engine, which turns some into offers.

What is hard: cancellation, delivered some turns of the event loop after it was
asked for and while somebody polls for its effect; approvals that race with
their expiry, with cancellation and with eviction; bounded stores that forget
what is still in use; a subscription, a replay and a broadcast that overlap; a
detector, a verifier and a collector that put together readings of different
moments; a discovery that overlaps the notice that its server is dead; threads
that write one process record around waits of seconds; two processes that write
one database, each under a lock of its own. `PROJECT.json` has the list, by line.

## The models and their code

An action is the code between two awaits (backend, client, harness), between two
places where another thread matters (process manager, commands) or one database
transaction (memory store). `PROJECT.json` maps every definition to its lines.

**AgentRun** has, per task, where its coroutine stands (`pc`), what is left of
the turn's tool calls and the request in hand; the broker's requests; and the
record's status. A turn has its repeated and excess calls dropped (`Turns`), each
call is checked against the permission policy, refused, run or asked about. A
prompt may expire, be answered, be evicted by a newer one, or die with the task.
`handle.cancel()` and the delivery of the `CancelledError` are separate
(`cancelling`), and so is the polling of the canceller. A tool node that refuses
a call has no await before the next, so nothing else runs then (`Idle`).
`uses` is a history variable: executions begun under each request.

**ApprovalGate** is the promise: a request is opened once, settled once, and only
a granted one starts a tool, once. `AgentRun` refines it, mapping the five
statuses to verdicts and `uses` to runs.

**EventStream** has the records' logs and, per connection, its queue, what is
left of its replay and what its client got. The store drops its oldest record;
a full queue drops its subscriber. Events of a step are published on the step's
record and mirrored on the mission's, under the step's task id.

**Mission** has planning with its one correction, the engine's loop (skip, start,
halt, end), the run of one step reduced to what the mission sees of it, the
summary, the closing of the sessions, and the cancellation of the mission or of
the task of one of its steps, at every await. `sessions` says whose the MCP
sessions are. Those of the pool are not closed by a run; a run's own are, and may
fail to (`CloseFails`; in `AgentRun` too): the `MCPError` replaces the result, or
the `CancelledError` that is unwinding the stack, and the record ends in ERROR
whatever the mission came to, also one that already said CANCELLED
(`runner.py:119`, `mcp/client.py:150`).

**MissionPanel** composes `Mission` with the browser that watches it: every action
of the mission says which events it publishes under the mission's task
(`EngineTold`), the socket carries or loses them, `useNexus` advances its panel
with them (`Advance`), the response of the POST clears it, and the safety net
replaces it by what the record's events make. Cancelling a step's own task, which
publishes nothing under the mission's, is left to `Mission`.

**PlanGraph** is `find_cycle` with the call stack as `path`, one action per
dependency looked at, and then the rounds of `topological_order`.

**ToolCatalog** has the pool opened at startup, the sessions runs open for
themselves, each source's cache and discovery lock, the registry a run builds
source by source (first claim wins), its calls, a server that dies and is
noticed at the next call, `invalidate`, and the probe of `/api/mcp/servers`.
A run that fails or is cancelled inside a discovery gives up its lock.

**Verification** has the machine as three facts (process, port, application) that
may change between the checks made of them, the plan drawn from the tool's
contract, the budget of calls, the one wait for a service to settle, the rule
applied to the readings, the timeout, and what `_record_outcomes` records.
`been` is a history variable: what was true at some moment since the call.

**MemoryStore** has the rows, a lock per process, and per worker thread the
request and how far it is; **FactStore** is what callers are promised, a map
from keys to facts. The refinement maps live rows to facts.

**Context** has two requests whose collections overlap: the reads of the plan of
their intent, the candidates with their order and cut, the active workspace, the
verdicts on memories and the writes to the store those lead to, while the user
saves or forgets, a process ends or a path vanishes.

**Trace** writes a record as nodes and mission engine write it, beside what the
user answered, and folds it as `builder.py` does.

**CommandPolicy** is the grammar of commands as operators over structured
requests (profiles, forms, options, blocklist; process profiles); **Commands** is
`run_command`, whose child may leave another process in its group.

**Files** has a tree of entries walked directory by directory, with each walk's
limits, while an entry may vanish or grow once. Some directories cannot be listed
(`Unreadable`): `list_directory` refuses them, while search and overview pass over
them as over one that is gone, without setting `truncated` (`files.py:131`,
`workspace.py:225`), so that even a root that cannot be read is answered with
success and nothing found. What the properties call complete is complete over what
lies in directories that can be listed. A directory that can be listed and not
entered, whose entries then cannot be asked what they are, is not modelled.

**Observations** has the sweep with an await per read and the store. The world is
in it as what a read may return, given the read before; any read may fail. The
detector compares commit heads that `git_status` does not return, so that part
of `git_transition` never finds anything and is left out.

**Suggestions** has the engine's counter and the store with its four limits and
expiry on read; `published` is what the last step told its sinks. One clock stands
for the code's two (wall for expiry, monotonic for the rest).
`consider_processes` (servers running for hours, DECISIONS.md:448) is never
called by the program and not modelled.

**SuggestionPanel** puts a client before that store. What is published waits in
the queue of its socket, which is lost when the socket closes and, once it was
full, gets nothing more (`deaf`: the subscriber is dropped, the socket stays open).
`loadAuthoritative` is a read that is asked for, served at one moment and applied
at a later one, or lost; several may overlap. A card that is answered goes at once;
the answer is sent, reaches the store or not, and its response returns or not; only
after a failed dismissal is all read anew. Others answer and read meanwhile.
`excused` is a history variable: the ids about which no event and no read can have
put the client right. They are part of what the model shows, against "REST =
authoritative state (on load, and again on every reconnect)" (README.md:340): an
event that comes between the serving of a read and its application is overwritten
by it and comes back only with the next read; what is published between the first
read and the first opening of the socket is not read again; a read that fails is
not tried again; an acceptance that never reached the store leaves a card off the
screen that is still pending. Left out: the order of the list, its limit of 20
(above `MAX_PENDING`), and suggestions the ring has evicted, which no event takes
off the screen. The socket is subscribed when it opens: the turn of the event loop
between `accept` and `subscribe` is not a step of its own.

**ProcessManager** has per process its record, its group (a leader and at most
one worker, each of which may ignore SIGTERM) and who has collected its exit,
and per worker thread what it is doing. Nothing survives SIGKILL for its grace
period; the refreshes inside start and stop are atomic, those of the readers are
not; a busy port is a start that fails. That a parent may SIGKILL the server is
not modelled.

**Client** is the browser's side of a request: the POST, the socket with the
events that matter to it, the safety net two seconds after the response, and the
approvals, which are read again after every event that may change them. Reads
overlap and come back in any order; the socket is in order and loses what is on
it when it closes. The backend is there as the events of a run and the record a
read returns. Time is not modelled, so the safety net may look at any moment
after the response, except that in which a failed run's record is being finished.
Five history variables note what was lost, overtaken or overlapped: the
properties say what holds of the rest. Resolving an approval is one step with its
response, and the lists of a reload are those of the approvals alone.

**Evaluation** has the cases under way, the tasks as the API shows them, polls
that may fail, the approval of prompts, and the scores of `scorers.py`.

Definitions commented "variant" are not part of the models: each is what a
plausible mistake would make of the definition that follows it, and shows that
the property named in `PROJECT.json` would notice.

## The runs

All on two workers, each within about three minutes. A run named after several
parts (`services`, `decisions`, `noticing`, `event_stream`) explores each on its
own, the others resting in one initial state: the parts share no variable, so
that interleaving them would add states and nothing to see.

| Run | Shows | Bounds, and why they are enough |
|---|---|---|
| `agent_run` | only permitted tools run, prompts are awaited, a refused tool is not asked about again (`RefusalIsLast`), decisions are final, nothing starts after a cancel, ended runs are recorded, `ApprovalGate` is implemented (so an approval is used once) | two tasks, one tool of each permission and one tool with two argument sets; turns with a repeated call, a repeated tool, an unknown tool; four requests against a broker of two, so that eviction hits a pending prompt of the other task; one model iteration, since a second repeats the first |
| `agent_run_live` | every run in the graph ends, every cancel returns | the same with one turn that asks twice, a task store of one record (the second task evicts the first), and fairness |
| `services` | missions: steps follow their dependencies and none is forgotten (`PlanIsFollowed`), CONFIRM steps are not retried and the iteration limit never ends a mission (`RetriesAreBounded`), the record follows the mission unless its own sessions failed to close, nothing starts once cancelled, the loop ends. Processes: records and groups agree, nothing outlives the server. Sessions: registries are right, a server noticed dead is not put back. Commands: what passes the policy is of its forms, whatever else was typed. Calls and refreshes return (`AnswersCome`) | missions: sessions of the pool or of the run's own; eleven plans, with every `run_if`, a plan out of order, independent steps, each way of being rejected; three attempts, one retry, a tool budget that two steps exhaust. Processes: two threads, two processes, a limit of one: every race is between two threads over one process, or two starts over the limit. Sessions: two runs, two servers that share a tool, one crash, one call each. Commands: every line of up to two words over the words of the forms, and longer lines that start a server |
| `decisions` | `find_cycle` is right both ways and the order respects the plan; `MemoryStore` implements `FactStore` and what was forgotten stays so; verdicts were true; the trace says what happened; the context says what was read and writes only what it saw; the file tools say when they were cut short, but for directories they cannot read; a case that passes did what it was scored for | every graph of four steps with up to two dependencies each, dangling and self-references included; three workers on two processes, two rows, two keys, three requests (two that meet and one that follows); budgets of two and five checks; records of eight items with two calls or one mission step; two overlapping collections and one change; twelve entries, one a directory that cannot be listed, under five sets of limits and one change; two cases and two polls. Two of the workers are interchangeable |
| `noticing` | no failure the detector saw is silent, a recovery follows an outage, a line is not repeated within its cooldown; one pending offer per condition, a dismissed one stays quiet; a client comes to show what is pending, whatever order events, reads, answers and their failures take | one service, one process, its workspace and a task against a ring and a minute of two, a cooldown of two and three ticks; a process, its server and a task, ring and pending limit of two, one offer a tick, four ticks with a cooldown and a lifetime of three: each limit is hit and passes; for the client a queue of two, two reads and one answer of the user's at once, one closing of the socket, and one offer at the first tick and at the last (`FewOffers`), so that each meets expiry, other clients' answers and every order of the rest. Its ring does not evict there, so that an answer to an unknown id is only in the proof |
| `event_stream` | no gap between record and stream, first copies in order and at most three copies; the panel of a mission shows what the engine has | a mission and its step, two interchangeable clients, queues of two, three events: a full queue, an eviction during a replay and an event during it all occur. For the panel, no plan or two steps of which the first asks the user and the second may be retried or skipped, two events on the way and one drop of the socket |
| `client` | at most one closing turn per task, an answer of which nothing was lost is shown, the client comes to rest, an approval comes to the screen | two plain requests that may overlap, or one that makes a remark and asks for an approval; two reads of the approvals at once and one drop of the socket: each race is between two of them |

And five that show a difference between what is said and what is done:

| Run | Said | Done |
|---|---|---|
| `event_stream_mission` | watching a mission's task id shows everything (`_wrap_sink`, DECISIONS.md) | step events are mirrored under the step's id, which the broadcast filters out |
| `process_manager_workers` | stopping a server takes its workers with it (`process_manager.py`) | the group gets SIGKILL only if the leader survives SIGTERM |
| `client_reconnect` | what happened while disconnected was missed, so it is re-read (`useNexus.js:247`) | the lists are, the active task is not: if it ended in the gap, after the safety net looked, the client works for ever |
| `trace_prompts` | a request that was declined never reads as one that ran (`test_trace.py`) | a tool approved and run earlier in the record makes a later, declined prompt read as approved |
| `command_hangs` | bounded time (`tools/commands.py:19`) | closing the pipes waits for a reader that waits for a process the command left behind |

Others of the kind that the models contain, or that were met in writing them, but
that no run is spent on:

- Missions. Cancelling the task of a mission's step marks it cancelled, and the
  step runs on and marks it finished again (`engine.py:453`, against
  `routers/tasks.py:52`). A cancel during the summary makes a COMPLETED mission
  CANCELLED too (`engine.py:376`); cancelling a mission leaves the record of its
  running step unfinished (`engine.py:594`).
- The client. A mission's wrap-up is never published (`engine.py:376`, against
  DECISIONS.md:679), so it is shown only if the safety net finds the mission
  ended while its task is still the active one; without that turn
  `Conversation.js:173` has nothing to render the panel under, against "the
  mission panel renders under the answer" (DECISIONS.md:683). The verification
  outcomes of a mission's steps come only with that rebuild (`useNexus.js:318`
  drops the steps' events), and a `mission_started` that comes before the
  response of the POST leaves no panel. An answer that comes before that
  response, with the end of the task after it, is not shown (`useNexus.js:318`),
  nor is one that the safety net, having found a remark, takes for shown
  (`useNexus.js:469`); the safety net of an older request puts a newer one out of
  sight (`useNexus.js:488`); a read of the approvals that was overtaken takes a
  prompt off the screen, or brings an answered one back (`useNexus.js:200`); an
  approval asked for before the socket first opened waits for the next event
  (`useNexus.js:249`).
- Broker and stores. A broker that evicted a refusal lets the tool be asked about
  again (`approvals.py:124`); a dropped subscriber is not told (`tasks.py:212`).
- Memory store. `get_memory_store` (`tools/memory.py:21`) caches its result, which
  does not serialise the first construction: two first calls that overlap in one
  process may hold two stores, each with a lock of its own, and behave like
  two processes of `MemoryStore` then.
- Noticing. Stops are counted per process id and a restart has a new one, so that
  a flapping server earns no offer (`suggestions/engine.py:48`, against
  DECISIONS.md:447); a service that flaps within the cooldown can be left with a
  last line saying it recovered (`observations/store.py:89`); a first sweep that
  failed is taken for the baseline (`detector.py:96`).
- Processes and commands. A start that overlaps another passes the process limit
  with it (`process_manager.py:194`); a reader that polled before a stop finished
  writes FAILED over STOPPED (`process_manager.py:335`); `--port 8000 --port 9000`
  is accepted, with the first recorded and the last used by uvicorn; `read_file`
  checks the size of a file before it reads it.
- Memory and context. The collector marks a memory STALE for good when its path
  is merely missing (`memory_types.py:60-62` and the docstring of `mark_stale` call
  that a matter of reading); it writes verdicts by id, after awaits, though the
  user may have saved the memory anew meanwhile; `WEIGHT_RECENT` never fires in
  `collect`; recent tasks can come back empty though older ones exist; ports are
  taken from stopped processes too. `tools/memory.py:148` ("flip between ACTIVE
  and STALE") and `:119` ("exactly one filter") say more than the code does.
- Trace and verification. A failed task is summarised "Answered without needing
  any tools." and a SAFE tool as run "after you approved it"
  (`explain.py:140-142`); a prompt that is still pending shows as DENIED;
  `runner.py:553-556` rebuilds INFERRED evidence as OBSERVED; SUCCESS combines
  readings of different moments.
- Evaluation. A case whose outcome is FAILED can pass with four scores of five;
  a case that timed out leaves its task running while the next one, which approves
  prompts, starts.

Fairness. `AgentRun`: what the event loop has ready runs, and the timeouts of
model, tools and prompts fire; users, discovery of tools and the closing of
sessions owe nothing. `services`: a mission's loop, a step's run (by `RunsEnd`)
and the expiry of prompts go on, while planning, summary and MCP owe nothing; the
operating system runs every thread of the process manager, and a wait for a
process ends, if need be in SIGKILL; a run goes on from await to await, and a
server asked for its list answers it or dies (`IsAnswered`; discovery has no
timeout of its own). `command_hangs` asks that the thread runs.
`Client`: a run that is not waiting goes on, requests and reads come back or
fail, the safety net fires, the socket reopens and delivers; approvals need not
be settled, and the property that needs them settled says so (`Settled`).
Deadlock is not checked anywhere: each of these systems may come to rest, with
no more requests, events or starts to come.

## The proofs

For every value of the constants that satisfies the modules' assumptions:

- `AgentRunProofs`: `RunInv` is inductive. The safety properties are not so by
  themselves: that a tool runs under its own approval needs that the parked run
  holds its own, unused request (`WaitsForItsOwn`), that requests not yet made are
  blank (`Unborn`) and that a run between asking and moving on has a call in hand
  (`InHand`). From it follow the type invariant, `OnlyPermittedToolsRun`,
  `OneRunPerApproval`, `PendingIsAwaited`, and, step by step, `DecisionIsFinal`
  and the refinement of `ApprovalGate`. How a run ends needs one more invariant,
  `CancelInv`: a cancel call polls, and a record says cancelled, only when the
  coroutine has left its body. With what a step may do to a run's place, record
  and cancel call (`Fate`) it gives `EndedRunsAreRecorded` and
  `NothingRunsAfterCancel`. `RefusalIsLast` needs `WaitsForItsLast`: a parked run
  waits for the last request of its task, so that no denial, expiry, eviction or
  cancel can refuse one that has a successor.
- `MissionProofs`: `MissionInv` says where the mission stands, which step is under
  way, how often each was tried, and that the loop's turns are the tries and skips
  so far. These are counted as a finite set of pairs, which gives that
  `max_loop_iterations` is out of reach. An accepted plan is acyclic, so the steps
  that have not ended have one that depends on none of them: the loop never ends
  with a step forgotten. Hence `PlanIsFollowed`, `RetriesAreBounded`,
  `RecordFollowsMission`, with the failure to close as its one exception, and,
  step by step, `CancelledStartsNothing`. Assumed: a
  plan is a sequence and may be empty (`PlansAssumption`), and the limits are
  numbers. The panel: `PanelInv` says that what the browser shows, with what is
  still on the socket, makes up what the record's events make (`HearsAll`), which is
  the mission as the engine has it (`Mirrors`), unless something is known to be
  missed; that nothing but the task's end follows the task's end (`EndsLast`); and
  that every event on the socket is still so (`SaidIsSo`), since no step of the
  engine takes back a plan or a step's end (`Stays`). `RebuiltOn`, that events are
  heard one sequence after the other, is proved of the community modules' fold by
  taking the first place where two lists of panels differ. Hence `PanelIsTrue`, for
  any plan, any room on the socket and any number of its closings, and that
  `MissionPanel` implements `Mission`.
- `EventStreamProofs`: `GapInv`: every event of the task asked for is with the
  client, still to be replayed, or queued. Hence `NoGap` for any number of
  clients, any queue size and any events. `OrderInv` takes what a client got and
  will get of what was sent as a replay followed by what came through the queue:
  each grows but for repetitions at once, and what the queue repeats of the replay
  was in it (`Fits`). Hence `FirstSeenInOrder`, with the number of copies from
  where they can be (`Within`).
- `ClientProofs`: `ClientInv`: the events of a task are on the wire in order, its
  closing turn comes with the end of its time as the active task, and the answer
  of a request of which nothing was lost is on the wire, shown, or to be read by
  an armed safety net. It needs that a request that never overlapped another is
  the only one in hand (`AloneInv`). Hence `AnswerIsShownOnce` for any number of
  requests, reads and closings of the socket.
- `NoticingProofs`: of the detector and its store, `WatchInv`: what the detector
  holds to be down or failed was told, is in what it has yet to tell, or was so
  when it first looked; and no line is newer than the last sighting of its
  condition. Hence `QuietWhileListed`, `RecoveryFollowsOutage` and
  `NoFailureIsMissed`. Of the suggestions, `OfferInv`: ids increase and dismissals
  are no later than the one kept of their condition. Expiry, eviction and answers
  only make fewer pending (`FewerPending`), which carries every step; hence
  `OffersAreSparing`. A step of the store tells what it does (`Tells`): what it
  publishes of an id is so afterwards, and of an id it does not mention nothing
  changed. `PanelInv` is built on that: the last event of an id on the wire says how
  it is (`WireFits`), a read on its way back is right but for what was published
  since (`ReadsFit`), and whatever is wrong on the screen will be mended by an event,
  a read or an answer, sits behind a closed or deaf socket, or is excused
  (`AllMended`). At rest nothing of that is left but the excuse: `ClientShowsPending`,
  for any queue, any number of reads and answers, and any ring. These proofs rest on
  lemmas about sequences cut to their newest elements.
- `ServiceProofs`, the parts that a server offers. Processes: `Supervision` is
  inductive. That ended records are of dead leaders and running leaders are
  tracked needs what a call has in hand (`Claims`: a process only its own start
  knows, or a listed one, dead where the code takes it to be), `Born` and
  `AtRest`. Hence `NothingOutlivesTheServer` for any number of threads and
  processes and any limit. Catalogs: `CatalogInv`: a registry half built has the
  tools of the servers so far, with the first that lists each; a discovery belongs
  to a run that waits for it; of a server noticed dead no list is on its way.
  Hence `CatalogIsRight` and `DeadServerIsNoticed` for any runs, servers and
  tools. Commands: `CommandInv` and, for command lines of any length over any
  words, `PolicyIsRight`. The loop that matches arguments (`fits` in `Walk`) is a
  recursive function. It has a value because its equation has a solution, the
  grammar itself; and that value is the grammar's (`WalkSpells`), since there is no
  last place where the two disagree.
  Hence `CommandsAreRight`.
- `DecisionProofs`, the parts that judge. Plans: `SearchInv`, the white/gray/black
  invariant of the search: the gray nodes are the path, what a path node has looked
  at is finished or next on the path, finished nodes are closed and free of loops.
  Hence `FindCycleIsRight` for plans of any size, and `OrderIsRight`: after a search
  that found nothing, `topological_order` is never stuck and its order has every
  step once, after what it depends on. Memory: `MemoryInv`: a key has one live
  row (the database's index), what a save has read is still so while it holds its
  process's lock, except for what other processes did, and a delete has met every
  live row of its scope not saved meanwhile. Each save and each delete takes its
  effect in one transaction and a mark changes no fact: `MemoryStore` implements
  `FactStore`, for any number of workers and processes. `ForgottenStaysForgotten`
  is an action property: only a save in another process than the one that deleted
  a row revives it. Verification: what the readings say was true when they were
  made (`been`), and the check a rule rests on was heard, or something was in its
  way. Hence `VerdictIsHonest` for any budget and any movement of the machine.
  Evaluation: what a case holds of a task that ended is what the task says for
  good. A score is a rounded share, and three bounds on it (`LessThanHalf` and
  those after it) give from the mean of the scores what a case that passes must
  have had. Hence `VerdictsAreEarned` for any dataset and concurrency.
- `RequestProofs`, what surrounds the run of a request. Context: `ContextInv`: what a
  collection has in hand is what it once read, in that order; the workspaces found
  and those to be tried are candidates, and the active one is the first that
  verified; what is shown so far and what is to be checked are together what was
  kept, each compared with the evidence of this request; and a row found stale is
  shown with its conflict. Sorting is `Sorted`, whose place of an element is the
  number of those before it: it lists a finite set in a total order, each element
  once (`SortedFacts`), so that what is cut off scores no better than what stays.
  Hence `ContextIsHonest` for any store, world, objectives and limits. Trace:
  `TraceInv`: every prompt but the one waited for is answered, a call that started
  was permitted or approved before, what was approved has started unless the run
  was cancelled, a call refused at its first prompt never starts, and only what ran
  is verified. The lines of the trace are `FlattenSeq` of what each event says: its
  recursive equation has a solution, and it keeps the order of the events
  (`FlattenKeepsOrder`). Hence `TraceIsTrue` for any tools, permission levels,
  contexts and bounds. Files: `FilesInv`: every walk is `Orderly`, whatever the disk
  does: nothing is named twice, and a directory that waits is neither above
  another one nor above the directory of what was named. While the disk is still
  it is `Sound` too: what waits or is named is in reach, and what is to be named is
  named, or below what waits, or the walk says that it was cut, for a reason. A
  step looks at the children of one directory; the fold of `AfterChild` over them
  has a value, and `ChildrenKeep` carries both along it, with the children not yet
  looked at as a third place. What they need of the forest (`Upright`) has no
  lowest counterexample; that the queue is too short is a reason because the
  directories in it are different ones (`QueueIsShort`). Hence `FilesAreRight` for
  any disk, names, links, permissions, roots and limits, and any order of a
  directory's entries.

Assumptions, beyond numbers being numbers: the processes a sweep reads are
finitely many, and what others report has keys of its own prefixes
(`OthersAssumption`); a dataset is finite, its refusals expect no tool and its
CONFIRM cases some (`DatasetAssumption`: so the manifests have it, and the scores
divide by these numbers); no path, target, port or host starts with a dash, the
defaults of host and port pass their own checks (`PolicyAssumption`), and the
blocklist names no executable that has a profile (`BlocklistAssumption`); a store
gives each row an id of its own and starts with none found stale, every path
resolves and a process has a directory (`ContextAssumption`); the entries of a disk
are a finite forest, a link resolves to an entry and limits are positive, which
`_env_int` sees to (`FilesAssumption`). TLC
evaluates each of them with the values of the code.

What the proofs showed about the models. `Plan` of `Verification` had a CASE whose
arms overlapped, which is right only if they agree where they do; they are guards
in the order of the code now, as in `Observations` and `Context`. `Context` read
the store without the limit of 50 rows, which a theorem for every store needs.
`PassesAreEarned` was too strong outside the bounds of its run: an outcome of
UNKNOWN, or none, earns half of the outcome's score, which is enough
(`AsExpected`). The blocklist is never what refuses a command line that the
profiles would accept. `Ascending` of `Files` picked a sorted sequence among all of
them, which says nothing of a set until one is known to exist; it counts now.

Only model-checked. Liveness is out of the prover's reach: `RunsEnd`,
`CancelEnds`, `ComesToRest`, `PromptIsShown`, `LoopEnds`, `AnswersCome`. Every
invariant that a run expects to hold has a theorem. Where one needs induction over
data, it is had from a least counterexample, or, of a fold, from the values its
equation gives the parts of the sequence.

Three hazards of the list have no property, each with its reason in
`PROJECT.json`: a tool that timed out may still be running (`nodes.py:477`), a
step's record that is finished twice (`engine.py:453`), a flapping server counted
by process id (`suggestions/engine.py:48`).

## Not modelled

Contents of prompts, contexts and summaries; model providers and their router
(a model's answer is nondeterministic); HTTP handlers and schemas, which call the
modelled code and nothing else; settings, errors and logging (`core`, `main`);
the Mac tools, stateless wrappers around commands of macOS; the patterns that
tell a secret from a memory; the pages and components of the frontend, and of
`useNexus` the lists of outcomes, memories and observations and the poll of the
context; of the harness the event contract and latency scores, Langfuse and
files; parsing of manifests and of the output of git.

## Plan

What is left, the most important first:

1. An abstract `PlanExecution` (steps end once, in dependency order) that
   `Mission` implements.
2. Composition: `EventStream` with `Client`; `Observations` feeding `Suggestions`.

Bounds stay as they are: two of what interleaves, and each limit small enough to
be hit.
