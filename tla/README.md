# Specifications of zero-nova

TLA+ modules, TLC configurations and TLAPS proofs for the engine of zero-nova, a
Rust platform that runs LLM agents: a process that keeps conversations in SQLite,
runs the turns of a conversation against a model provider and a set of tools, and
serves them over WebSocket or stdio to a desktop application and a command line.
Paths are relative to the repository's root; `nova-agent` stands for
`crates/nova-agent/src`.

## 1. The system

### 1.1 Components, their state and their operations

| component | where | state it keeps | operations that change it |
|---|---|---|---|
| Session store | `nova-agent/conversation/` (`service/`, `cache.rs`, `repository/`) | a cache from session id to a `Session` object with the flag `history_loaded`; the table `loading` of waiting callers; the SQLite tables `sessions` and `messages` | index at start-up, get, load the history, append, create, copy, delete, delete a tree |
| Session control and titles | `conversation/control.rs`, `service/title.rs`, `service/write.rs` | `ControlState` and `TitleState` in memory and as JSON in the row of the session | schedule a title, finish or fail it, model override, runtime state, project directory, prompt reload |
| Turn lifecycle | `nova-agent/app/conversation_service.rs`, `conversation/repository/run_repo.rs` | per `Session` object a `chat_lock` and a cancellation token; run records and run steps in SQLite | start a turn, stop it, record its steps, finish its run |
| Agent runtime | `nova-agent/agent/runtime.rs`, `agent/runtime/`, `loop_guard.rs` | the message list of a turn, the counters of the loop guard | one iteration: stream, tool calls, continuation, stop |
| Orchestrator | `nova-agent/orchestrator/`, `tool/builtin/orchestrate_task.rs` | the stages of a plan, the results per agent, the review | validate and sort a plan, run stages in parallel or serially, block, cancel, review with retries |
| Sub-agents | `tool/builtin/agent.rs`, `app/session_tree.rs` | child sessions and their ancestor chain; the tools the host seeds, the hook of the prompt | delegate, spawn, persist the child's turn, delete and read a tree |
| Task store | `tool/builtin/task.rs` | the agent's to-do list and its blocking relation | create, update, list |
| Tool registry | `tool/registry.rs`, `tool/builtin/tool_search.rs` | always-on tools, deferred tools, tools activated per session, a snapshot | register, resolve a deferred tool, clear a session's activations |
| Built-in tools | `tool/builtin/{bash,read,write,edit,web_search,...}` | files on disk, the set of files read in a turn | run a command, read, write, edit |
| External tools | `tool/external/` | none | run a configured command |
| MCP client | `nova-agent/mcp/` | pending requests by id | send, receive, close |
| Prompts and skills | `nova-agent/prompt/`, `nova-agent/skill/`, `crates/nova-skill-loader` | the skill registry, the sections of a prompt, the trimmed history | build, trim, load, filter |
| Providers | `nova-agent/provider/` | the stream being decoded, health samples | stream a completion, decode SSE, probe |
| Workspace queries | `nova-agent/app/agent_workspace_service.rs` | none of its own: runs, artifacts, permissions, audit log in SQLite | list, answer a permission request, restore a workspace |
| Voice | `nova-agent/voice/`, `app/voice_service.rs` | none | transcribe, synthesise |
| Gateway | `crates/nova-gateway-core` | connected peers and the session each has subscribed to | dispatch a message, forward a turn's events, broadcast |
| Channels | `crates/channel-core` | one bounded queue per connection | accept, receive, send, close |
| Protocol | `crates/nova-protocol` | none (wire types) | encode, decode |
| Configuration and start-up | `crates/nova-agent-config`, `crates/nova-agent-loader`, `conversation/sqlite_manager.rs` | the configuration, its file, the schema of the database | load, validate, build the application, update, migrate |
| Programs | `crates/nova-server`, `crates/nova-cli` | none | run the gateway, run a turn from a terminal |
| Desktop client | `deskapp/src` | pending requests, the reconnection counter, the followed session, the application state | connect, request, reconnect, show |
| Desktop shell | `deskapp/src-tauri` | the child process of the gateway | start, stop and restart it |

### 1.2 How they interact

A connection's receive loop (channel) spawns a task per message; the task runs the
gateway's `dispatch`, which calls the application.  So two requests of one
connection are handled concurrently and in no fixed order.  `chat` subscribes the
peer to the session, spawns a forwarder of events and calls `start_turn`; the
turn appends the user's message to the session store, builds the prompt, runs the
agent runtime and appends what the runtime returns.  The runtime streams from the
provider and executes tool calls concurrently; a tool may be the orchestrator or
a sub-agent, which run turns of their own in child sessions.  Events flow back
through bounded channels: runtime, recorder of run steps, forwarder, the queue
of the connection.  `chat.stop` reaches the turn only through the cancellation
token stored in the Session object.  Everything that outlives the process is in
SQLite; the cache is rebuilt from an index of the rows.

### 1.3 What is hard

* *Interleaving.*  Nothing is held across an `await` except `chat_lock`: the
  checks of the session store (is it cached, is it loaded, does it exist) and the
  steps that act on them are separate lock sections and SQL statements.
* *Identity.*  A session may be represented by several `Session` objects: an
  indexed one that was handed out before the history was loaded, and every loaded
  one a later load put into the cache.  `chat_lock`, the cancellation token and
  the history belong to the object, not to the id.
* *Partial failure.*  An operation that fails half way returns with `?` and leaves
  what it had done: an entry in `loading`, a run recorded as running, a message in
  memory that the database does not have.
* *Restart.*  Only rows survive.  What says "running" or "pending" in a row was
  written by a process that may be gone.
* *Cancellation, bounded channels, timeouts* between turn, tools and connections.
* *Text cut anywhere.*  A stream of a provider, the pages of a file, the output of a
  command and the usage of a session arrive in pieces that must add up to the whole.

### 1.4 What makes each component correct

| component | what must hold |
|---|---|
| Session store | one load per session at a time, whose result all waiters get; cache and database agree; a deleted session stays deleted; every call returns |
| Session control and titles | what was saved agrees with memory unless a save was overtaken; no update is lost in memory; a session is named once and a pending title is settled |
| Turn lifecycle | the turns of a session do not overlap; the messages of a turn are stored whole and in order; the runtime sees what was stored before; a stop reaches the running turn and no other; every turn ends; an answered chat has its run and its steps in the database, and its events before the answer |
| Agent runtime | every tool call that stays in the conversation has its result, in its place; the loop guard stops repetition and nothing else; the turn hands over what was executed; it ends |
| Orchestrator | stages run after what they depend on; every agent has the result it earned; success is told only when it was; a cancellation stops it; it ends |
| Sub-agents | a child has one parent and the chain of its ancestors, a tree read is a tree; a delegation runs as the agent, with the prompt and the tools that were asked for |
| Task store | the blocking relation is symmetric, has no cycle, and what is told of a task is what it is |
| Tool registry | a session is offered its own tools; what it was told is loaded is in its next request; what it was offered is found |
| Built-in tools | a file is changed only after it was read; who pages through a file is shown all of it; what a command printed is answered, whole and once |
| MCP client | every request is answered by its own answer; nothing but the greeting is sent before the greeting was answered |
| Prompts and skills | a request is made of this turn's skills, agent, history and tools, each of them where it belongs |
| Providers | what the loop heard is what the frames say, however they were cut; the messages of a request are what the wire format demands |
| Workspace queries | pages of the usage show every turn once; a stop from the workspace is recorded |
| Gateway, channels | a client sees the events of a chat once and in order; who follows a session is sent all of them; the maps agree; a chat ends |
| Configuration and start-up | a file that loads and passes the validation starts the program, and so does the configuration it runs with when it is written back; a turn runs on the provider of its llm; a database of any age and any interruption ends in the same schema with every row |
| Desktop client | every request settles once; after a reconnection the followed session is followed again |
| Desktop shell | one gateway process at most |

## 2. Plan

The modules are written, in this order; `MC...` modules give the constants of the
runs.

| module | models | abstract specification or reference |
|---|---|---|
| `SessionStore` | cache, table `loading`, database, restart | `SingleFlight`; types, table, refinement, deletion and agreement proved |
| `TurnLifecycle` | turns, `chat_lock`, tokens, runs, restart | types, mutual exclusion, stops, tokens, whole turns, order and what the runtime sees proved |
| `PushCenter` | connections, subscriptions, broadcast, the chat handler | types, order and watchers proved |
| `AgentRuntime` | the loop of a turn, concurrent tools, loop guard | types, conversation, what is handed over and both guards proved |
| `Orchestration` | checks of a plan, sort, stages, cancellation, review, what the tool answers | order of the stages, results, success, stop and types proved |
| `SessionControl` | control and title state of the objects of a session, its row, title requests | what is saved and the one name proved |
| `SessionTree` | child sessions, copies, deletion and reading of a tree, restart | types, the tree of the rows, the lists of the objects and what is read of them proved |
| `ToolRegistry`, `TaskStore`, `FileTools`, `CommandOutput` | what tools work on | own tools, blockers, read files and told output proved |
| `TurnEvents` | runtime, recorder, relay, forwarder, client | types, the answer after the events, what is stored, logs proved |
| `McpClient` | requests of several callers to one server | own answers and the greeting proved |
| `Skills`, `PromptAssembly`, `ModelRequest` | pure operators: skill folders, prompts, wire messages | |
| `TurnPreparation` | those three as one turn uses them | |
| `ProviderStream` | a streamed answer, in chunks | what the whole frames mean (`OpenAiMeant`, `AnthropicMeant`) |
| `Configuration` | the file, its forms, start-up, clients that update | what is written boots and each llm's provider proved |
| `Migrations` | starts on databases of any age, interrupted | schema and rows proved |
| `Delegation` | how a sub-agent is made | that it runs as asked proved |
| `RunRecords` | the records of runs, their usage and its pages | pages and counters proved |
| `Engine`, `Tools`, `Hosting` | the parts around one turn, side by side | |

How they fit.  `TurnLifecycle` takes the append of `SessionStore` (with the history
loaded) and its replacement of a cached object as one action, `Reload`, and the
runtime as an oracle whose promise is that of `AgentRuntime`; `PushCenter`
takes a turn as a producer of events, `TurnEvents` opens that producer.  A tool call
of `AgentRuntime` may be an orchestration, whose timeout and stop are `Dropped` and
`StopTurn` of `Orchestration`; an agent of `Orchestration` is a delegation of
`Delegation`, whose row is a child of `SessionTree`, whose events pass through
`TurnEvents` and whose tools live in a `ToolRegistry`.  `TurnPreparation` makes the
request whose answer `ProviderStream` decodes.

`Engine`, `Tools` and `Hosting` put the parts around one turn side by side; the values of
their constants for a run are in `MCEngine`, `MCTools` and `MCHost`.  Their variable
`part` (`side` in `Hosting`) says which part a behaviour is about; the parts share no
variable in the code, so a behaviour that moves two of them says nothing that two
behaviours do not, and the others rest in their initial state.  Where parts do share
state they are one module: the composites check modules, they do not compose them.  The
files and the streamed answers `MCHost` gives to `Configuration` and `ProviderStream` are in
`MCInputs`, the old databases in `MCMigrations`.

A next proof would need a prover with induction over data: `HeardIsMeant`, by induction
over the bytes of a stream, and `RequestIsTurn`, over its worlds' lists.

## 3. The modules and the code

A definition and the lines it stands for are listed in `PROJECT.json` under `map`.

**`SessionStore`** (`conversation/service/{queries,write,persist}.rs`, `cache.rs`,
`repository/`).  A task is a caller; each lock section and each SQL statement is an
action.  `cache`, `full` are the DashMap and `history_loaded`; `heap` holds the
histories of the `Session` objects, indexed as an `Arc` would be, so that two tasks
can hold different objects of one session; `loading` and `waiters` are the table
that de-duplicates loads.  `IsLoaded`, `IsCached`, `Recheck`, `Enter`, `ReadRow`,
`ReadMessages`, `Install`, `Release` are the steps of
`ensure_session_history_loaded`; `Push`, `Save`, `Persist` those of
`append_message`; `CreateRow`, `CreateMessage`, `Publish` of
`create_for_agent_with_id`; `DeleteRows`, `Evict` of `delete`.  `StatementFails`
takes the `?` of any statement.  An append may leave a title generation behind
(`Schedule`, `titles`), which in the end writes the session's row with the same upsert
(`TitleEnds`); when one is due is the matter of `SessionControl`.  `Crash` loses the memory and the next process
indexes the rows one by one.  A history is a set of messages: its order is the
business of `TurnLifecycle`.
**`SingleFlight`** is what the table `loading` promises.

**`TurnLifecycle`** (`app/conversation_service.rs`, `conversation/session.rs`,
`run_repo.rs`).  One action per statement of `execute_agent_turn` that another task
can observe.  `objects` is the sequence of `Session` objects of the session, the
last one cached; `chat_lock` and the token are fields of an object.  `EarlyReturn`
is any `?`; `ControlStop` and `ControlCancel` are the two halves of
`run.control(stop)`.  `RacingSpec` adds `Reload`, a late `Install` of
`SessionStore`, which replaces the object under the turns.

**`PushCenter`** (`nova-gateway-core/push_center.rs`, `handlers/chat.rs`,
`lib.rs`, `router.rs`, `channel-core/websocket.rs`).  An actor is the handler of
a request, the forwarder of its events or what remains of a closed connection.
`peers`, `follows`, `audience` are the three maps with their three locks; every
lock section is an action, every send too.  `Enqueue` blocks when the channel of a
turn has no room.

**`AgentRuntime`** (`agent/runtime/tool_exec.rs`, `guards.rs`, `loop_guard.rs`).
`context` is `all_messages` from the turn on, `messages` is `turn_messages`: they
differ by the question after a cut reply.  A call has a tool, the part of the input
its signature keeps and the part it leaves out, as `build_tool_call_signature`
does.  The judgement of a reply's calls is one step, because the loop over them
polls no tool before it has ended; the ends of the tools are separate steps in any
order.  `Cancel` may come anywhere, and is seen where the code looks.  `ConversationWhole`
speaks of complete replies (`Calls`), whose calls are answered, and of cut ones (`Cut`),
whose calls stay in the conversation, are not executed and have no answer.

**`Orchestration`** (`orchestrator/`, `tool/builtin/orchestrate_task.rs`).  `Place`
and `Sorted` are Kahn's algorithm with a queue that starts in any order (the
iteration order of a `HashMap`).  `task` is what a sub-agent does, `joinset`,
`pending` and `gathered` are the locals of `execute_parallel` and
`execute_serial`; a panic of a task of a `JoinSet` is a result without an agent,
one in a serial stage ends the engine.  Between the look at the token and the start
of agents lies the announcement, so a cancellation fits in between.  `Spec` is the
engine with a token its caller holds, `ToolSpec` the engine a turn calls.  `WellFormed`
are the checks before the sort, `Shorthand` the plan that is made of a mere prompt,
which skips them in the code and passes them in the model; `Told` is what the tool
answers.  The shapes in which a reviewer may answer are `Answer`: its verdict counts
when it is the answer or the first object in it, and approval stands for the rest.

**`SessionControl`** (`conversation/control.rs`, `service/{persist,write,title}.rs`).
An update changes the object under its lock, reads the title state under another,
clones, and writes the row: each is a step, so two updates of one session interleave
between them.  The title is a state machine of its own with a generation task, whose
failure is retried at a later message.  A session has one object at a time (two of them
are the matter of `SessionStore`); `Load` and `Crash` make a new one of the row.
`Clone` takes in one step what `persist_session_control` reads under two locks, the
control state and the name.

**`SessionTree`** (`service/write.rs`, `queries.rs`, `app/session_tree.rs`,
`tool/builtin/agent.rs`).  A row carries the parent, the root and the chain; an
object carries the children that were appended to it.  `ResolveRoot` ... `Insert` are
`create_with_parent`, `Collect` ... `Evict` the deletion of a tree, `Visit` and
`Expand` its reading along the objects.  A timeout drops a sub-agent between any two
of its steps.  An object stays in the cache until its session is deleted: late loads that
replace it and its list of children, and title generations, are left to `SessionStore`.

**`ToolRegistry`** (`tool/registry.rs`, `tool_search.rs`, `tool_info.rs`).  `view` is
what the last request offered, `activated` what the session has switched on; a reply
calls tools and a ToolSearch at once, and each name is resolved under the lock alone.
`told` remembers what the model was told is loaded, by ToolSearch or ToolInfo.

**`TaskStore`** (`tool/builtin/task.rs`).  An update checks and changes in the order of
the code, so one that is refused half way leaves what it had changed.

**`FileTools`** (`tool/builtin/{read,write,edit}.rs`, `path_preprocess.rs`,
`read_cache.rs`).  Calls of one reply run at once; a read, an edit and a write are
several steps because each awaits the disk; `fs::write` empties a file before it
fills it, and the disk may fail at each (`DiskFails`).  Whether the session has a project
(`HasProject`) decides only which spellings of a path resolve.  `read` is the tool's own mark, set
before the disk is read; beside it the histories keep which files a Read has answered
for (`ranges`) or failed on (`failed`), which lines with which contents were shown
(`seen`), and of which file a line was withheld that was never shown (`hidden`).

**`CommandOutput`** (`tool/builtin/bash/mod.rs`).  The two outputs of a foreground
command, each read by `read_until` in one `select!`, collected for the answer and
logged in pieces by time; the `read_until` that loses the `select!` is dropped with
what it had read.  A read that fails ends its stream and leaves its line in the answer
(`ReadFails`); the answer has no more of a stream than its limit (`Truncated`,
`MaxShown`), and says nothing of either when waiting for the process fails.

**`TurnEvents`** (`conversation_service.rs`, `application.rs`, `chat.rs`,
`bridge.rs`, `run_repo.rs`).  Four bounded channels; who can still write to a channel
decides when it is closed: a background command and a sub-agent keep their ends.  The
recorder ignores a statement that fails; `missed` are the calls that has happened to, and
`Fallible` bounds to which it may.
`Wire` is what the client is sent of an event.

**`McpClient`** (`mcp/{client,transport}.rs`).  A request is registered, waits for the
writer's lock, is written, and waits for the reader task; `Enter`, `Disappoint` and
`Notify` are the handshake.  The server answers in any order, twice, with noise, or
goes away.  A WebSocket has the same reader task and table; it differs in that a failed
write is not reported.

**`Skills`, `PromptAssembly`, `ModelRequest`, `TurnPreparation`** (`skill/`,
`prompt/`, `provider/{anthropic,openai_compat}`, `agent/runtime.rs`).  The first three
are operators on skill folders, templates and messages.  `TurnPreparation` is one turn
with them: `Worlds` are the starting points (folders, prompts, history, tools), and
tools may be registered or released between the two reads of the registry.

**`ProviderStream`** (`provider/{sse,anthropic}.rs`, `openai_compat/mod.rs`).  Bytes
arrive in chunks that end anywhere; a frame is one byte and its line ends, in both
forms.  The receivers' states are those of the code; the meaning is read from the
frames alone.  What Anthropic's `message_start` and `message_delta` say of the usage is
dropped by the receiver and left out of the frames; that of `message_stop` counts.

**`Configuration`** (`nova-agent-config`, `bootstrap.rs`, `handlers/config.rs`).
`Raws` are files as a user may write them, with their sections left out and in their
older forms; `Loads`, `Migrated` and `Normalised` are what loading makes of them,
`Written` what an update writes.  `OwnProvider` and `TurnRunsBinding` follow an
agent's binding to the provider a turn uses.

**`Migrations`** (`sqlite_manager.rs`).  Each statement of a start is a step and a
start can end between any two.

**`Delegation`** (`tool/builtin/agent.rs`).  The steps of `run_subagent` up to the
turn, with seeds and the hook changing meanwhile; `TextOf` and `Refused` are the
precedence of an agent's prompts.

**`RunRecords`** (`agent_workspace_service.rs`, `run_repo.rs`).  Runs in the order of
their start times, usage added to the row and to the counters of the object, and a
client that walks through pages while turns end.

## 4. The runs

| run | instance | states | shows |
|---|---|---|---|
| `session_store` | 2 tasks, 1 id, 3 calls of any operation, the title generations they leave behind, 1 failing statement, 1 restart | 247 471 | types, the load table and its refinement of `SingleFlight`, agreement of cache and database, deletion; calls return |
| `session_lost` | 2 tasks, 2 calls | violation | an acknowledged message is missing from the cached history |
| `turns` | 2 turns, 2 replies, 2 failures, 1 restart, stops at any time | 122 000 | whole turns, what the runtime sees, tokens, stops, every turn ends |
| `push_center` | 2 connections, 2 sessions, 2 requests handled concurrently, one of them a chat, 3 events, room for 1, one connection may close | 293 000 | order, completeness for watchers, the chat ends |
| `push_center_refresh` | 2 connections that may close | violation | a refreshed client is sent nothing more of the running turn |
| `session_control` | 2 tasks, 3 calls, 2 attempts at a title; 1 failing statement and 1 restart among the first 2 calls | 704 000 | row and memory, one name, a title settles unless a save fails or the process ends |
| `session_tree` | 2 sub-agents, 1 client, 4 sessions, 1 deletion, 1 read, 1 restart, trees of depth 1 | 2 460 861 | one parent and one chain per child, what a read answers |
| `engine` | the parts `orchestration` (9 plans: 4 ordinary, 1 shorthand, 4 refused; 5 agents, 4 stages, 2 panics), `runtime` (4 iterations, thresholds 2, a Read and two Edits of one file), `events` (a Bash call, a sub-agent, channels of 1, the statements about one step may fail), `mcp` (2 callers, 4 requests, the first the handshake) | 529 241 | conversation, guard, results and success, the way of the events, own answers, everything ends |
| `tools` | the parts `registry` (2 sessions, 3 turns, 2 deferred tools), `tasks` (3 tasks, 2 updates), `files` (2 files, 3 calls, 2 at once), `command` (3 units of output, 2 and 1 of them shown) | 2 383 923 | blocking relation, own tools, pages of a file, output |
| `host` | the parts `turn` (494 worlds), `stream` (6 answers, every cut), `configuration` (2 providers, 2 names, 2 clients), `migration` (databases of all old forms, 2 starts), `delegation` (2 delegations), `records` (3 turns, pages of 1) | 1 046 494 | the request, the decoded answer, files that boot, the schema, delegations, usage |
| `configuration_binding` | part `configuration` | violation | a turn runs on the model and settings of another llm than its agent's |
| `delegation_skill` | part `delegation` | violation | a skill that is missing is answered as success |

`SessionControlLost.cfg` shows a difference of section 6 (and names in a comment two more
properties to put in, with their constants).  The other differences of that section, and
two larger checks, are the files of the runs with other values:
* *racing*: `MCTurnLifecycle.cfg` with `RacingSpec`, `Turn <- TwoTurns`, one reply, no failure,
  no crash and `MaxReloads = 1`.  `InOrder` holds when the object of two turns is replaced
  (115 000 states); `OneAtATime` in its place fails.
* *orphans*: `MCSessionTree.cfg` with one task, one client, `Start = 1`, `MaxSessions = 2`, one
  deletion, no read, no crash and the invariant `NoOrphans`; for `FailsForMissingRoot`,
  `Start = 2` and one read.
* `MCSessionControl.cfg` with `Spec`, `FewCalls = 3` and the invariants `AttemptsBounded` and
  `RowKept` (a restart anywhere, 1.9 million states).
* `PushCenterRefresh.cfg` with `TwoSessions`, `ThreeRequests`, one event, `MapsAgree` and the
  symmetry `PeerSymmetry` (1.5 million).

**Bounds.**  Every bound is a CONSTANT named in its module.  Two tasks, turns,
callers and connections are what the hazards need: each is a race of two actors about
one session, object or map.  Three calls let a load, an append and a deletion meet.  The
faults of `SessionControl` come early (`FewCalls`), which leaves a call to follow them;
with `FewCalls = 3` they come anywhere.  The one chat of `push_center` is one of
the first session, because sessions are interchangeable.
Three events with room for one fill and drain a turn's channel.  Four iterations
with thresholds of two let the guard refuse and stall, reset, and go on; the defaults
of the code are 2 and 3.  The plans cover both kinds of stages, a diamond, stages
that do not depend on each other, a stage without agents, a cycle, a review with two
retries, a shorthand, and one plan for each check that refuses.  Two files and three
calls, two of them at once, let a write come between an edit's read and its write; a
file of three lines read with any offset up to four and any limit, zero included, has
first, middle, last and repeated pages.  Of three units of output more than the limit
of a stream can be written, and lines and partial lines of both meet.  Two deferred tools are
one that works and one whose factory panics.  Each of the
worlds differs from one plain world in one part: the skills and the input, the files
of the project, the history and its budget, the tools, or the agent's prompt.  A stream is cut at every byte.
In a database each table is absent, of this version, of an old one, or as an
interrupted migration left it.  Three turns and pages of one
put the growing front of a list between two pages.

Symmetry is used in `session_tree` (sub-agents), `tools` (the two callers and
files), `host` (clients and turns) and the check of `MapsAgree`; none of them checks liveness.  Deadlock is not
checked where all calls, turns, requests, or the plan, have been used up: there the
system rests.

**Fairness.**  Liveness holds under weak fairness of steps the runtime (tokio) takes
by itself: a spawned task that can run does, a SQL statement returns or fails.
`Lock` is strongly fair because tokio's `Mutex` is FIFO.  `TurnEvents` is fair to its
pipeline only: nothing makes a command exit, so what must arrive is stated up to the
exit of background commands.  `McpClient` is fair to callers, reader and a server
that runs.  That a tool ends is
ensured by `tool_timeout` (`tool_exec.rs:194`).  That a provider ends its stream,
and that a turn of `PushCenter` ends, is an assumption: the code sets no timeout on
a stream.  Fairness is never assumed of `Cancel`, `StopTurn`, `Dropped`, crashes,
failures, timeouts or closing connections.  A task of an agent may run for ever in
`Orchestration` as far as its own code goes; that it ends rests on the fairness of
`AgentEnds`, for which the turn limit of a sub-agent and the timeout of the tool
stand.

## 5. The proofs

Everything below holds for every set of tasks, sessions, messages, turns,
connections and requests and for every bound.  Each inductive invariant was first an
invariant of a TLC run on the instance of its component's run or a larger one.

**`SessionStoreProofs`**, from `SessionStoreAssumption`.
* `TypeCorrect`, `FlightCorrect`: `TypeOK /\ FlightInv` is inductive.  Types alone
  are not: that `Install` and `Release` act on an entry of `loading` that exists and
  is theirs is what `FlightInv` says, and that a waiter is not given an object that
  was never allocated needs both.
* `ImplementsSingleFlight`: every step maps to a step of `SingleFlight` or to a
  stutter under the mapping the run checks.  A crash maps to its `Restart`, which
  closes every flight and forgets every answer.
* `QuietDeletesStay`: `DeleteInv` adds that no task stands where it would still write
  to a session that was deleted quietly, and that no title generation works for it:
  nobody loads, creates or saves it, as each of these begins by finding a row or a cached
  object, and a generation is started by a call that saved.
* `OneCopyStaysTrue`, in three layers.  `HandsInv` says who holds which object: an
  object belongs to one session, and while a session has had one loaded copy its
  callers hold that one.  `RowInv` says that a session with a copy has its row, and
  what is stored of one without a copy is still on its way from its creators.
  `AgreeInv` says that a history about to be installed agrees with the table as an
  installed one does, and that a message is in the copy before it goes to the table.

**`TurnLifecycleProofs`**, from `TurnAssumption`.  For `RacingSpec`, in which the object
of a session may be replaced under its turns:
* `TypeCorrect`, with the strengthening that a turn that saves has saved fewer
  messages than it has.
* `TokensCleared`: `TokenInv` says that a turn's token lies in the object the turn
  holds and nowhere else, so that clearing that one object is enough.
* `TurnsStayInOrder`: `CountInv` says that what is stored of a turn goes up to what it
  has counted, and that the last counted message is stored while it works.

For `Spec`, with one object between restarts:
* `RunsOneAtATime`: as long as there is one object, its turns run one at a time.  The
  invariant `LockInv` says that there is one object, that a turn between `Lock` and
  the end is the one the lock names, and that a token is in the object only for such a
  turn or for one that has ended.  *Racing* of section 4 shows that the assumption of one
  object is needed.
* `StopsCorrect`: the same invariant; a turn that waits for the lock has left no
  token.
* `TurnsStayWhole`: `RowsInv` adds that the rows of a turn are one block, that a turn
  with nothing saved has no row, and that the last row is that of the turn which saves
  under the lock.
* `RuntimeSeesPast`: `HistoryInv` says that the history in memory recalls the whole
  table (`Recalls`: every row once, in order), and what its last entries are while a
  turn has pushed a message and not yet saved it.  A failed save leaves a message in
  memory that the table never gets, which is why it is recall and not equality.

**`PushCenterProofs`**, from `PushCenterAssumption`.
* `TypesHold`: types are not inductive without `Fits`, which ties the place of a task
  to its local variables (a handler that has begun has a request, a peer about to be
  dropped was connected).
* `EventsInOrder`: `OrderInv` says for each chat that turn, channel, forwarder and
  handler are in step (`InStep`), and for each client that what it was sent is less
  than every event somebody may still send it (`Sent`).  A broadcast reads its targets
  in one step and sends in later ones, so who may still be sent an event depends on how
  far it is (`Unsent`).
* `WatchersServed`: `WatchInv` says that an owed event is in the channel, or in the hands
  of a forwarder that has not read its targets or has the watcher among them
  (`Coming`), and that only closed connections are ever unregistered (`StaleGone`).

**`SessionControlProofs`**, from `SessionControlAssumption` and `ActorAssumption` (no
caller has the name of a generation task).  One invariant, `SavedInv`, holds what the
two theorems need, because its parts need each other:
* `WorkInv`: one actor at most works on a title, and generations are numbered.
* `CopyInv`, `CloneInv`: a copy of the title is one the object once had, versions only
  grow, and the clones that wait to be written are listed once each in their order.
* `SaveInv`: the latest clone, or the row when there is none, is what the object holds,
  or an actor is on its way to take a later one; the same for title and name.  With
  `CountInv` this gives `SavesKeepTheRow`, that is `RowKept`.
* `NameInv`: whoever could still name the session has the present name, and every
  saved state that has a name has the attempt it came from.  The second half is what
  keeps a restart from asking for a second title; with it `NamesAreKept`, an action
  property.

**`SessionTreeProofs`**, from `SessionTreeAssumption`, for any number of sub-agents that
call each other to any depth, any clients, deletions, reads and restarts.
`TreeStaysKept` is `TreeKept`, which speaks of what is there when nothing runs (but for the
chains); its inductive invariant `IInv` says what is there meanwhile:
* `TypeInv`: a parent was made before its child, an object lists a child once, and each
  place of a call has the local variables it needs.  `ChildRows` is a choice of an ordered
  sequence; that there is one is the lemma `Listable`, by induction.
* `CallInv`: no two sub-agents have one child, a sub-agent that works for a session
  another one made was called by that one, which waits, and nothing is below a child its
  parent does not list yet.  `Drop` keeps it because all that is below a dropped call is
  dropped with it.
* `ChainInv`: a chain that a row or a call carries is the way along the parents (`Walk`, a
  recursive function over ids that exists because parents are older).  Parents are
  never changed, so the chain stays true when an ancestor is deleted.
* `MemInv`: a row without an object is of a session that is being saved, or of one that no
  sub-agent speaks of any more.  So whoever lists a child in its parent finds the
  parent's object if there is one, and an object that is loaded later reads the row of
  the child.
* `ListInv`: unless a call was dropped while it made a child (`torn`), a child with a row is
  in the list of its parent's object or about to be.
* `WholeInv`: unless a session was made or stored during a deletion (`overlapped`), every
  row has its parent's row, an object without a row is about to be evicted, and a
  deletion has found every child of what it has found, or still has the parent on its
  stack.
* `BornInv`: an object lists children of its session alone.
* `AloneInv`: while the ids that have been given out are those of the moment a client began
  to read alone, no sub-agent has a child and rows are only deleted; if none was, every
  object has its row.
* `ReadInv`: under the same sessions and rows, what a client has found and what its stack
  holds explore the tree: nothing is in both or twice, each node's depth is what is
  left of it, and the children of what was found are in one of them.
`ReadsTheTree` is `ReadIsTree`: with an empty stack, `ReadInv` leaves no session below the
root within the depth unfound (`AllExplored`, by induction over the ids).  The premise of
`ReadIsTree` speaks of the two ends of a read alone; that nothing in between can have
changed a row and changed it back is `AloneInv`.
The exceptions are real: after the first, the tree that is read lacks the child until a
restart; the second is `NoOrphans` of section 6, which *orphans* of section 4 reaches.

**`EngineProofs`**, from `EngineAssumption` (the assumptions of its four parts), for any
replies of a provider, budgets and thresholds, any calls and capacities of the channels,
any callers and noise of a server. A step of `Engine` is one of its part and leaves the
others alone, so `EngineInv` is the conjunction of one invariant per part, each
inductive by itself.
* `OwnAnswers` is `OwnAnswer`.  `McpInv`: what is on its way names the request it answers
  (`McpOwn`), a caller waits for a number that was given out (`McpTyped`), and
  one caller speaks to the server until it is greeted (`McpAlone`), which
  `GreetedFirst` needs: the request of the greeting is number 1 because nobody else
  could take a number.
* `AnswersSettle` is `AnswerSettles`, `LogsComeFirst` is `LogsBeforeEnd` of `TurnEvents`.
  `EventsInv`: while the client listens, an event that was sent is in the hands of one of the
  tasks behind its channel or was received, and a task ends when all before it have
  (`Delivered`); when the turn is over no call runs, and the messages of a sub-agent are
  saved when what it said was passed on (`Settled`); and a step is `Stored` as far as the
  recorder has got with the two events of its call, which stay in their order.
* `ConversationsWhole` is `ConversationWhole`.  `Working`: while tools run, the reply they
  belong to is the last message and each of its calls runs or has one result; so
  the results, sorted by their calls, answer the reply one to one (`Ordered`).
  `Followed`: results follow their calls in both lists (`Chain`), and the one is the other
  without the questions to continue (`Remembered`).  `Executed`: a call was executed exactly if a
  result says so or it is in work.
* `GuardHolds` is `GuardEnds`.  `Judging`: over the calls of all replies in a row, those of
  the reply in work included, `duplicates` is the length of the `Streak` of
  signatures that ends with the last; the recursive function that counts is unfolded by
  `Counted` and followed by induction in `GuardJudges`.  `Stalling`: `stalled` is at
  least the number of rounds since any from which all are equal up to the last one compared.
  It takes `Numbered` (the replies of the messages are those of the iterations, each
  once), because `StallsEnd` finds a round by its number.  A reply that was cut or has no
  calls interrupts the rounds although the guard never sees it: it ends the row of full
  rounds that `StallsEnd` is about.

*Orchestrations* (`PlanAssumption`), for every set of agents, stages and plans: a model
writes them, so nothing is assumed of their order, ids, names or dependencies but that
they are finite, and that a shorthand plan is what the tool makes. One invariant,
`OrchestrationInv`, for the engine with a token (`Spec`) and as a turn calls it
(`ToolSpec`); its parts belong to the phases of the engine, and a step from one phase to
the next turns one part into another.
* `OrderInv`, while sorting: the number of a stage is that of its dependencies that are
  not placed (`Degrees`), and the queue holds just the stages with none.  When the queue
  is empty, the stages that are left over wait for each other; so a plan is refused
  exactly when it is malformed or cyclic (`SortedInv`, whatever order the queue began in).
* `LoopInv`, while stages run: a stage behind the loop was a success as long as nothing
  failed, and every agent's result is `Accounted` for by its stage; `ParallelInv` and
  `SerialInv` say the same of results that are still gathered.  In a parallel stage a
  pending agent that is not in the JoinSet has panicked, which is why a cancellation may
  fill its result in, and why one that panics without a cancellation has none.
* `ReviewInv`, during the review: every agent has the result of its last execution, but
  the one that is being retried; an agent in the list has retries left.
* `EndInv`: what was reported stays true.

With `StopInv` (a step that starts agents after the stop is the last) this gives
`OrchestrationEarnsItsResults`, that is `ResultsEarned`; `ToolResults` is the same
without the stop, which does not reach a tool.  `StagesWait` and `ToolStagesWait` prove
the action property `AfterDependencies`.  That a blocked stage is never met before a
failure is a lemma (`SkipStep`): the order of the stages makes `Blocked` follow from it.

**`HostProofs`**, from `ToolRegistryAssumption`, `ToolsAssumption` and `HostAssumption`: one
inductive invariant for each part of `Tools` and each of four parts of `Hosting`.

Of `Tools`, for a session and its child, any tools, tasks, files, contents and outputs:
* `OwnToolsHold` is `OwnTools`, `LoadedAreOffered` the action property `LoadedIsOffered`.
  `RegistryInv`: what a session was offered it was told or is always on, and as long as it
  exists what it was told is on (`OfferedTold`); a call that runs was offered and is still
  there (`CallsOffered`); a deleted session has no turn (`Released`).
* `TasksAlwaysAgree` is `TasksAgree`; `TasksStartFree` is the action property `StartsFree` of
  `TaskStore`.  `TasksInv`: whoever was said to wait is blocked by whom it waits for until
  that one is completed, and a status is told or a call has it still to tell.
* `FilesAreRead` is `FilesRead`.  `FilesInv` is about calls between their two steps: a file
  that is marked as read has been answered for, has failed, or a Read of it is at work
  (`Noted`), and who is about to write a file that the turn found has found the mark.  The
  lines a Read is about to show or withhold are those the file had when it was read, and
  have them still if no call has written it (`Shows`, `SeenAt`); and a range of the turn
  was shown line by line (`RangesSeen`), which is why only after a write can a repeat
  withhold what was never shown.
* `OutputIsTold` is `OutputTold`.  `CommandInv`: what was collected, the partial line and
  the pipe follow each other in the order of writing (`InTurn`), and what was collected and
  is no report of a read error was logged or is pending, in the same order (`Matches`).
  What the answer has is the front of what was collected (`ShownIs`), so the answer
  leaves out nothing of the log before what it shows.

Of `Hosting`, for any files, models, providers, clients, databases, delegations and runs:
* `ConfigurationsBoot` is `ValidConfigBoots`.  Its heart is not an invariant but what the
  operators do with any file of any old form: a loaded file is settled and can be
  started (`LoadedBoots`), loads as itself (`ReadsBack`) and stays so under every edit of a
  client (`EditsFine`).  `ConfigurationInv` says that the configuration and every client's copy
  are of that kind.
* `ProvidersAreOwn` is the action property `OwnProvider`; the override compares the
  provider whatever the configuration is (`ProviderChecked`), so no invariant is needed.
* `SchemasAreKept` is `SchemaKept`.  `MigrationInv`: a start that has come to a migration has
  what those before it are for (`Ready`), whichever of them an earlier start had done,
  since every table is empty or of a form the migrations know (`Formed`).
* `DelegationsRun` is `RunsAsAsked`.  `DelegationInv` follows a delegation from the request:
  the agent it runs as (`Chosen`), what it was told so far (`Instructed`) and that its
  registry has all that was seeded when it was asked for (`Equipped`).
* `RecordsAreTrue` is `RecordsTrue`.  `RecordsInv`: a walk has read runs in the order of the list,
  and what there was when it began and is not read comes after the last one read
  (`Walking`), so a list that has grown at its front is cut where the last page ended;
  and each stage of a turn says where its usage is (`Counting`).  That the list is the rows
  in order, each once, is the lemma `Listing`: the place of a row is the number of rows not
  after it, and a map from `n` rows to `n` places that never repeats one takes them all.

Two of these attempts changed the model.  In `MigrateTrimmer` two guards of a CASE
overlapped, so what it did was not determined; it is now the order of the code's
conditions.  `ListRuns` was a sort that the prover cannot open; it is now the
order the sort establishes.

**`Recursion`** has what those proofs need of recursive functions and of sequences:
induction over the numbers, taken from `WFMin` of the library with a set in the place of
a predicate (`SetInduction`), that a function defined by steps exists and takes them
(`Recursion`), the set of a sequence's members under `Append`, `\o` and `FlattenSeq`,
that `FlattenSeq` of one more sequence ends with it (`FlattenAppend`), and that a rising
function from `1 .. n` to itself is the identity (`Increasing`).
`Only`, which keeps some members of a sequence in their order, is a recursive function in
`Orchestration` for that reason.

Model-checked only:
* liveness and everything about ENABLED, which is out of the prover's reach: `CallsReturn`,
  `TurnsEnd`, `ChatsEnd`, `TitleSettles`, and of `Engine` `EventsArrive` and `EachEnds`;
  `LogsComeFirst` is the part of `EventsArrive` that is not liveness.
* `HeardIsMeant` and `RequestIsTurn`.  What the decoders of `ProviderStream` and the operators
  of `Skills`, `PromptAssembly` and `ModelRequest` compute is recursion over data, and what
  they compute for every input cannot be proved here; it is checked on the enumerated
  answers, cut at every byte, and worlds.

## 6. Where the code and its documents differ

With a run that shows it (quotes and lines in `PROJECT.json`):
* `session_lost`: two cold loads of a session each install an object, and an
  acknowledged message stays in the one that is replaced.
* `push_center_refresh`: the forwarder of a chat gives up with the connection that
  asked for it, so a refreshed page is sent nothing more of the turn.
* `configuration_binding`: the model name of an agent's llm is looked up as an id of an
  llm first, so where one llm's id is the model of another, a turn runs on the model and
  with the settings of an llm its agent was not bound to.
* `delegation_skill`: a delegation to a missing skill is answered as a success
  without text.

The following statements are written as properties beside the module, and fail
under the named configuration, or under the composite's one with that part and that
property:

| property | configuration | what the document says | what the code does |
|---|---|---|---|
| `OneAtATime` (TurnLifecycle) | *racing* (section 4) | `docs/old/2026-04-23-deep-layering...:239`: turns of a session are serial | `chat_lock` belongs to the object; with two objects of a session its turns overlap |
| `RefusedRepeats` (AgentRuntime) | part `runtime` | `loop_guard.rs:94`: "the exact same tool call" | the signature of a Write or Edit leaves its content out, so the third edit in a row of one file is refused |
| `StopEndsStarts` (Orchestration, `ToolSpec`) | part `orchestration`, `ToolSpec` | `docs/test/2026-05-06...test-05-cancel-inflight.md:4` | a tool is given no cancellation token (`tool_exec.rs:158`) |
| `PendingInFlight` (SessionControl) | `SessionControlLost.cfg`, as its comment says | `docs/2026-05-26-session-auto-title-llm...:15` | a title stays pending after a restart or without a task |
| `TitleInMemoryOnly` (SessionControl) | `SessionControlLost.cfg`, as its comment says | `control.rs:100`: the title state is not persisted to SQLite, a state in memory only | it is saved with the control state (`persist.rs:89`), loaded again (`queries.rs:272`) and bounds the attempts over restarts |
| `UpdateReachesRow` (SessionControl) | `SessionControlLost.cfg` | `docs/old/2026-05-04-project-management-enhancement...:21` | two objects of a session: the row keeps one of two updates |
| `NoOrphans` (SessionTree) | *orphans* (section 4) | `app/application.rs:421` | a child created while its tree is deleted keeps its row |
| `FailsForMissingRoot` (SessionTree) | *orphans* (section 4) | `app/application.rs:458` | the root's object answers although its row is gone |
| `CompletingFrees` (TaskStore) | part `tasks` | `docs/old/tool-system-enhancement.md:390` | an update that fails half way, or changes twice, leaves the task blocked (`task.rs:166`) |
| `NoResidue` (ToolRegistry) | part `registry` | `docs/2026-05-17...plan-3.md:33` | a child deleted with its tree keeps its activations |
| `AnsweredMeanwhile` (TurnEvents) | part `events` | `bash/mod.rs:131`: "return immediately" | a background command holds the turn's channel, and the chat is answered when it has exited |
| `SubTurnSaved` (TurnEvents) | part `events` | `tool/builtin/agent.rs:832` | the tool timeout can drop a sub-agent between its turn and the storing of its messages |
| `ReadBeforeWritten` (FileTools) | part `files` | `write.rs:60`: "Requires the file to have been read first if it exists" | the mark is set before the disk is read (`read.rs:257`), so a Read that fails, or is still at work, allows the write |
| `WithheldWasShown` (FileTools) | part `files` | `read.rs:133`: "has already been returned once in this turn" | the range was, the lines it has since an edit or a write were not |
| `EditsKept` (FileTools) | part `files` | `edit.rs:70`: "Performs exact string replacements in files" | of two edits of one reply the later writes over the earlier (`edit.rs:172`) |
| `OutputWhole` (CommandOutput) | part `command` | `bash/mod.rs:123`: "Returns stdout, stderr and exit code." | a `read_until` that loses the `select!` drops a partial line (`mod.rs:228`) |
| `SectionsOnce` (TurnPreparation) | part `turn` | `agent_catalog.rs:18` | a text that a template and a section both carry is sent twice |
| `SnapshotCurrent` (Configuration) | part `configuration` | `docs/old/2026-05-15-...plan-4.md:128` | `config.get` answers the configuration of the start after an update; a client that edits it reverts the update |
| `TimesKept` (Migrations) | part `migration` | `sqlite_manager.rs:205` | a migration that ended between adding `created_at` and filling it is never filled (`:347`) |

Seen while modelling, in what the models do or leave out on purpose:

* *Sessions.*  Two creations under one id both pass the check and store two initial
  messages (`write.rs:138`, which calls itself idempotent in the comment at line 128).
  A loader whose load fails leaves its entry in `loading`; its waiters and all later
  cold loads of the session wait for ever (`queries.rs:170`), so `CallsReturn` is
  stated up to a failed statement.  An append that runs while its session is deleted, or
  the title generation it has left behind, writes the row again (`write.rs:218`,
  `title.rs:123`), so `QuietDeleteIsFinal` is about deletions with neither at work.  A sub-agent's own AgentTool has no services, so
  deeper trees come from hosts that create children themselves.
* *Turns.*  A `?` after `create_run` leaves the run recorded as running
  (`conversation_service.rs:370`), and nothing settles it after a restart.  A stop
  between the lock and `SetToken` finds no token, answers Ok and is lost (`:202`).
  `run.control(stop)` writes "stopped" and the turn it stops overwrites it with
  "success" (`:640`); it marks any run with any action it does not know, and cancels
  the token of whichever turn runs.
* *Events.*  Overlapping subscriptions of one connection leave its peer in the
  audience of two sessions (`push_center.rs:32`); a request handled after the
  connection closed registers the peer again (`lib.rs:48`), so `MapsAgree` takes
  clients that wait for each answer.  `run_steps.step_id` is the provider's id of the
  call and a primary key over all turns: where a provider reuses ids, the second
  step's creation is ignored and its end updates the first.  The exit of a background
  command reaches clients as a log without an id.
* *The loop.*  A reply cut in the middle of a tool call keeps the call without a
  result in what the model is sent and in what is stored; the question that follows it is
  not stored (`tool_exec.rs:504`), so the next turn is sent a call nobody answers.
  `ConversationWhole` says so.  The stall guard does not compare rounds with a refused call
  nor cut replies, and does not start again after one, so rounds that end a turn need
  not be consecutive (`:560`); a loop of one and the same call never stalls.  A stream
  that breaks in a later iteration drops the messages of tools that were executed
  (`:364`).
* *Orchestration.*  A plan without review is answered `overallSuccess: false` while
  its event says true (`orchestrate_task.rs:206`); a shorthand call is answered as no
  error although its agent failed (`:182`), and its plan is not validated.  Two tasks
  that panic share one result (`scheduler.rs:174`); after a cancellation during a
  retry the reviewer is asked once more (`mod.rs:474`).  A verdict behind another
  object in the reviewer's answer counts as approval (`reviewer.rs:74`).
* *Tools.*  A deferred tool is "not visible" to ToolInfo until it is loaded, so its
  state "deferred" is never shown while a request has tools.  Reading an empty file
  from line two panics (`read.rs:83`); a limit of zero makes no progress.  A grandchild that holds the pipes keeps a command's call
  until the timeout, and a dropped call does not kill the child.
* *MCP.*  Callers are not told when the server's output ends; a failed write or a
  dropped call leaves its pending entry; a failed handshake leaves the child running.
* *Prompts.*  A display name can take the place of another skill's slug; `/skill-x`
  with arguments is no match; one broken `skill.toml` hides every skill of its
  directory; a duplicate slug stops the start; a trimmed history may begin with
  results whose call was cut; workflow stages are never loaded.
* *Providers.*  Deltas of parallel calls are put together wrongly; a usage chunk with
  choices loses its content (`openai_compat/mod.rs:287`); the usage
  Anthropic sends with `message_start` and `message_delta` is ignored (`anthropic.rs:296`); a connection closed early is taken for a complete answer.
* *Configuration.*  An accepted update is not validated and may be written to another
  file than was loaded; two updates interleave; a key from the environment and the
  address of the command line are persisted; a sub-agent uses its agent's copied
  model configuration (`agent.rs:249`); an override stores a model's name, so the
  parameters of its llm are lost.
* *Migrations.*  An audit row without a detail makes every start fail; all old
  messages share the empty `message_id`.
* *Delegation.*  A sub-agent cannot delegate: it is answered with an error, or with
  an empty success when the skill is missing; warnings of `run_subagent` are dropped.
* *Usage.*  A limit of zero answers an empty page that has more; an unknown
  `before_turn_id` starts from the first page again.

## 7. What is not modelled

* *Left out.*  External tools, voice: one call of a command or a service, without
  state.  Protocol: wire types.  Programs: argument parsing and terminal output.
  Workspace queries but for usage and `control_run`: reads of one table each, and one
  row that answers a permission request.  The desktop client and shell are programs of
  their own; what they send is in the requests of `PushCenter`, and a restart of the
  gateway is `Crash`.
* *Within the modelled parts.*  SQLite is a set of rows whose statements are atomic
  and which survives a restart; two programs that start on one data directory are not
  considered.  Message texts, usage counts, traces, and the wording of errors are
  abstracted away.  The queue of a connection does not fill (`PushCenter`).  Events of
  an orchestration are sent with `try_send` and may be lost; no property is about
  them.  Web search and fetch, the shell and its environment, how the bytes of a command
  are decoded to text, the HTTP request to a provider, the health probe and the touch of a
  session are not modelled; nothing in `src/` lets a user rename one.  The histories of
  `TurnPreparation`'s worlds hold no cut reply with unanswered calls.  Old restore states
  without a session are not kept by their migration and are excepted; two of one session,
  whose copies conflict, are not among the databases found.
* *Hazards without a property*, beside those in `PROJECT.json`: two creations under
  one id (`write.rs:138`); a late request that registers a closed peer (`lib.rs:48`);
  a client that stops reading holds up every broadcast (`push_center.rs:84`); a run
  left running (`conversation_service.rs:370`); a request of the desktop client that
  is answered after its timeout (`gateway-client.ts:578`); an agent switch while a turn
  runs (`application.rs:491`); the pending entry of a failed write
  (`mcp/transport.rs:77`); a failed save between marking a title pending and
  spawning its task leaves it pending (`title.rs:57`).
