# Verification of claude-code-transparent-router

TLA+ models of the router in `src/`, checked with TLC on small instances, and
theorems about them checked with TLAPS. Paths and line numbers refer to this
repository; Rust files are named relative to `src/src/`.

## 1. The system

The router is a loopback HTTP daemon between Claude Code and several providers.
A supervisor process owns the listening socket and starts worker processes; a
worker serves requests, translates between API dialects and streams replies.

| Part | State it keeps | Operations | What makes it correct |
| --- | --- | --- | --- |
| Responses translator (`providers/responses/stream.rs`) | open blocks, next index, stop reason, what was said | one provider event at a time; finish, end_round, close_after_error | whatever the provider sends, the client gets one well-formed message |
| Continuation driver (`providers/responses/mod.rs`, `continuation.rs`) | round number, text so far | read a round, ask again, splice or close | rounds end, tool calls are neither repeated nor hidden, a spliced turn is closed |
| Request tracking (`idle.rs`) | in-flight count, permits, drain flag, clock, notifications | track, Guard's drop, Drain::begin, three waiters | counts and permits are exact, no wake-up is lost, idle is noticed and not early |
| Supervisor and workers (`main.rs`) | current worker, draining ones, spec, successor | reload, handover, replacement, deadline, worker commands | one worker serves, none is forgotten, failure at any step leaves or restores service |
| Chat completions translator (`providers/openai_compat/stream.rs`) | one open block | as the first, for OpenAI chunks | as the first, one block at a time |
| Tokens and credentials (`oauth/`, `credentials.rs`, `admin.rs`) | one file per provider and user | refresh before use, login, logout (tokens of OAuth providers); an API key set and cleared, which is not modelled | a stored login stays usable, a logout holds, tokens stay with their account |
| Per-user configuration (`user_config.rs`, `config.rs`) | config and modification time per uid | get, reload | a changed file is noticed, a broken one does not stop service |
| Dispatch (`lib.rs`, `route.rs`, `compact.rs`) | the armed override | route, arm, take | an override lets one request through, models reach their provider |
| Reminders (`continuation.rs`) | last reminded turn per conversation | should_remind | at most one reminder per interval |
| SSH tunnels (`ssh_proxy.rs`) | child process, port, client per provider | start, reuse, replace, drop | one live tunnel per provider, none leaked |
| Login dialogue (`oauth/login.rs`, `tui/`) | mode, pending login | start, redirect, poll, cancel | a cancelled login leaves nothing behind |
| Peer filter (`peer.rs`) | none | accept or close a connection | fails closed |
| Conversions (`content.rs`, `system_prompt.rs`, `providers/*/request.rs`, `response.rs`) | none; the conversation comes back with every request | sanitise, prepend, convert a request, convert a reply in each way it is delivered | what was made of a reply can be sent to any backend, nothing of the conversation is lost, a prompt's prefix is stable, the client is told how the reply ended |
| Catalog, presets, headers | none | pure functions | tested by tables |

The supervisor talks to a worker over a socket pair (one line each way:
`drain`, `serve`, `reload`) and to a reload client over a control socket; a
worker's supervisor thread and its axum tasks share the drain flag and the
activity counters; requests share the override, the reminder tracker, the
configuration caches, the tunnels and the files under the state directory.
A stream's generator owns its translator alone: what it meets is not
concurrency but the order of the provider's events and of failures. Claude Code
keeps the only copy of a conversation and replays it in every request, so the
conversions are coupled over time: the reply of one provider, as it was
converted, is part of what the next one is sent.

The hard parts are therefore: the order of provider events and the ways a
spliced turn fails; the atomic accesses of `idle.rs` between threads and a
request dropped at an await; handover between processes of which each can die;
files that several requests read, write and delete without a lock; and conversations
that go from one dialect to another and back. They are
listed with their lines in `PROJECT.json` under `hazards`.

## 2. Modules

| Module | Models | State and actions |
| --- | --- | --- |
| `AnthropicWire` | `sse/anthropic.rs` and the client that reads it | one operator per frame builder; `phase = "broken"` after a frame the stream contract does not allow |
| `AssistantTurn` | abstract: what a streamed reply promises | a message is opened, its blocks announced in order and stopped, closed once |
| `ResponsesTurn` | `stream.rs`, `continued_stream`, `is_done` | `tr` is the `Translator` with the frames sent; one action per event of `on_line`, one per way a round ends |
| `OpenAIStream` | `openai_compat/stream.rs` | `tr` is its `Translator` with the frames sent; one action per kind of chunk and per end of the stream |
| `Requests` | `idle.rs` | `stage` is where each request is in `track`; one action per atomic access another thread can tell apart |
| `Handover` | `main.rs` 183-546 | `pc` is where `supervise` is; a command and its reply are one step; `proc` is what each worker process does |
| `Tokens` | `oauth_auth`, `refresh`, `TokenStore`, `set_tokens`, `clear_credential` | `file` is one user's token file with one provider; a save is two steps, a read one; the provider accepts the last refresh token it gave |
| `Routing` | `Config::load`'s checks, `resolve`, and the names that `catalog.rs`, `agent_schema.rs` and `admin.rs` offer | pure functions of `config`, an accepted file; `routed` is the request routed last |
| `UserConfigs` | `config_for`, `UserConfigs::get`, reload | `cache` is what `UserConfigs` keeps; one action per access to the file or the cache |
| `Dispatch` | the override in `dispatch`, `should_remind` | `armed` and `seen` are the code's; a request's content is its turn and whether it is due |
| `Tunnel` | `ssh_proxy.rs` | `lock` and `running` are `SshTunnel.state`; the ssh processes, the ports and other programs act between any two steps |
| `Login` | `oauth/login.rs`, the dialogues of `tui/mod.rs`, `run_auth_command` | `mode`, `login` and `redirect` are `App`'s; `stage` is where each login's thread is in `run_login` |
| `WorkerRequests` | the requests under way in a worker, and what none of them has | the constants of `UserConfigs`, `Dispatch` and `Tunnel` |
| `Messages` | an Anthropic conversation; `content.rs`, `system_prompt.rs`, and what `continuation.rs` and `compact.rs` read off it | operators |
| `ToProvider` | `to_responses`, `shape_body`, `set_assistant_prefill`, `to_openai` | operators, one per function |
| `FromProvider` | `to_anthropic` of both dialects, `from_event_stream`, and the content and stop reason that the two translators end up with | operators, one per way of delivery |
| `Conversation` | `messages_with`, `forward` and the two other providers' `messages`, composed with the three modules above and with Claude Code | `history` is what Claude Code holds, `body` what the backend was sent; one action per request, per reply or round, and per way to fail |
| `MC*` | constants for TLC, and sentences of the sources that the code does not keep | |
| `*_proof` | theorems | |

A definition standing before its namesake (`EnsureAnyKind` before `Ensure`, or
`LastTextOf` before `AssistantText`) is a mistake the code could have had. Putting it in place of its namesake violates
the property that `PROJECT.json` pairs with it under `mutants`, so no checked
property holds merely by the shape of the model.

`ResponsesTurn` keeps text as the class `is_done` can tell apart (empty, blank,
the phrase alone, other). Reasoning text, ids, usage and tool arguments are left
out; an argument fragment only has to reach an open block. `Requests` counts
time in fractions of a second because `touch` keeps whole seconds: that makes
`idle_for` up to a second too large, which `IdleIsNotEarly` allows for. In
`Handover` a child that does not become ready is no process, and a killed worker
is waited for in the round that killed it, one loop earlier than in the code. In
`Tokens` a token is its login's name and a serial number, and time is only which
access tokens are close to expiry. In `Routing` a name is the sequence of the tokens
`resolve` tells apart: prefix, slash, marker and what lies between. In `UserConfigs` a modification time is a number that an edit may
repeat, and in `Tunnel` connecting to a port within 50 ms may fail whoever
listens. In `Login` a redirect is good or not, and a killed process may leave its
message to the daemon behind. In the modules of `Conversation` a text is a
sequence of fragments, each written once, so that lost, doubled and reordered
words show; white space, the done phrase and the wording of a compaction are
fragments of their own. The parts of a content array are run together, a call's
arguments are a fragment, and an image's data too; redacted thinking, which `content.rs` lets through if it has its
data and drops otherwise, is not among the blocks; tools, `tool_choice`, sampling,
effort and usage are left out, as nothing later depends on them. A text of one
fragment is short enough to be a stall. The armed override of `compact.rs` is in
`Dispatch` only: in `Conversation` a request is a compaction by its wording. A reply is taken as a whole: in which order its events may come
is the matter of `ResponsesTurn` and `OpenAIStream`.

## 3. Runs

| Run | Instance | Shows |
| --- | --- | --- |
| `ResponsesTurn` | 2 output items, 3 blocks, 2 continuations | `ToolCallsAreReported`, `EndedTurnsAreTerminated`, `NoAskAfterToolCall`, `TurnEnds`, and that the turn implements `AssistantTurn` |
| `OpenAIStream` | 2 calls, 4 blocks, any order of their chunks | `ArgumentsReachTheirCall`, and that the turn implements `AssistantTurn` |
| `Requests` | 2 requests, 1 permit, timeout of 2 instants, all waiters | `CountIsBounded`, `PermitsAreExact`, `IdleIsNotEarly`, `NoWakeUpIsLost`, `IdleIsNoticed` |
| `Handover` | 3 processes, 2 binaries, 2 config files and none named, 1 response each, 1 crash | `OneWorkerServes`, `NoOrphans`, `SpecIsLive`, `ResponsesAreNotCut`; requests answered, drains end, service returns, workers follow the supervisor |
| `Tokens` | 2 requests, 2 logins with 3 tokens each (one provider rotates refresh tokens), 1 crash | `AccountFollowsToken`, `StoredTokenIsLive`, `LoginStaysReadable`, `LastWordStands`, each up to the races it names |
| `Routing` | every accepted file of two models with names of six kinds, 48 requested names | `OfferedNamesRoute`, `RequestsGoWhereMeant` |
| `UserConfigs` | 2 requests, 1 user, 2 documents, 2 modification times, 1 reload | `ServedFromTheFile` |
| `Dispatch` | 2 requests, 3 conversations of which two share a key, 2 providers with intervals of 1 and 2, room for 1 conversation | `OverrideIsSpentOnce`, `RemindersArePaced`, `DueIsReminded` |
| `Tunnel` | 2 requests, 2 ports, 3 starts of ssh | `NoSshLeftBehind`, `ClientsLeadToTheirSsh`, `LockIsReleased` |
| `Login` | 2 logins, by interface or command, beside a provider with a key | `LaterLoginsStand`, `DialoguesAreTheUsers`, `PortIsFreed` |
| `Conversation` | 3 requests of one conversation to 5 backends (a Responses provider with continuation, one that always streams and has a compaction trigger, chat completions, an Anthropic-compatible one, Anthropic), 2 continuation rounds, 8 kinds of reply | `RequestsAreAccepted`, `NothingIsLost`, `PrefixIsStable`, `EndIsUnderstood` |
| `DonePhraseEndsTheTurn` | as `ResponsesTurn` | violated: the done phrase alone in its round does not end the turn |

The type invariants are proved (section 4) and not run.

Bounds. Two output items are enough for one to be open while the other opens,
closes or repeats; a third block lets an item be closed and opened again; with
two continuations one round lies between others. Two requests and one permit give
contention, and a busy worker in every waiter's window. Three processes are the
most the supervisor ever has at once (current, successor, draining); one crash
can hit any of them at any step, and an idle exit can add to it. Three tokens
of a login let one request use what another has replaced twice; two conversations
with one key and a third with another make the tracker both shared and full.
A binary that is asked for with either of two files and with none
lets a reload without a file follow a start from one and a reload of the other.
Two documents and two times are what an unnoticed edit takes. Three starts of
ssh allow one that died, its replacement, and another after a killed worker; two
ports one that is another's. Two logins are an earlier and a later one.
Two answered requests and a third that is only looked at are what it takes for
one provider's reply to be converted, answered with tool results or new words by
way of a second provider, and sent to a third; two rounds let a prefill be
replaced; the replies have calls with and without ids, two at once, every order of
reasoning and text that the deliveries treat differently, blank, cut short,
failed and empty ones. A conversation ends after its third request, so this run
does not check for deadlock.

Fairness. `ResponsesTurn`: a provider's response ends and a request is answered
or fails (there is no read timeout in the code, so this is an assumption about
providers); nothing makes more events arrive. `Requests`: threads run and time
passes between two looks of the idle task; nothing makes clients send, handlers
answer or bodies end. `Handover`: the supervisor and the workers run, the 120
seconds of `DRAIN_TIMEOUT` pass, a control client sends its line (the supervisor
blocks on it). That responses end and that a replacement tried again and again
starts (`Benign`) is only assumed by `ServiceReturns` and `WorkersFollow`, as
antecedent. `Tunnel`: the thread that holds the lock runs and its ten seconds
pass; nothing is assumed of ssh, nor that a thread waiting for the lock gets it,
which the operating system's mutex does not promise. `Login`: a login's thread
runs, its five minutes pass, and the provider and the daemon answer or break the
connection (the exchange has no timeout of its own); no redirect need come, no
key be pressed. `Tokens`, `Routing`, `UserConfigs`, `Dispatch` and `Conversation` state
safety only and assume no fairness.

## 4. Proofs

`ResponsesTurn_proof` proves, for every set of output indices and every bound,
the type invariant and all safety properties of `ResponsesTurn`, and that it
implements `AssistantTurn`. The client's view is not determined by the
translator's fields, so `WireContract` is not inductive by itself. The inductive
invariant says that both describe the same message: the blocks the translator
holds open are exactly those the client holds open, of the same kinds and with
distinct indices below `nextIndex`, which is the number of blocks announced; no
open Agent block has had its input; the phases agree with `started` and `done`;
`madeToolCall` says whether any announced block is a tool's. Each method of the
translator preserves it (one lemma per method), each action is a few methods,
and seven lemmas say when the client accepts a frame. `WireContract`, that it
accepts all of them, is proved for both translators and needs no run: a broken
client view is no state of `AssistantTurn` either, which the runs check.

`OpenAIStream_proof` does the same for the other translator, whose invariant
is simpler: at most one block is open, the last one announced.

`Lifecycle_proof` proves the safety properties of `Requests` for every finite set
of requests, every limit, timeout and resolution of time. `CountIsBounded`
becomes inductive once it says how much the count exceeds the requests at work
(by the abandoned ones exactly). `IdleIsNotEarly` needs two more facts: while
no request can still touch the clock, `age` is at most `since` plus the fraction
that `touch` cuts off; and a request that enters between the two reads of the
idle task has set the clock to the current second.

The same module proves the safety properties of `Handover` for any number of
processes, binaries, responses and crashes. The invariant says that the current
worker, the one being activated and the draining ones are different processes
(`RolesAreApart`), that the request in hand is kept until its reply
(`RequestIsKept`), what a process may be doing given its role (`ProcessesFit`:
only the current worker or a confirmed successor admits requests, and what is
draining was told to), and what holds at each position of the supervisor
(`HandoverFits`). `SpecIsLive` is part of it. It is an equality and excepts no
state: the worker serves from the file of the spec or, when the last request
named none, from the file it was started with. What that leaves open is in
section 5.

`OAuth_proof` proves the four properties of `Tokens` for any number of requests,
logins, tokens and crashes. The invariant says what each request and each save
holds, given where it is; that the answer of a rotating provider is the only copy
of the token it accepts, so that losing it is the one way to a dead file; and
that nothing under way can reach the file once the last word is settled.

The same module proves the two safety properties of `Login` for any number of
logins and providers. A login holds the callback port exactly while its thread is
past `start` and not ended; logins take the port one after another, and the one
that holds it took it last; without the screen of a login the interface waits for
none, but for one whose URL did not come in time.

`Worker_proof` is about what the requests of a worker share. `Dispatch`: what the
tracker holds under a key is the turn of a conversation with that key, and a
conversation not forgotten is tracked at a turn not before its own last reminder.
Pacing and its converse follow, for any keys, intervals, limits and numbers of
requests. `UserConfigs`: every time in use is one the file had; what is cached, or
about to be, under the file's present time is the file's; what a request may find
under the time it read was in the file since it looked. The theorem assumes that
no modification time comes back, without which it does not hold (section 5).
`Tunnel`: the lock's holder is known from `TunnelTypeOK`; the invariant adds what it has
found or made where it is (`HolderFits`), and that the tunnel's port is its own
ssh's as long as that lives, and nobody else's while it is looked at, unless
another process was noticed (`PortIsOurs`). That no other ssh of the worker can
take the port follows from `NoSshLeftBehind`, so the two are proved together.


`Routing_proof`: whatever file is accepted, no two models of the configuration
share a name, because `validate` compares all names that `resolve` knows, so that
each offered name finds its own model and a requested one finds no other. The
catalogue is a concatenation over providers of concatenations over models;
what is in it is shown by induction on the number of parts, carried out as the
least element of a set of natural numbers.

`Conversation_proof` proves the type invariant, `PrefixIsStable` and
`EndIsUnderstood` for any set of backends and replies, any length of a reply and
any number of rounds and requests. The conversions are folds over messages, blocks
and reply items. The library's induction cannot be used (its theorems take an
operator as a parameter), so sequences have one of their own: a set that holds the
empty sequence and is closed under `Append` holds all of them
(`SequenceInduction`). From it follow what a fold is (`FoldOf`), that flattening,
selecting, sanitising and converting distribute over `\o`, and that a reply
becomes something with a call if and only if it has one, in all six deliveries.
`PrefixInv`: what a backend was last sent begins the conversion of `Settled`, the
messages that will be sent again whatever becomes of the present request (all, or
all but a compaction's instruction). `EndInv`: the rounds so far hold no call and
no thinking, and say what the model said unless there was reasoning; each verdict
is what its message says of itself; and the stop reason fits the last reply while
that is the last message, or may be again. The attempt corrected the model: a
compaction that is given up leaves the last reply, its stop reason and its end as
they were, which the model had overwritten, and `EndIsUnderstood` was false of it for
a reply that was cut short before.

`Telling_proof` proves `NothingIsLost` and `RequestsAreAccepted` for any
conversation, of any length. Both relate each result to a call in another message,
which was made of a provider's reply in one of six ways and is converted in one of
three. The argument has five parts.

- Reading. What a backend reads in a request is taken on tracks: the words, the
  calls and results, the user's side. Two requests that agree on a track, utterance
  by utterance, have the same events there, because what a result is about is
  decided by the calls before it. Each
  message, converted for the Responses API or for chat completions, agrees with the
  message itself on the tracks that API keeps; so does a conversation
  (`ConversationReads`), since reading and converting distribute over `\o`.
- Replying. Whatever a reply's items are, in each of the six deliveries its blocks
  say what the reply said, and its calls have ids that differ within the reply, so
  that a result finds its own (`RenderedSays`). An id may come back in a later
  reply: then the last call before a result is meant.
- Keeping (`TellInv`, `TellInvariance`). `Faithful`: the messages held tell what was
  said, on every track, and no words said are the instruction's, so that nothing but
  the instruction makes a request a compaction (and giving it up takes away the
  instruction and nothing else). While a turn is under way (`InTurn`), what was said
  since the request is what the blocks of the rounds so far say.
- Order (`OrderInv`). `Closed`: in what the messages exchange each result has a call
  of its id before it, each id has as many results as calls, an id that a provider
  gave is called once, and none is that of a call still to come; and the messages,
  converted for chat completions, have each message's answers right behind it. While
  the last reply's calls wait for their results, this holds of what stands before that
  reply, and their ids are new. During a request it holds of the whole conversation,
  and without the instruction of a compaction too.
- Bodies (`BodyInv`). What a backend is sent is the conversation, converted, a
  trigger, or the answer so far of a turn that is continued; neither of the last two
  is an exchange.

Counting calls in a selection of what is read and counting them in the items is the
same (`ItemsCount`), which carries the rules from the invariant to each API's own.
That the Messages API gets no unsigned thinking needs no invariant but the shape of
the messages: every request is sanitised first. `SelectSeq` is opaque to the provers,
so the model selects by concatenation (`Only`).

Liveness is checked by TLC only: it is out of the provers' reach. Every safety
property that a run checks is proved.

## 5. Other observations

The code also differs from what one might expect in these ways, which no run
reports as a violation.

Streams. An in-band error can be followed by the close of the same message; one
that is followed by a broken connection leaves a spliced turn without
`message_stop` (`responses/mod.rs:233`, against 159-163), which is why
`EndedTurnsAreTerminated` excepts it. A round that was cut off at `max_tokens` is
reported as `end_turn` when the next round is refused; arguments for an item whose
open block is text go to that text block; a continuation after a round of white
space only repeats the request; a streamed Agent call without arguments becomes
`{"raw": ""}` where the reply in one piece gives `{}`; a chat completion that makes
a tool call but says `stop` ends with `end_turn`.

Processes. A request whose future is dropped while its handler runs (the client
hung up, the handler panicked) stays in the in-flight count for ever, as `track`
makes the guard after the await (`idle.rs:151`, against 134-135); `CountIsBounded`
says that nothing else does. Such a worker is never idle, and drains until it is
killed. The successor is told to serve before the old accept loop has closed
(`main.rs:524`, 233-234). A supervised daemon never goes away when idle, since the
worker that exits is replaced (`main.rs:270`, against `src/nix/module.nix:325-326`).
A reload in place that names no config file empties the spec's (`main.rs:218-223`),
but the worker loads the file it was started with (`main.rs:526-535`): should it
exit, its replacement starts from the default file instead (`main.rs:272`), with no
request in between. `SpecIsLive` states this and that spec and worker differ in no
other way; the unit of `src/nix/home-manager.nix:644-645` names the file in both
commands, that of `src/nix/module.nix` in neither, so neither meets it. A reload's
idle timeout and per-user option wait for the next replacement too.

Tokens. A refresh under way at a login or logout overwrites or undoes it. A client
that hangs up during a refresh loses a rotated token. A provider that rotates only
at some refreshes can leave a spent token when two overlap. A 401 on a token
without expiry refreshes nothing, though `oauth/store.rs:23-25` says so. Logout
clears the directory of the command's own configuration, which need not be the
daemon's (`main.rs:559`, against `admin.rs:29-31`).

Conversations. Images inside a tool result do not reach a translated provider
(`tool_result_text`). A system message whose content is an array becomes the
user's in chat completions (`openai_compat/request.rs:107`), unlike one that is a
string. An assistant message of blocks without text and calls becomes one with
`content: null` and no calls. Reasoning shown as text stands beside the done phrase
in the replayed history and hides it, so that the reminder is repeated
(`EndIsUnderstood` excepts such turns); and a turn that properly ended on a phrase
of fewer words than `min_words` counts as a stall and prompts it too. Ids made up
for calls without one repeat in later replies. An empty streamed message, or an
item of an unknown kind, leaves an empty text block. A reply with status `failed`
is a successful `end_turn` when it is whole or assembled and an error when it is
streamed; one that was cut short with calls in it ends with `tool_use` when
assembled and with `max_tokens` otherwise. A compaction on a provider with
continuation and no protocol of its own is asked for more of its summary until
`max_rounds` (`responses/mod.rs:121`, though 118-120 speaks of plain turns).

Configuration. A file replaced by one with the same modification time is served
from the cache as long as the worker lives (`user_config.rs:43`, against line 32:
"re-read when the file has changed"); all files of the Nix store have one time, and
`src/nix/home-manager.nix:624` links the file there. A reload does not change `UserConfigs.fallback`. `known` and
`is_oauth` of the admin interface use the daemon's file even where each user has
one. A configuration file read while it is being written parses as one without
providers. A bare model id with a slash goes to Anthropic though the picker offers
it, and an id that ends in `[1m]` never matches: `Routing` excepts both. It also takes
no provider's name to contain a slash or to be the gateway's prefix
(`FileAssumption`).

Dispatch. A request recognised as a compaction leaves the override armed; a token
count, or any user's next request, spends it. Conversations that share their first
4096 bytes (the same preamble) share their reminders, and lose more than the one
that `continuation.rs:128-132` speaks of. A reminder is recorded before it is sent.

Tunnels. An ssh that is not reached within 50 ms is killed under the requests that
use it. Tunnels of configurations no longer used stay until the worker ends, and a
killed worker leaves its ssh running. Another process that takes the reserved port
first gets the provider's traffic. The stderr of ssh is a pipe that nobody reads
while it runs.

Logins. "Whichever arrives first" (`tui/mod.rs:229`) is whichever is finished
first: a redirect pasted while the callback's code is exchanged, even a mistyped
one, gives that exchange up after the browser was told "Signed in". A login
given up with Esc may still be stored if its code had arrived; and a mistyped paste
ends a login. `claude-router login` waits for Enter before it exits when the
browser brought the code, because the runtime it drops waits for the read of its
standard input (`main.rs:107-113`, 588).

## 6. Plan

Done: `AnthropicWire`, `AssistantTurn`, `ResponsesTurn`, `OpenAIStream`,
`Requests`, `Handover`, `Tokens`, `Routing`, `WorkerRequests`, `UserConfigs`, `Dispatch`,
`Tunnel`, `Login`, `Messages`, `ToProvider`, `FromProvider`, `Conversation`. Next, in this
order:

1. a composition of `Requests` with the worker of `Handover`: the drain flag and
   the count behind `CloseAcceptLoop` and `Exit`;
2. an abstract specification of a token store, and `Tokens` shown to implement it
   where no save overlaps another.

## 7. Not modelled

The peer filter (a check of each connection against what the kernel reports),
presets, header lists, byte forwarding and what the terminal interface draws, which
keep no state; tool definitions, effort and usage in the conversions, which nothing
else reads; the command line and systemd's socket activation.
