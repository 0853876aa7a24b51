# llmsnarf in TLA+

llmsnarf is a proxy between clients that speak the OpenAI or the Anthropic API
and the servers that run language models, llama.cpp's among them. This directory
holds TLA+ specifications of the parts of it that are hard to test, the TLC
configurations that check them, and proofs, which TLAPS checks, about the slots, the model
tracker, the trace index, map-reduce, the way of requests, the configuration, streamed responses, the
stream and message translators and the ledger. Paths below are relative to `src/openaiproxy/` in the repository.

## The system

| component | state | operations | what is hard about it | what makes it correct |
|---|---|---|---|---|
| slot allocator, `services/slot_cache_service.py` | per endpoint and model a slot count, a lock and a last session per slot, sessions in LRU order | `lease`, `_state_for`, `_assign` | requests interleave at every await; probes replace the state under requests that use it; requests are cancelled, streams abandoned | one request per slot; sessions on distinct slots; no lock lost |
| slot cache and its callers, `slot_cache_service.py`, `proxy_service.py`, `responses_service.py` | snapshots on the server's disk, the KV state of its slots | restore, generate, save | four call paths with different ideas of when to save; upstream failures; clients that leave | a snapshot holds its own session; a generation is not disturbed |
| model tracker, `services/model_tracker_service.py` | per endpoint the models it believes loaded, with the time of last use | `ensure_capacity` | unloading under a lock, while other requests load models without it; `max_models` changes | the victim is the least recently used; the cap |
| trace files, `proxy_service.py`, `filesystem/fs_trace_repository.py` | two JSON files per trace, in a directory per day | `save_request_trace`, `save_response_trace`, `build_summary`, `has_response` | the halves are written hours apart, by other threads, around midnight | the halves are found together |
| trace index, `services/trace_index_service.py`, `filesystem/sqlite_trace_index.py` | rows in SQLite, the flags `ready`, `stopping`, `rebuild_requested` | catch-up, poll, refresh, rebuild, stop | one thread against all handlers; errors and restarts between any two steps | no listing from a half-built index, unless a rebuild overtakes it; every trace is indexed, and revisited when its response lands |
| Responses API, `services/responses_service.py` | the conversation with the model, the output so far | the tool loop, twice: streamed and not | the copies may differ; chunks interleave; budgets; failures half way | well-formed chat requests; events in place; the copies agree; it ends |
| OpenAI proxy, `services/proxy_service.py`, and its siblings for the other APIs | a request's payload and its encoded body, side by side | route, rewrite, admit, trace, lease, forward, validate | order of the steps around each await; clients that leave; five copies of the routing | every trace gets its other half, but for failures and departures that are named; the server gets what the endpoint asks for |
| map-reduce of search results, `services/responses_service.py` | a result per chunk | cut, map, combine, reduce | concurrent calls that fail, or say nothing, in any order | the digest follows the text, and covers it |
| Anthropic translation, `services/anthropic_translation.py`, `services/anthropic_service.py` | the open block of a stream | two stream translators, two message translators | interleaved deltas, blocks left open | blocks are opened and closed in order; there and back again is the same message |
| configuration, `services/config_service.py`, `yaml_repository/` | one YAML file | load, five updates, routing | read-modify-write from a thread pool, one temporary file | no update lost; keys kept |
| validation ledger, `services/ledger_service.py`, `services/validation_service.py`, `filesystem/fs_ledger_repository.py` | an append-only file | validate, append, list by page | writes that fail half way; entries added between two pages; the rules exist for bodies and for streams | a failed write costs one entry; pages miss nothing; both sets of rules agree on what was not lost |
| live pages of the web interface, `src/frontend/app.js`, `services/revision_service.py` | the last revision seen, what is shown | poll every 2 s, load | polls and loads overlap, in any order; indexing and editing suppress loads | the page shows the newest in the end |
| embeddings, `services/embeddings_service.py` | models loaded in the process | forward, embed | loading once under a lock | a model is loaded once |
| statistics, costs, revisions | none | aggregation | reads an index that may not be ready | sums over all rows |

They interact through awaits and shared objects on one event loop, and through
threads: a handler admits its model with the *tracker*, writes the request half of
its *trace*, leases a slot from the *allocator*, restores the session's snapshot
unless the slot still holds it, calls the model (several times for /responses), saves
the slot, writes the response half of the trace and appends to the *ledger*. The
*indexer* is a thread that reads the trace files; listings read its index if its
`ready` flag is set, and the files if not. The administrator's *configuration* updates
run in a thread pool and take effect at the next request that loads the file.

## Modules

| module | what it is |
|---|---|
| `SlotAllocator` | `SlotAllocator` with anyio's locks |
| `SlotCache` | the four call paths around it; extends `SlotAllocator`, whose steps it schedules (`Allocate`) |
| `SlotLease` | what a lease promises: a slot is used by one holder, who knows what it holds |
| `DistinctSequences`, `SequenceLemmas` | LRU orders as sequences without repetition; lemmas about sequences and about what folding one does, and that a set of numbers has a least element |
| `SlotProofs`, `ModelTrackerProofs`, `TraceIndexProofs`, `GatewayProofs`, `ResponseStreamProofs`, `TranslationProofs`, `FileProofs` | the theorems; `FileProofs` are those of the two components whose state is a file, `ConfigStore` and `Ledger`, and `TranslationProofs` those of `AnthropicStream` and `Conversation` |
| `ModelTracker` | `ModelTrackerService`, the server behind it, the requests, and the administrator |
| `TraceIndex` | the files, the handlers that write them, and the indexer thread |
| `ToolLoop` | what both copies of the tool loop share |
| `ResponseLoop` | `_complete_inner`, the loop of a response that is not streamed |
| `ResponseStream` | `_stream_inner`, the streamed loop, with the feed of events it sends, and the mapping to `ResponseLoop` |
| `FinishReasons` | the two tables between `finish_reason` and `stop_reason` |
| `ChatToAnthropic`, `AnthropicToChat` | the two stream translators, as operators on their state |
| `AnthropicStream` | a server that streams a chat answer, `ChatToAnthropic`, the wire, `AnthropicToChat`, and a chat client, with connections that break |
| `MessageTranslation` | the four translators of messages and answers, as operators |
| `Conversation` | the conversations that clients of either API have with servers of the other |
| `ConfigStore` | the updates of the configuration, by threads, over one temporary file |
| `Routing` | the copies of the search for an endpoint, and `resolve_route`, as operators on a configuration |
| `MapReduce` | the map-reduce of a search result: `_chunk_text`, the concurrent calls, their traces |
| `Gateway` | the way of a request of any API from its routing to its answer; extends `MapReduce` and `Routing` |
| `TraceLife` | what tracing promises of the two halves of a trace; `Gateway` implements it |
| `Validation` | the rules that read an answer, for bodies and for the logs of streams, as operators |
| `Ledger` | the ledger file, its writers, and a client that pages through it; extends `Validation` |
| `LiveView` | the ledger page of the web interface over it, with the revision tokens; extends `Ledger` |
| `MC...` | the instances for TLC: small sets, symmetry, views |

**How state and actions correspond to the code.** An action is what a coroutine or a
thread does from one await (or one access to shared files) to the next: between awaits
nothing else of the event loop runs. A request's place in its coroutine is a program
counter, and the locals that survive an await are in a record of the request
(`Jobs`). Sessions, models and requests are model values.

- `SlotAllocator`: a *pool* is one `_EndpointSlotState` object; `current` says which
  pool a model's key maps to, and a replaced pool stays where its leases hold it.
  `Lookup`, `Counts` and `Settle` are the three parts of `_state_for`, before, during and
  after the probe. anyio's lock hands itself to the first in line on release
  (`Acquire`, `Release`, `Withdraw`). `Cancel` is a cancelled task,
  `Abandon` a stream dropped at a yield whose generator nobody closes.
- `SlotCache`: `stage` says where a request is between entering and leaving its lease.
  `kv` is what each of the server's slots holds, `disk` the session whose state each
  snapshot file holds. `stale`, a history variable, has the slots that got nothing of the session they were last
  leased to: neither its snapshot nor a prompt. The paths differ in when they save, and that is all they differ in.
- `ModelTracker`: `tracked` is `_loaded` as a sequence in order of last use, `resident`
  what the server really has loaded. Forwarding a request makes the server load its model.
- `TraceIndex`: the indexer reads, checks and writes in separate steps; handlers open
  and close files at any time between. A listing looks at `ready` in one step (`CheckReady`) and queries in another
  (`Query`); the history variables `reader` and `due` note whether the index was emptied in between, and what had been promised. Days and the half hour of grace pass in steps of
  their own.
- `ResponseStream`: one chunk of the model's answer is one step; the events of one item
  are its announcement and its completion, with the index they carry.
- `AnthropicStream`: `up` and `down` are the states of the two translators (the fields of the
  two classes), `out` what they have emitted. The caller of each (`_translated_stream`,
  `_anthropic_chat_stream`) feeds it, sends what comes out, and finalizes it or reports an
  error when its connection breaks. A piece of text is the number of the chunk it came in,
  so that nothing can be lost, repeated or put elsewhere unnoticed. The chunks have the
  shapes servers send: reasoning, text, the beginning or more of one or two calls,
  a finish_reason with any of these, usage.
- `Conversation`: a step adds a message to what a client has and translates the whole
  conversation again, as every request does. `MessageTranslation` keeps who says what, the kinds of
  blocks, the ids of calls and results and the order of all of it.
- `ConfigStore`: `Load` reads the file and computes the change; `Open`, `Write` and `Replace` are
  `open`, the dump that is written when the file is closed, and `Path.replace`, with threads in between.
  A handler has the *file* open, not its name: after a rename `handle` says where it is.
- `Gateway`: `stage` is where the handler (or, for a stream, its generator) is, one stage for each
  await: routing and rewriting, admission, the request half, the call, the response half, validation, the answer.
  A rewrite (alias, roles, cache_prompt, usage, slot) is its name; `payload` is the set of those the dictionary has,
  `body` of those `body_to_forward` has, `sent` of those the server got, so that a rewrite that comes
  after the encoding is seen to be lost. The *way* of a request says which of the copies of this code it goes through:
  forwarded, passed (on to an Anthropic server), translated, bridged (an OpenAI client with an Anthropic server), looped (/responses), posted or embedded (embeddings, by a server or in the process).
  `fate` records how the call ended, or that a translator raised before it (`TranslationRaises`), or on its answer (`misshapen`); the administrator replaces the configuration at any time, and a
  handler has read it once.
- `MapReduce`: a text is a sequence of words, spaces and newlines; a call is at one of the awaits of `map_one`. The trace of
  request `r` is `<<r, 0>>` and that of its call `i` is `<<r, i>>`; the reducing call is the one after the last chunk.
- `Ledger`: a line is the entry that begins it and whether it is one JSON object. `Extend` glues text to a line
  without a newline, as a file opened for appending does. Validation, appending and listing happen under one lock, so
  each is a step.
- `Validation`: `IssuesOfBody` and `IssuesOfStream` are the two sets of rules; `Alike` compares them over every order in which the
  pieces of an answer may be streamed and every way in which the network may divide them into deliveries (`Networks`): a line that
  spans two is lost, and if the first ends within a character, all lines of both are (`LostIn`). What a translator sends is logged
  whole; the events of a translated /messages are read by no rule.
  The lines of a page are those before which at least `offset` newer ones are listed, and fewer than `offset + Limit`: so
  many does `list_entries` skip and take.
- `LiveView`: polls and loads are sets of answers under way; a listing is named by the number of writes it includes.

Deliberately abstract: the text of anything, token counts, HTTP and SQL. In `ResponseStream` a search
answers or fails; what map-reduce does inside of it is `MapReduce`. `Gateway` takes admission and the lease as awaits that
return: what they do is in `ModelTracker` and `SlotCache`. Of the translators left out: images, `is_error`,
arguments that are not JSON, parameters that are copied. In `ConfigStore` the text of a configuration is
written in one step, and what two threads wrote over each other is either the second text or `Garbled`, which no
load can parse. A property that needed any of these is not stated.

## Runs

All bounds are constants or named in the configurations. `slots_cache` uses
the symmetry of requests and of sessions, which is sound for its properties as none of them is a
liveness property; `slots_allocator`, which checks one, uses a view instead: it forgets the identity of
state objects and fields that no step will read. Deadlock is not checked where requests end and no more come.

| run | shows |
|---|---|
| `slots_allocator` | Two requests, two sessions, up to two slots, probes that fail or answer 2, an override that comes and goes, three state objects alive at once, one abandoned stream: the maps and locks are right, and every request ends unless an abandoned stream blocks it. Two requests reach every hand-over of a lock; longer queues are covered by the proofs, which are for any number of requests. |
| `slots_cache` | Two requests of two sessions along all call paths on a stable backend with one slot, so that every session's turn evicts the other: undisturbed generations, snapshots that are given their own session (unless a slot that got nothing of it is saved), and the refinement of `SlotLease`. More slots and requests are covered by the proofs. |
| `tracker` | Two requests at a time, three models, limits 0 to 2 that change: the least recently used model is unloaded, nothing is counted twice, the cap holds unless a race that is named happened, everybody is admitted in the end. |
| `trace_index` | One trace, two midnights, two mishaps (errors or restarts), rebuilds at any moment, one listing at a time: it is whole unless a rebuild overtakes it between look and query, the trace is indexed, revisited when its response lands, and the index is ready in the end. For any number of traces the first of these is proved. |
| `responses` | Up to three turns of up to two calls, budgets 0 to 2 (0 is unlimited): events in place, calls answered, the searching subsides, the response ends, and it is the response `ResponseLoop` gives. |
| `anthropic_stream` | Answers of up to three chunks, then the usage, with up to two tools, four finish reasons, two events on the wire, every way to break: the Anthropic client accepts each event, the chat client has what the server sent, tool by tool, its finish_reason and usage, or an error, and the stream ends. Three chunks suffice for a block to be left and come back to, and for two tools to alternate. |
| `conversations` | Up to four messages with up to two calls, in both directions: what servers get is well formed, and says what was said. Four messages are a question, calls, results, and what follows them. |
| `config_store` | Two threads and one crash, with one endpoint, one section of two settings and one price: saving is atomic, no update is lost and no key, but for two races that are named. Two threads suffice for both races. |
| `gateway` | One request of any API, streamed or not, with or without a model, on seven configurations of up to three endpoints (chat and Anthropic servers, in-process models, a disabled one, one that is not logged, every rewrite on and off), one edit of the configuration at any moment, and a result of three chunks, one of them blank, whose calls fail, say nothing or are no JSON; calls and translators of every way may raise, be refused, or meet what they cannot read: what tracing, rewriting, routing and the search promise, and that it ends. One request suffices as requests share only the configuration: the proofs make that precise, for any number of them. |
| `ledger` | Up to five traces, answers chosen to break each rule on each way, up to two ends of deliveries in a stream, each within a line, within a character or between lines (one end loses a line or two deliveries, two also the lines of one that stands between), one entry with a character that splits its line, two writes that fail half way, pages of one entry, two polls under way and one turn of indexing or editing. A page is missed, or a load overtaken, with two; the traces leave room for a failed write before, between and after. |
| `slots_replaced` | a violation: a probe that finds another count replaces locks that are held |
| `roles_rewritten` | a violation: roles of a proxied request are substituted after it was encoded |

Every property of a passing run has a mutant: the definition named in PROJECT.json
replaced by one with a plausible bug, with which TLC finds the property violated. The type invariants are listed in no
run: in the modules with proofs they are theorems, and in the others they hold in the same instances (put `TypeOK` in the
configuration to see it) and document the state.

### Properties

`SlotExclusive`, `GenerationIntact` and `SnapshotsOwn` together are what the slot cache
is for; `ImplementsLease` says so without the mechanism. `SessionMapOK` and
`LocksAccounted` are the invariants of the allocator's data on which these rest.
`EveryRequestEnds` excludes requests that wait behind an abandoned stream (`Stranded`), for
they wait for ever.
`VictimStillLast` compares the model that is unloaded with the order of use *when the
unload is answered*, several awaits after it was chosen. `CapUnlessRaced` holds under
the negation of two history variables: `lapsed` (a management call failed, or the setting was
edited) and `raced` (a request reached the server after its model was dropped). `SnapshotsOwn` exempts
one save, that of the events path of a slot that is `stale`; the finding says how it comes about. `ListingsWhole` compares what a
query reads with what was on disk at the build that the ready flag promised when the listing looked at it; a listing that a rebuild
overtakes is exempt until the rebuild has ended. `ItemsInPlace`
relates the index of each open item to the output; it is limited to answers in which no
thought arrives while a message is open (`mixed`), for which the code is wrong.
`ImplementsLoop` maps the streamed loop to the other one: while an answer arrives, the
other has nothing of it; reasoning that arrives in several stretches is one item there.

`BlocksInOrder` is a monitor, `reader`, of the Anthropic protocol on the wire: it accepts an event or not. It
lets the arguments of a tool come after its block was closed, since the code sends them so when tools
alternate, with the index of that block. `MessageArrives` composes both translators, and so
checks each against the other: what was split by one is put together by the other. `BreakTold` and
`StreamEnds` say that a broken connection is neither mistaken for the end nor waited on.
`ChatWellFormed` is what chat servers ask for (calls are answered, at once, each once),
`AnthropicWellFormed` what Anthropic servers do (turns alternate, results first); `TranscriptKept`
compares what was said with what is said in the translation. `FileWhole` and `NoUpdateLost` hold under the
negation of the history variables `collided` and `overtaken`, which record the two
races of the configuration; a crash at any point is not among the exceptions.

`ImplementsLife` is the promise of tracing: a request half, once; its response half, once, before the work is over;
the validation after both; the calls of a map-reduce within the request they belong to. `Excused` names what the code
does not keep: clients that leave a stream, requests whose translation raises, and answers, not streamed, of status 200 that are no
JSON or that raise when they are converted. So the property is about all other ways to end, while these happen too. `RewritesSent` compares what the
endpoint's configuration asks for with what the server received, several awaits and up to two encodings later; the one
exception is the subject of `roles_rewritten`. `RouteAsShown` compares the routing, whose four copies in the code are one operator here as they are alike, with
`resolve_route`, which the interface shows to the administrator. `SummaryFaithful` says of a finished map-reduce that each
answer is in the place of its chunk whatever the order of the answers, that the chunks cover the text, and that nothing is
returned as the result only if nothing was said. `LossBounded` counts: after any failed writes at most as many
entries are unreadable as writes failed. `PagesMissNothing` is about a client that pages by offset through a list that grows in
front. `IssuesAlike` is the agreement of the two sets of rules on chats,
but for the calls, the text and the reason of which a line was lost. `ViewCatchesUp` holds under the negation of `slipped`, which
records that the page noticed a change and dropped it: while the user edits, before the first poll, after a
failed load, or when an older load overtakes a newer.

### Fairness

The event loop runs every task that is ready, locks are handed over in order, and every
upstream call has a timeout (15 s for probes, 60 s for unloading, 120 s for snapshots, 300 s and
3000 s for generation): hence weak fairness of each request's own steps (`SlotAllocator`, `ModelTracker`, `Gateway`), or of
`Next` in `ResponseStream`, where only one task exists. Nothing is assumed
of clients, administrators, cancellations, or the clock. In `TraceIndex` the indexer's
steps are fair, since its wait has a timeout, and so is a handler that has begun to write
a file; mishaps are bounded, and the sweep of the whole directory, which the clock
brings every 60 seconds, is fair. A model that talks for ever is cut off
by its token limit (`FairSpec` of `ResponseStream`).
In `AnthropicStream` the server may fall silent, and then the call times out after 300 s: so it is
fair that its stream ends or breaks, and that what arrived is translated; that it speaks
is not. In `ConfigStore` a thread that has loaded the file goes on to save it. In `LiveView` the timer of the page keeps
asking, every load is answered or fails, and not all polls are lost: strong fairness, since answers are lost and asked for again;
that indexing ends is `EventuallyReady` of `TraceIndex`. That traces are validated is not assumed.

## Proofs

The first half of `SlotProofs` proves, for any sets of requests, sessions and models and any
number of slots:

- `TypeCorrectness`: `Spec => []TypeOK`
- `SessionMaps`: `Spec => []SessionMapOK`
- `Locks`: `Spec => []LocksAccounted`
- `Exclusion`: `Stable`, the assumption that states are never replaced, implies `Spec => []SlotExclusive`

The inductive invariant `IInv` is `TypeOK`, `SessionMapOK`, `LocksAccounted` and
`RequestsOK`, which relates a request's place to what it has obtained: one that is not idle
has a model and a session, one that looks a state up has none yet, one that was assigned, waits or holds
has a state object with at least one slot, and a slot. Without `RequestsOK` an action that takes a lock
could not be shown to stay within the locks there are.
`Invariance` proves it with one step per action and one lemma per operator that several actions
share. That an eviction keeps slots distinct rests on the lemmas of `SequenceLemmas` about
sequences without repetition. `Exclusion` adds `Registered`, inductive under `Stable`: every state object in use is the one
registered for its model, and for no other. Two requests on one slot of a
server are then on one slot of one object, which has one lock.

The second half of `SlotProofs` proves, under `Stable`, for the allocator with its four callers:

- `CacheTypes`: `CacheSpec => []CacheTypeOK`
- `GenerationsSafe`: `CacheSpec => []GenerationIntact`
- `SavesOwn`: `CacheSpec => SnapshotsOwn`
- `LeasesKept`: `CacheSpec => ImplementsLease`

Every step of the callers is a step of the allocator or leaves it alone (`AllocatorStep`), so that its invariants
are at hand. To these `CacheInv` adds `SettledOwn`: from the moment the server works on a prompt until the save, the slot
holds the conversation of its request; and `FreshOK`: a slot that is not stale holds the conversation of the session that has it or had it last,
and who is about to restore has a stale one. Only a lease holder writes to a slot, and leases are apart (`OwnSlotOnly`).
For the refinement a place's abstract holder is whoever has a lease on it, else `Orphan` if its lock was left behind;
`Enter` is a grant, `Restore` and `Generate` uses, `Leave` and `Abandon` the two ways to finish, and all else is a stutter, for which it is
shown that no lock is left behind or recovered (`OtherLocksOnly`), not even when a state object is made.

`ModelTrackerProofs` proves, for any sets of requests and models (finitely many) and any limits:

- `TypeCorrectness`: `Spec => []TypeOK`
- `VictimStays`: `Spec => []VictimStillLast`
- `CapExceededByRacesOnly`: `Spec => []CapUnlessRaced`

Its invariant adds `JobsOK` (whoever is inside the lock has a limit of at least one, so that there is a
victim when there is no room) and `ListOK`: as long as no history variable is set, what the server holds is
listed, the list is within the limit, and what was unloaded was not loaded again. The cap follows,
since a list is at least as long as it has elements. One lemma says what `Admit` does, which
ends three of the four steps of `ensure_capacity`.

`TraceIndexProofs` proves, for any number of traces, days and mishaps and any size of batches:

- `TypeCorrectness`: `Spec => []TypeOK`
- `ServedWhole`: `Spec => []ListingsWhole`

The flag alone is not inductive: that everything promised has a row when it is set depends on where the rows
were while the index was built. `NothingDropped` follows them: as long as a build scans, what is promised is indexed, yet to be listed, in the list that
is read, in hand, or in the batch; when the scan is over it is indexed. `BatchBounded`
keeps batches within their size, so that none is written short, and `BuiltUnseen` says that only a rebuild
empties the index, with the flag cleared. From these follows `NeverHalfBuilt`, that with the flag set the index has what was promised,
and with it a second invariant, of the listing (`ReaderPromised`): what is `due` is still promised, and it is indexed or the index was
emptied since the look. Once the flag is set again it is indexed in either case.

The first part of `GatewayProofs` proves what map-reduce keeps, and of `_chunk_text`:

- `ChunksPartition`: for every text and every budget the chunks are in order, within the budget, and have every word

The chunks are a recursive function on positions. Induction over data is beyond the installed provers, so the proof takes the least
counterexample: were there a position from which the chunks fail, there would be a last one, and the chunk that begins there is followed by
a position from which they do not. `MapInv` relates the stage of a call to its trace, its place in
the results and the phase of the search; there is one lemma per step.

The rest of `GatewayProofs` proves, for any number of requests, any configuration and any texts:

- `GatewayTypes`: `Spec => []TypeOK`
- `SummariesFaithful`: `Spec => []SummaryFaithful`
- `RewritesReachServer`: `Spec => []RewritesSent`
- `RoutesAsShown`: `Spec => RouteAsShown`
- `TracesLive`: `Spec => ImplementsLife`

Its invariant is `MapInv`, `TypeOK` and, per request, `RequestFits`: what the stage says of the trace (`StageFits`, `OwnFits`), and of the
payload and the body (`PayloadFits`, `SentFits`). Since requests share nothing but the configuration, a step of one keeps
the fit of all others, and it is shown for the one that moves. `TracesLive` maps each step to one of `TraceLife`: writing the
request half (`Log`, `SendCall`) begins a trace; a translator that raises excuses it; the steps that write the other half settle it, excused or not;
`CallRewritten` is a rewriting, which is excused; the validation is one; what ends a request or a search retires its traces; and all
else changes nothing that tracing shows.

The first half of `FileProofs` proves, for any number of threads and crashes, and any configuration:

- `TypeCorrectness`: `Spec => []TypeOK`
- `SavingIsAtomic`: `Spec => []FileWhole`
- `UpdatesKept`: `Spec => []NoUpdateLost`
- `KeysStay`: `Spec => KeysKept`

Its invariant has one part for each race. `SavesApart`: before two updates meet in the temporary file,
whoever saves is alone and the file is his. `InTurn`: before one update overtakes another, all that are under
way started from what is in the file, whoever saves alone owns the temporary file, and what is in it otherwise
is the text of somebody under way, or not a text at all. The
last is what `KeysStay` needs, which covers also the step that overtakes. They rest on `ApplyProperties`: what an
update makes of a configuration is one, and repeating it changes nothing.

`ResponseStreamProofs` proves, for any number of turns, calls and searches, any budget and answers of any length:

- `TypeCorrectness`: `Spec => []TypeOK`
- `ItemsStayInPlace`: `Spec => []ItemsInPlace`
- `CallsAreAnswered`: `Spec => []CallsAnswered`
- `SearchingIsBounded`: `Spec => []SearchingSubsides`
- `StreamImplementsLoop`: `Spec => ImplementsLoop`

None of these is inductive without knowing where the loop is. `LoopOK` says how many calls are without an answer: none before a
request, `left` of them while searches run. `OpenOK` says which kinds of item may be open at each point, without which closing one
item could be closing two. `TurnsOK` says that no item is of a turn to come, and none of this turn before its answer begins.
For the refinement, `Accept` and `Chunk` are stutters, `Search` and `Conclude` are the steps that take a whole answer, and each other
action is its namesake. `ArrivingOK` is what makes the stutters so: what an answer has put into the output before it ends is
reasoning, one item of it once condensed, or nothing. `Condensed` is a recursive function; `CondensedDefined` and
`CondensedAgrees` (what the first items become does not depend on those that follow) take the least counterexample,
and all else about it follows from these two.

The second half of `FileProofs` proves, for any number of traces, of writes that fail and of entries on a page, of the ledger with its
page in the web interface:

- `LedgerTypeCorrectness`: `ViewSpec => []ViewTypeOK`
- `LossesAreBounded`: `ViewSpec => []LossBounded`
- `PagesAreComplete`: `ViewSpec => []PagesMissNothing`
- `AnswersAreAlike`: `ViewSpec => []IssuesAlike`, for answers with any number of calls

`LossBounded` is not inductive: the entry after a failed write is lost in a step that fails in nothing. `LossAhead` counts
that loss ahead, as soon as the last line has no end; for this the line must not hold an entry that counts itself
(`TornUnrecorded`). `PagerOK` is the invariant of paging: what a client has yet to see is listed behind at least as many newer entries as the
offset it has reached (`Behind`). An entry added to the file only puts more before it (`StaysShown`). That a page that is not full is the last rests on
`Ranks`: the ranks of what is listed, newest first, are each number below their count once, so that a page has all of those between
its ends (`FullPage`). `LiveView` has the ledger's variables and its own; every step of it is one of `LedgerNext` or leaves
the ledger alone (`PageLeavesLedger`). `AnswersAreAlike` rests on `OrderPlaces`: an order of streaming is injective on a set of
as many positions as there are pieces, so each part has its two pieces at exactly two places. Joining the log then gives a part both, in order,
if neither was lost (`JoinedWhole`), whatever lines are lost else; and the rules for a call, for the content and for the reason follow one by one.
The theorem is about chats, forwarded or bridged: of translated /messages `Alike` says nothing but that no issue is invented.

The first half of `TranslationProofs` proves, for answers of any number of chunks, any tools, any number of events on the wire and every way to break:

- `EventsInOrder`: `Spec => []BlocksInOrder`
- `PiecesArrive`: `Spec => []MessageArrives`
- `EndArrives`: `Spec => []FinishArrives`
- `BreaksAreTold`: `Spec => []BreakTold`

The first translator may be many events ahead of the second, so the invariant cannot compare the two. It looks
ahead instead: `Leads` says that the events under way lead those behind them, one acceptable event after the other, to another state of
the Anthropic client, the second translator and the chat client; `WireFits` says which. While the server answers it is one that agrees
with the first translator (`Live`): the reader has its blocks, the other translator has each tool under its block and numbered in
its order, and the client has the message. When the answer has ended it is one in which the client knows all of it (`Finished`),
and when the connection broke, one in which it knows that (`Excused`). `UpFits` says that the first translator has the server's
finish_reason and usage, and `Knows` is what remains for the client when the stream is over. Taking an event off the wire is then a step along the path;
what needs work is that each operation of the first translator (starting, opening and closing a block, a piece, a tool) adds events
that prolong it (`Follows`). These lemmas follow the classes method by method and are put together in `ChunkFollows` for a chunk of any of the
shapes, in `EndsWell` for the end and in `ErrorEnds` for a break.

The second half of `TranslationProofs` proves, for conversations of any length, either client, and answers of any number of calls:

- `TalkInductive`: `TalkSpec => []TalkInv`
- `TalkTypeCorrect`: `TalkSpec => []TalkTypeOK`
- `CallsAreSeen`: `TalkSpec => []CallsSeen`
- `ChatsWellFormed`: `TalkSpec => []ChatWellFormed`
- `RequestsWellFormed`: `TalkSpec => []AnthropicWellFormed`
- `TranscriptsKept`: `TalkSpec => []TranscriptKept`

The translators are folds over messages and blocks. What a fold does to a sequence with one more element is shown once (`FlattenAppend`,
`SpreadAppend`), what it does to every sequence from that by `SeqInduct`, which is induction stated with a set in place of a predicate.
`TalkInv` says of what the client keeps what makes it translate well. For an Anthropic client (`AnthropicSide`): the results of each
message answer the calls of the one before, one each, and the calls of the last are those that are open. For a chat client (`ChatOK`): the
calls of a message are answered by the messages next to it, and what the chat becomes when translated (`Turns`) alternates, has no empty turn,
has results first, and says the same. The second part has to be in the invariant, as merging messages of one role into a turn depends on all
of them; one lemma for each kind of message shows that a message more keeps it (`UtteredOK` for what is said, and likewise for results). The translation of an Anthropic conversation
is a chat of the second kind (`SentOK`), so that the way back is covered by the same lemmas, and the four properties follow from
`ChatOK` of whatever is sent. `CallsSeen`, for the reasons of the tables (stop, length and tool_calls; tool_use and max_tokens), rests on the stop reason alone: a translated answer with calls says so unless it was cut short.

The assumptions are those the modules name, and TLC evaluates them in the runs. In `ModelTracker` models are finitely many and limits natural numbers;
in `ConfigStore` the contents of a file that are no configuration differ from all configurations. In
`SlotAllocator` and `SlotCache` the numbers of slots are natural numbers and at least one
is allowed, and the null values are no requests, sessions, pools, slots, paths or stages. In `TraceIndex` traces are finitely many and a batch holds at least one. In
`MapReduce` texts are sequences of letters, budgets positive, and there are calls enough for every text. In `ToolLoop`
at least one turn is allowed, in `ResponseStream` the null value is no number, in `ChatToAnthropic` also no kind of block and no reason. In `AnthropicStream` the indices of
tools are natural numbers and the finish reasons those of the table. In `Validation` an answer has a way and a sequence of calls, each with one of the five kinds of arguments. In `Ledger` each trace has one of these answers, traces are finitely many, a page has at least one entry, and a bounded number of writes fails;
in `LiveView` the traces that come while a page is open are traces, and its turns are bounded. In `Gateway` a configuration is a sequence of endpoints whose names are names. `Stable` is an
assumption of the theorems that name it: `slots_replaced` shows that exclusion does not hold without it.

Only model-checked: liveness (`EveryRequestEnds`, `AdmissionEnds`, `EventuallyIndexed`, `EventuallyRevisited`,
`EventuallyReady`, `ResponseEnds`, `StreamEnds`, `UpdateEnds`, `RequestEnds`, `ViewCatchesUp`), which is beyond TLAPS. Every safety invariant and action property that a passing run checks, and both refinements of
the slots and of tracing as well as that of the streamed loop, is proved for all values of the constants.

## Findings

Shown by a run:

- `slots_replaced`: a probe that finds another count (a probe that *fails* counts as one slot)
  replaces the locks under requests that hold them.
- `roles_rewritten`: roles are rewritten in the payload and not in what is sent.

Met while modelling; PROJECT.json quotes what each contradicts:

- `slot_cache_service.py:226`: a stream that is dropped at a yield keeps its slot locked.
- `slot_cache_service.py:290`: a session evicted while it works holds two slots after its next request.
- `responses_service.py:1420`: after a failed restore and a refused turn another conversation is saved as the session's snapshot.
- `model_tracker_service.py:91`: more models than `max_models` get loaded when an admission overtakes a call.
- `trace_index_service.py:203`: a trace is indexed as complete without its response.
- `indexed_trace_repository.py:50`: a listing that a rebuild overtakes between look and query is half-built; details and costs never look.
- `proxy_service.py:144`: the two halves of a trace that lasts past midnight are in different directories.
- `proxy_service.py:183`: an alias of an earlier endpoint wins over an exact match in a later one.
- `responses_service.py:1132`: output indices clash when thinking resumes after a message has begun.
- `responses_service.py:402`: a result for which no room is left is returned untrimmed.
- `responses_service.py:448`: a call of a map-reduce answered with no JSON has its response half written twice.
- `responses_service.py:511`: an empty answer of the reducing call discards the answers of the others.
- `responses_service.py:993`: a client that leaves a stream early leaves a trace without its response half.
- `config_service.py:28`: of two updates that overlap one is lost.
- `yaml_repository.py:233`: of two saves that overlap one can install an empty file.
- `anthropic_translation.py:692`: an error reported in a chunk is taken for the end of a complete answer.
- `proxy_service.py:698`: an exception late in a stream sends a second `[DONE]`.
- `anthropic_translation.py:687`: streamed answers count cached tokens as input, others do not.
- `proxy_service.py:523` (and 610, `anthropic_service.py:311` and 370): a translator that raises leaves a trace without its response half.
- `anthropic_service.py:363`: an answer that is not JSON leaves its trace without a response.
- `anthropic_service.py:165`: passed-through requests are traced and never validated; of streamed /messages and /responses no issue is found.
- `validation_service.py:134`: a line of a stream that the network cuts is lost to the validation, and all lines of two deliveries if it cuts a character.
- `fs_ledger_repository.py:42`: an entry after a failed write, or with a character that `splitlines` splits at, is written and never listed; if a part of its line is a JSON value but no object, no entry is.
- `app.js:742`: the page forgets a change it notices while the user edits.
- `fs_trace_repository.py:291`: the call of a method that does not exist.
- Two sentences of the repository's README (lines 142 and 166).

## Not modelled

- *Map and reduce calls that carry no `id_slot`* (`responses_service.py:434`): on which slot of its own choice
  llama-server runs such a call is not this program's code; `SlotExclusive` is about the slots the proxy hands out.
- *Failures of the disk while a trace is written, and the end of the process in the middle of a request*: `Gateway` assumes that
  traces can be written.
- *Snapshot names* (`slot_cache_service.py:40`): the characters of correlation ids are data; in `SlotCache`
  different conversations have different files.
- *Estimates of tokens and trimming* (`responses_service.py:1289` and the rest): arithmetic on the lengths of texts.
- *The translation of `/responses` input items, tools and images*, and parameters that are copied.
- *The rules that validate requests*: they copy fields into the entry, and look at one message at a time.
- *Statistics and costs*: sums over rows of the index, without state or order.
- *SQL and its schema; a row SQLite refuses*: `TraceIndex` lets a pass fail, but not the same trace for ever.
- *The cache of embedding models*: a dictionary under a lock, with no other way in.
- *HTTP routers, schemas, settings, start-up, logging and the other pages of the web interface*: glue and output.
