# mongo-openfeature-go, modelled, checked and proved

TLA+ modules for the parts of this repository whose behaviour depends on the
order of events. On the server: the cache and its locks, the watcher that fills
it, the provider that starts and stops both, the client that writes flags, the
evaluation of a flag, and the stream of an assistant's turn. In the browser: the
assistant's page with its chats, streams and model picker, and the flag editor
with its rule builder, fields and widgets. TLC checks each on a small instance;
TLAPS proves the safety properties for every value of the constants.

Paths below are relative to the repository. `tlc -config X.cfg M` runs a model,
`tlapm M.tla` checks the proofs of a module.

## 1. The system

| Component | Code | State | Operations | Hard behaviour |
|---|---|---|---|---|
| Flag cache | `src/cache/cache.go` | a map of definitions under a `sync.RWMutex` | Clear, Set, SetAll, Evaluate | readers and writers, a lock taken twice |
| Flag evaluation | `src/flag/flag.go` | the pass over the rules | EvaluateWithMatch | ties, overrides, the start value |
| Rules | `src/rule/*.go` | rule values; patterns and schedules compiled on first use | Matches | a lazy write under a read lock |
| Flag client | `src/client/client.go` | none; retries | SetFlag, PartialUpdateFlag, DeleteFlag, GetFlag, FlagExists, GetAllFlags | a request applied but not answered, retried |
| MongoDB collection | external | documents, change streams | upsert, update, delete, drop, `$match`, lookup of the full document | events later than the writes |
| Watch handler | `internal/watchhandler/` | tries, the stream, the event in hand | Watch, changestream, polling, handleEvent, Close | failures, fallback to polling, order |
| Event handler | `internal/eventhandler/` | a buffered channel | Publish, BPublish, Close | full or closed channel |
| State handler | `internal/statehandler/` | status, registered functions | Init, Shutdown | a failed Init that is repeated |
| Provider | `src/mongoprovider/` | the wiring of the four above | New, Init, Shutdown | start-up and shutdown races |
| Assistant turn and streams | `internal/editor/chat.go`, `streams.go` | the event log of a turn, its subscribers, the registry | runChatTurn, HandleChatStream, Append, Finish, Subscribe, cleanup | connections that come and go, a lost wake-up |
| Browser client of the assistant | `internal/editor/assistant.js` | chats and streams in the page and in `localStorage`, an EventSource per chat, the panel, the list of models | boot, select, new, delete, send, attach, handleStreamEvent, finalize, setConnected, the picker | replays, reloads in the middle of a turn, stale answers |
| Browser client of the editor | `internal/editor/editor.js` | the tree of rules, the textarea, timers, the dirty flag, the fields of a rule, widgets | add, edit, remove, search, test, save; arm and confirm; choose | debounced work that is overtaken |
| Editor handlers, tools | `internal/editor/editor.go`, `categories.go`, `tools.go` | none of their own | list, edit, save, delete, evaluate | check, then write |
| Login | `internal/editor/auth.go` | a PKCE verifier in a cookie | start, callback | two requests |
| MCP server | `internal/mcp/` | none | insert, partial update, delete, get | check, then write |
| Commands, container, templates | `cmd/`, `internal/testutil/`, `*.tmpl`, `*.css` | - | process start, rendering | - |

How they meet: the provider's Init starts a goroutine that runs `Watch` and
then loads every flag through the client into the cache. `Watch` reads the
collection's change stream, or polls it, and writes the cache; the OpenFeature
SDK evaluates flags from the cache and receives the events `Watch` publishes.
The editor and the MCP server write the collection through the client. A turn
of the assistant runs in a goroutine of its own and appends events to a session
that any number of HTTP connections replay; the page opens such a connection for
every chat that has a turn in flight, and again after every reload. The edit
page holds a flag's rules as a tree, submits it as JSON in a hidden textarea,
and asks the server to evaluate it for the tester.

What makes each correct:

* cache: no concurrent map access; every call takes effect at one instant;
  every call returns;
* evaluation: the preferred rule among those that match;
* client: nil means that the server has applied the call, once and whole;
* watcher: the cache never goes back, misses nothing a stream was open for,
  shows one content of a single document, and a watcher ends only for a reason;
* provider: Init and Shutdown return and do what they say at any moment;
* turn: every connection gets every event in order, is never left asleep, and
  every turn has one end;
* the assistant's page: questions and answers alternate, an answer is counted
  once, nothing is shown twice or lost, and a turn survives a reload;
* the editor's page: what is submitted is what is shown, a page that says it is
  saved is saved, a value survives being edited in either of its two inputs.

## 2. Modules

| Module | Models | Correspondence |
|---|---|---|
| `CacheCalls` | the calls of the cache, and their answers | shared by the next two |
| `AtomicCache` | the promise: a map whose calls happen at one instant | abstract specification |
| `FlagCache` | `cache.go` step by step | one action per lock operation and per statement that touches the map; Go's RWMutex is modelled as its package does it (a writer announces itself, readers that come later queue) |
| `FlagStore` | the collection and its change streams | external; the writes of `client.go` and of other programs, the two `$match` filters, the late lookup of `fullDocument` |
| `EventHandler` | the event channel | Publish drops when full, BPublish waits, a send after Close panics |
| `WatchHandler` | `Watch` and all it calls | EXTENDS the two above; the cache's methods are single steps, as `FlagCache` shows they may be |
| `StateHandler` | Init and Shutdown over named functions | |
| `Provider` | `New`'s wiring | EXTENDS `WatchHandler` and `StateHandler`: what each registered function does, and `locked` for the cache that SetAll has wedged |
| `Evaluate` | `EvaluateWithMatch` | one action per rule: skipped, asked in vain, taken |
| `FlagClient` | the client's retry loops | one action per request: answered, applied and not answered, not applied, refused before it is sent |
| `ChatStream` | a turn, its session, its connections, the registry | one action per event source and per step of a connection between two locks of the session |
| `TurnScript` | what a finished turn's events look like | proved of `ChatStream`, assumed of the scripts of `Assistant` |
| `Assistant` | `assistant.js` but for the picker, with the server as `ChatStream` promises it | one action per handler: a click, an answer, an event of an EventSource. JavaScript runs each to its end |
| `ModelPicker` | the model list of `assistant.js`: fetch, cache, search, filter, sort | one action per handler; a fetch that nobody waits for is there too |
| `RuleBuilder` | the rules on the edit page, the textarea, search, tester, save guard of `editor.js`, and the two handlers of `editor.go` it calls | one action per handler and per timer; `timers` counts down in ticks of 40 ms |
| `RuleFields` | the inputs of a rule: the value with its two modes, duration, date, percentage, cron, radius, list | one action per input's listener; parsing and formatting are modelled by what they return |
| `EditorWidgets` | the button that deletes on a second click; the category combobox | one action per listener |
| `MC*` | model values and definitions for TLC; `MCEditor` puts the five parts of the pages that share no state, and the evaluation the tester asks for, side by side | |
| `*Proofs` | the theorems: `ProviderProofs` EXTENDS `WatchHandlerProofs`; `EditorProofs` is about `RuleBuilder`, `RuleFields`, `EditorWidgets` and `ModelPicker` | |

`single` is the mode: whether `WithDocumentID` puts every flag into one
document. It is chosen in the initial state and never changes.

In `Assistant`, turn n is the n-th message and names its stream. `history`,
`lastDone`, `activeStreams` are what the page holds, `saved` and `savedStreams`
what `localStorage` has. `panel` counts how often each event of a turn is shown;
an element that was wiped off the panel while a stream still writes to it is
`detached`. A few variables record the past for the properties alone: `lost`
and `made` in `Assistant`, `cleared`, `restructured`, `shortened` and `clicks` in
`RuleBuilder`, `overlapped` and `unheard` in `ModelPicker`, `since` in
`EditorWidgets`, `entered` and `reverted` in the list of `RuleFields`, `newest`, `images`, `since` and `replaced` in `WatchHandler` and
`FlagStore`.

Each module that models code also holds small operators marked as a mutant or a
bug. They are plausible mistakes in the code they stand next to, used to test
that the properties can fail; no specification uses them.

## 3. Runs

| Run | What it asks | Bounds, and why they are enough |
|---|---|---|
| `cache` | mutual exclusion; the refinement of `AtomicCache`; only SetAll with definitions wedges the cache | 3 goroutines: a holder, an announced writer and a queued reader; one flag with two definitions, so that an evaluation could see the wrong one |
| `watch` | the safety of the watcher in both modes | 4 writes to 2 flags, the second malformed: a good definition, a bad one, and two more to be handed out of order; 2 attempts at streams and 2 at polling, so that each loop repeats once; a channel of one event. No counted faults: deletions, malformed definitions and cancellations fail attempts already |
| `watch_live` | an open stream delivers; polling converges; giving up is reported | 2 writes, the first malformed: after the attempt it fails, the second is a good definition whose document an update's event looks up late, and which has to arrive; two faults, and a channel of one event, so that BPublish has to wait |
| `stream_single` | finding: updates of the single document never pass the filter | 2 writes of one flag |
| `provider` | Init returns or wedges, a ready provider is watched, Shutdown ends every watcher | 2 calls of Init, 2 watchers, one write, one failure, both modes |
| `provider_wedge` | finding: Init never returns when a flag is stored | one write, no failure |
| `provider_panic` | finding: a watcher publishes after the channel is closed | one write, no failure |
| `client` | nil means applied; rules at most once (multi-document), never lost (single document); an update never brings a flag into being (multi-document) | 2 goroutines, 3 calls, 3 tries, 3 failures: every try of a call can fail |
| `client_append_lost` | finding: a retried update loses the rules it should append | one goroutine, 2 calls, one failure |
| `chat` | replay in order, no lost wake-up, full service, one end; who stays is served | one connection that may come again, 2 rounds, up to 2 chunks and 2 calls in each. Connections do not read each other's state but for the session's subscribers; the proofs cover any number |
| `assistant` | alternation, usage, remembered streams, the panel, the history; every turn is settled | 2 chats, 2 messages, 3 moves (a move is a switch, a reload, a failure, a login or logout, a restart, a deletion), and two turns: an answer after a tool call, and one that fails after one. Three moves are a trouble, a second one on top of it, and a step back |
| `editor` | the builder, the fields, the picker, the widgets and the evaluation | 3 rules with 2 names on 3 pages (two top-level rules, a notRule, a list) and 3 moves; 4 models of which 2 are shown, 3 fetches; values at, below and above each carry of a unit (0, 90 and 3725 s; 0, 1 and 30 h; 5 and 75 min), halves of a percent from below 0 to above 100, on a step of the slider and between two; radii in 4 µm from below 0 to 2 km, with half a thousandth, a mile and what is just below one; texts with blanks, and such that stand for a literal or a quoted string, in lists of both kinds with up to two items of each sort; 2 confirm buttons, 3 options; every list of up to 3 rules with priorities -2 to 1: below, at and above the start value -1, with a tie against an earlier best |

`CHECK_DEADLOCK FALSE` is set where the system may stop: calls, writes and
connections are bounded, a watcher may be done, a turn ends, a user does
nothing, and the cache may be wedged. The cache's own deadlock is what
`CallsReturnOrWedge` is about.

Symmetry is used in safety runs only, over values that no definition orders.

The type invariant of a module is stated in it (`TypeOK`, `CTypeOK`, ...) and
proved where there is a proof module. It is not listed with the runs.

Definitions are numbers of writes, so that "newer" is an order; a malformed
definition (`BadWrites`) is one no flag can be decoded from. A flag's rules are
taken to be stored as an array: a flag whose `rules` are null, which Go writes
for a nil slice, makes `$push` fail and is not modelled.

The browser's page is one tab. The bubbles of errors and of the user's own
messages, the cost footer, scrolling and shortcuts are not tracked. A message
that ends with nothing open is left out of the scripts. Of the sort modes of the
picker those by context length behave as those by cost and are left out; of the
the fields the range, version, number, checkbox and JSON ones are like those that
are modelled; the pattern of a regex is not, and is left out (see "Read in the
code"). Numbers are counted in fractions of any precision (`Scale`), and what
floating-point arithmetic rounds beyond that is left out; so is an item
`Infinity`, which the page takes and JSON saves as null.

`Assistant` assumes that writes of `localStorage` succeed. The page swallows one
that throws (`assistant.js:242-247`, `914-925`): it goes on with chats and streams
that the next page will not have, and `StreamsRemembered`, `HistoryOnlyGrows` and
`EveryTurnIsSettled` are then about a page that nothing has kept.

### Fairness

* `FlagCache`: weak fairness of a goroutine's steps inside a call (the Go
  scheduler runs what can run) and strong fairness of taking the inner mutex
  of the RWMutex, which hands itself to a waiter that starves. Nobody has to
  make a call.
* `WatchHandler`: the goroutine runs, the server looks documents up, the SDK
  receives events. Nobody has to write, delete or close, and nothing has to
  fail: the fairness is of the watcher's steps that are not counted failures, so
  a stream or a poll may go well for ever.
* `Provider`: Init's and Shutdown's goroutines run, and so does all of the
  above. Nobody has to call Init or Shutdown.
* `ChatStream`: the turn's goroutine and a connection's handler run; time passes
  and clients leave only if they like to. `EveryoneIsServed` is about a client
  that stays.
* `Assistant`: something of what is under way goes on: requests are answered,
  connections made, events delivered. This is what `ChatStream` promises of a
  turn, and that a network works in the end. The user need not do anything, and
  losses are moves that need not happen.

### Findings

* `provider_wedge` (`cache.go:59`): `SetAll` calls `Set` under the mutex `Set`
  takes. Init blocks for ever as soon as one flag is stored, and with it every
  evaluation. The theorem `WedgeFreezes` shows that nothing frees it.
* `provider_panic` (`mongoprovider.go:62`): Shutdown closes the event channel
  before it cancels the watcher.
* `stream_single` (`changestream.go:17`): the filter's `"update "` has a
  trailing space.
* `client_append_lost` (`client.go:156`): the first try removes `append_rules`
  from the caller's map.

### Read in the code

Visible in the models, but without a run of their own. The properties are stated
so that they do not contradict these: each says in its comment which mode or
condition it is for.

The server:

* a deleted flag stays in the cache, and its event costs the stream an attempt
  (`event.go:42`);
* nothing reads what was written between the load and the opening of the stream,
  or between two streams (`mongoprovider.go:65`, `changestream.go:33`);
* polling in multi-document mode reads one document (`polling.go:33`), and in
  single-document mode keeps the flags of a document that is gone
  (`polling.go:37`);
* in multi-document mode the late lookup of an update can be ahead of a
  replacement that follows it, so that the replacement's own document takes the
  cache back until the next event (`CacheNeverRegresses` leaves out flags that
  another program has replaced);
* an Init that is repeated after a failure starts a second watcher, and the
  slower of the two can put an older definition back (`statehandler.go:27`);
* in single-document mode an update whose answer was lost appends its rules
  twice, and an update of a missing flag creates a part of one (`client.go:202`);
* in multi-document mode the rules the tools pass to append are of a slice type
  the client refuses (`client.go:151`);
* a rule with a priority below -1 never wins (`flag.go:40`).

The assistant's page (`assistant.js`):

* opening the panel during a turn, a reconnecting EventSource, and a login, which
  connects twice, each replay the turn into a panel that has a part of it: the
  part is there twice, although the comment at 929-932 says that the panel is
  rebuilt cleanly. A replay in the middle of a tool call leaves an item running;
* deleting any chat during the active chat's turn renders the panel again, and
  the stream goes on writing to what was wiped (319, 843);
* `renderHistory` drops the text of a message that has tool calls;
* a reload while the POST is under way loses the turn, whose answer the server
  has and nobody reads; a chat that is deleted then gets a stream although it is
  not listed;
* an answer to the status request that is older than a logout connects again; a
  cookie or a session that is gone ends the turn with "Stream expired";
* a fetch of models that began before a logout fills the list after it, and
  clears the mark of a newer one; a failure of one hides the other's list; a list
  that came by a fetch the open picker did not ask for is not rendered (1233);
* two tabs write over each other's `localStorage`.

The editor's pages (`editor.js`):

* the tester's button is inside the form, so its answer clears the dirty flag
  and replaces the saved context fields (614-621), which the comment at 623-625
  is there to avoid; `HandleSaveFlag` answers a failure with status 200, so a
  refused save clears it too; so does the answer to a save that was overtaken by
  an edit. htmx collects the form's values before the textarea is brought up to
  date, so a save within 120 ms of an edit sends the older rules. `cleared` names
  the case, and `CleanIsSaved` is about the others;
* the tester's rows are old after an addition or a removal, and their links are
  to places that a removal of a top-level rule has shifted;
* a second click on a rule's delete button in a notRule removes the rule that
  has been put there since (2520, 2649);
* switching an empty value to JSON shows "undefined", and the way back is refused
  without a mark; switching an object to Simple keeps the old text, and back
  destroys the object; a switch turns the texts "true", "42" and "null" into a
  boolean, a number and nothing; JSON that cannot be parsed keeps the old value,
  which is saved without a word (2255). `SwitchKeepsValue` and `FieldsShowRule`
  name these;
* the pattern of a regex is read from and written to `RegexpPattern` (2103, 2118),
  a field that the Go rule, whose field is `Pattern` (`rule.go:40`), does not have:
  the input is blank for every stored rule, and what is typed into it does not
  reach the flag. No module has this field;
* the percent slider shows whole percents, while the number beside it and the rule
  keep a fraction (1707); a percentage outside 0 to 100 that was loaded stays until
  it is edited;
* in a list of values, a typed `null` is shown blank once the list is rendered
  again, and Enter in a row that shows the string "true" makes it a boolean; a row
  that is entered with Enter and changed back to what it showed before keeps the
  item that was entered, since the browser reports no change (1637). `reverted`
  names these rows;
* editing the hours or the date of a time drops its seconds; a change of unit
  rescales a radius; blank items of a list are saved; a schedule that is typed
  and equals a preset is not marked;
* a row fades although its deletion failed (168-170);
* ArrowUp with nothing highlighted takes the option before the last (480-481);
  choosing with the focus on the toggle opens the menu again, and leaving by Tab
  keeps it open.

## 4. Proofs

All theorems are about the specification without fairness, for every value of
the constants that satisfies the named assumptions (`ClientAssumption` and the
like: counts are natural numbers, model values differ from data).

* `FlagCacheProofs`: `IInv` adds to the type invariant what each call carries at
  each program point (`CallInv`, `AnswerInv`) and the discipline of the lock
  (`LockInv`): a goroutine is inside a locked part only if it is the writer or
  among the readers, and the writer is alone. `Exclusion` by itself is not
  inductive: it says nothing of who may still enter. From `IInv` follow type
  correctness, `MutualExclusion`, `Currency` (an evaluation is of the definition
  the cache has), `WedgeFreezes` (once wedged, the lock is never free again) and
  `Linearizable`: every step of `FlagCache` is a step of `AtomicCache` or a
  stutter.
* `WatchHandlerProofs`, for any number of watchers: `TypeCorrect` and
  `StreamsAreClosed`, from `LoopInv`, which says in which of `Watch`'s loops a
  watcher is at each point. As long as no two of them run at once (`OneActive`;
  one may follow another that is done): `CacheGoesForward`,
  `StreamMissesNothing` and `CacheIsAContent`. `CacheNeverRegresses` is not
  inductive: the next event must not be older than what is cached. `OrderInv`
  adds that nothing anywhere is newer than what is stored (`StoreIsNewest`), that
  the events of a flag, the one in hand included, are in order up to the one the
  attempt ends at (`InOrder`), and that an event that came with its document
  never follows one whose lookup is still to come (`LookupsLast`), unless another
  program has replaced the flag. `MissInv` adds where the newest definition is:
  in the last event, in hand, or cached (`Carried`). `ContentInv` is about the
  single document: whatever is in hand or to come is a content it has had, and
  the cache is one of them, or on its way to one (`Holds`). With two watchers at
  once the three theorems are false, see above.
* `ProviderProofs`: a step of the provider is a step of the watch handler, or one
  of `Beside`, which only counts a fault, locks the cache or closes the channel
  (`ProviderSteps`). So the theorems about the watchers hold of a provider, while
  Init is repeated and Shutdown runs at any moment: `ProviderClosesStreams`, and
  under `OneActive`, which a failed Init that is repeated can break,
  `ProviderGoesForward`, `ProviderMissesNothing` and `ProviderShowsOneContent`.
  `ReadyIsWatched` is not inductive: `InitInv` adds where Init is, that a watcher
  has been started past its first function, and that SetAll locks the cache only
  in the second. `NothingFreesTheCache`, `ShutdownIsInOrder` and
  `NothingOpensAfterShutdown` are about what Shutdown can do and what it cannot.
  They take the two lists of functions as `New` registers them
  (`WiringAssumption`).
* `EvaluateProofs`: the loop invariant says that the current index is the
  preferred one among the eligible matches seen so far, or that there is none
  (`Something`, `Nothing`). At the end "so far" is "all". `Improves` says that a
  rule that is taken is preferred to the one before.
* `FlagClientProofs`: the invariant relates the tries to what the server has
  applied (never more often than the failed tries and the successful one), and
  says where the rules to append are: in multi-document mode in the map and
  never sent, or taken out (`TakenOut`); in single-document mode in the map
  until the call returns (`LeftIn`). `OnlySetCreates` is the action property
  `UpdateNeverCreates`: only a `SetFlag` that the server has applied brings a
  flag into being in multi-document mode.
* `ChatStreamProofs`: `Follows` ties the events a client has and the batch in
  its handler to the session's log, and `Attached` says that a connection past
  its snapshot that holds no token is up to date. `TurnsAreScripts` says that the
  events of a turn that is over are a script in the sense of `TurnScript`, which
  is what `AssistantAssumption` takes the page's streams to be. Facts about
  sequences are lemmas of their own.
* `AssistantProofs`, for any number of chats, messages and events. Every action
  is first shown to be of one of a few kinds (`StepKinds`), most of them `Quiet`:
  they touch nothing but the panel and the requests. `CoreInv` holds of what the
  page keeps: the list has no chat twice, a source is open exactly where a stream
  is followed, a chat has one POST, an unused id leaves no trace, localStorage has
  the chats as they are, and `busy` is what it says. `AnswersCostWhatTheyCost`
  adds that the page counts usage only where the server has some
  (`CountsWhatIsThere`) and that a turn's events do not change once a message or
  a stream refers to them (`KnownFirst`). `StreamsAreRemembered` adds that the
  page and localStorage agree (`Together`), or that the page is still `Idle`.
  `ChatsAlternate` adds that a chat has one turn in flight (`OneInFlight`), that
  what is in flight waits for the end of the chat's last message
  (`InFlightWaits`), and that a message without an end waits for what is in
  flight or was cut off (`WaitsForSomething`). `NoMessageIsLost` is the action
  property `HistoryOnlyGrows`. For the panel (`PanelShowsNothingTwice`,
  `PanelHasEverything`) `OrderInv` adds that the messages of a chat are in the
  order they were sent in, and each in one chat; `PanelInv` that the panel shows
  nothing that has not come (`NotAhead`), that of the turn in flight only the call
  that has come last is marked as running, and is there to be marked
  (`OnlyTheLast`, `LastIsRunning`), and that a mark is on something that is shown
  (`RunningIsShown`). A step renders the panel, leaves it alone, connects a
  stream, shows an event or ends a turn: each kind
  has a lemma.
* `EditorProofs`. `FieldsShowRule` splits into an invariant per field. For
  percentages and radii it rests on a lemma about rounding to the nearest step
  (`NearestIsNear`), for any `Scale` and any unit. For the list it adds that the
  row with the focus was found showing its item, or has been entered since
  (`FoundStands`): otherwise leaving the row unchanged would say nothing about
  it. The invariant of the
  value (`ValueInv`) adds that only text that is no JSON is marked, which
  `SwitchKeepsValue` needs. `TextareaFollows` is inductive with the types of the
  timers. `CleanIsSaved` is not: the answer to a save may come when the page is
  clean already, so `BuilderInv` adds that there is one save at a time
  (`OneSave`), that one that was answered well is what is stored
  (`SavedIsStored`), and that while the page is clean whatever could still be
  sent, or has been, is what it shows (`CleanIsCurrent`). `ConfirmIsInTime` needs
  that no button stays armed for longer than its timer; `EnterIsWhatIsSeen` is
  inductive with the types.

  What is above a rule (`Path`) is the least set that is closed under the parent,
  not a recursion: `PathIsLeast` says so, and nothing else about paths is needed.
  `SearchShowsTheWay` is inductive once it speaks of the search as well as of the
  overview (`ViewInv`). `TesterCatchesUp` needs that the tester reads the textarea
  after it has been brought up to date (`RowsInv`, the reason for the two
  delays), and for the links that a top-level rule's index is its place
  (`IndexIsPlace`). `OnlyTheClickedLeave` needs the tree (`TreeInv`): rules are
  made in order, a `notRule` holds one at most, a rule that is about to leave was
  clicked and is where it was or gone, and one that leaves twice was clicked
  twice. The steps of the builder fall into four kinds for the tree (add, delete,
  remove, neither), with a lemma each.

  For the picker, the place of a model in the sorted list is the number of those
  that come before it (`Rank`), so sorting is no recursion either. `RankIsPlace`:
  the order is total, the rank grows with it, and an injection of a finite set
  into one as large is onto, so every rank is taken. `PickerShowsTheBest` then
  follows from an invariant that says what was last rendered (`ShowsBest`) and
  that a list without overlapping requests has none under way (`OneFetch`). The
  assumptions are that the server lists at least one model and each id once.

Only model-checked: liveness (`CallsReturnOrWedge`, `StreamDelivers`,
`PollingConverges`, `GivesUpAloud`, `InitReturnsOrLocks`,
`ShutdownStopsWatchers`, `EveryoneIsServed`, `EveryTurnIsSettled`), which TLAPS
does not do under fairness. Every invariant and every action property that a
passing run checks is proved.

## 5. Not modelled, and why

* Typed evaluators (`src/cache/evaluator.go`): five wrappers without state.
* Rules: `Evaluate` takes what a rule matches as an input. The matching itself is
  arithmetic on strings, addresses, versions and times, functions of one
  argument that tests reach. The pattern and the schedule that are compiled on
  first use are a race whose writers write equal values; it is listed as a
  hazard.
* Assistant tools, MCP server, categories, and the handlers of the editor's list:
  each is a call of the flag client, some after a check. `FlagClient` has the
  calls, and that nothing ties a check to the write after it is listed as a
  hazard; nothing in the repository promises more.
* Login: one cookie between two redirects. `Assistant` has what the page sees.
* Of the browser's clients: the placement of the add-rule menu, the search of the
  flag list, the new-flag dialog, JSON blocks, collapsing, toasts, scrolling and
  shortcuts. They are layout, or one assignment each.
* Commands, templates, style sheets and the test container keep no state.
* Logging, formatting and the wording of errors are left out everywhere.
