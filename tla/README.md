# A verification of run-myscreens-lsp

`run-myscreens-lsp` is a language server, written in Go, for Siemens SINUMERIK
Run MyScreens source files. It speaks LSP over stdin and stdout, keeps an index
of the `.com` files of a workspace and of the documents an editor has open, and
answers questions about definitions, references, hover and completion. This
directory holds TLA+ models of it, the TLC configurations that check them, and
TLAPS proofs of what matters most. Line numbers refer to `internal/...`.

## Inventory

| Component | State | Operations | Talks to |
|---|---|---|---|
| main (`cmd`) | – | starts `Server.Run`, exit code | server |
| server main loop (`server.go`, `Run`, `handle`) | `initialized`, `shutdown` | initialize, didOpen/Change/Close, shutdown, exit, `$/cancelRequest`, requests it serves itself | all below, on one goroutine |
| concurrent requests (`startRequest`, `references`, `hover`, `completion`) | `requests` (id to cancel function), a wait group, one goroutine each | start, snapshot, query, retry, reply, clean up | read the index; write the connection |
| document store (`document/store.go`) | open documents with version and analysis | Open, Replace, SetAnalysis, Close, All, Get | called by the main loop only |
| text document (`document/document.go`) | text, line table | Replace, PositionAt, ByteOffsetAt | used by every request |
| workspace index (`workspace/index.go`) | `disk`, `overlays`, `paths`, `filenames`, `revision`, one RW lock | Load, Overlay, RemoveOverlay; lookups and queries "at a revision" | written by the main loop, read by all |
| resolution and what is built on it (same file) | – (reads the index) | Resolve, References, SemanticDiagnostics, Completions, Hover | – |
| connection (`protocol/connection.go`) | reader, writer, write lock | Read, Reply, ReplyError, Notify | client; called by the main loop (both ways) and the goroutines (writing) |
| analyzer (`syntax/analyzer.go`) | – | Analyze (diagnostics, symbols, definitions, references, builtins, folds of a tree), CompletionContext (the cursor's line, the lines above, the tree around it); tree-sitter underneath | called on every edit and every completion |
| protocol types, semantic model | – | data | – |

What is hard here:

- **Concurrency.** Goroutines read the index without holding its lock while
  they work. A position becomes a byte offset in one critical section and the
  offset is used in another. Only the revision counter says whether the two saw
  the same text. Cancellation, shutdown, exit and the end of input race with
  goroutines.
- **Ordering.** A change to one document changes the diagnostics of others. A
  didClose must clear one document and publish the rest.
- **Names of files.** URIs have many spellings; file names are compared without
  case; `disk` and `overlays` are keyed by URI, the tables by folded path. All
  readers trust the tables.
- **Partial failure.** Analysis, reading the disk and writing to the client can
  fail between two updates that belong together, or between a header and its
  payload. The client can die anywhere in a message.
- **Unfinished text.** Completion works on lines and documents that are being
  typed, with scanners that know no grammar, next to a parser that recovers from
  errors as it likes. Five readings of the same text have to agree: the parser's
  tree, two walks over it, and two scans of the lines.
- **Boundaries.** UTF-16 positions against byte offsets in texts that may hold
  invalid UTF-8, carriage returns, surrogate pairs.
- **Agreement.** The rules for what a name means are used by four features and
  partly written twice.

What makes each component correct: requests get an answer that one state of the
workspace justifies, always get one, and can be cancelled while they run; the
index holds one document per file and its tables are those of its documents;
the store, the index and the client's screen agree; nothing runs after
shutdown; the output is whole messages, one answer for each request, and the
input is read as it was sent; positions and offsets translate into each other;
diagnostics blame only what is wrong, references form classes, and what
completion offers resolves; completion knows what the cursor is in, its edits
change that and nothing else, and it means by a name what the analysis means.
`PROJECT.json` lists the hazards line by line.

## Modules

| Module | Models | Lines of Go |
|---|---|---|
| `AtomicReads` | abstract: a call reads the whole workspace in one step | – |
| `RequestHandlers` | the goroutines, against documents that change at will | `server.go` 89–140, 378–474; index 193–346, 481–539 (control) |
| `CaseFoldedFiles` | abstract: a file has one name, a buffer while open, a saved text | – |
| `WorkspaceIndex` | `Index` and its writers and lookups | `index.go` 20–180, 1036–1191 |
| `LanguageServer` | main loop, store, index and goroutines together | `server.go` 26–350, `store.go`, `main.go` |
| `Resolution` | the pure queries over `WorkspaceIndex` | `index.go` 242–434, 491–569, 697–1034; `model.go` 50–104 |
| `TextDocument` | bytes, line starts, UTF-16 positions, the lines of a fold | `document.go`, `server.go` 615–636 |
| `MessageStream` | abstract: a stream of whole messages, an answer for each request | – |
| `Connection` | the output: writers, the lock, a pipe, failing writes | `connection.go` 70–108, `server.go` 50–118 |
| `MessageReader` | the input: frames, their headers, a client that dies | `connection.go` 26–68, `server.go` 50–59 |
| `CompletionLine` | the scanner of the cursor's line, and the edit of an item | `analyzer.go` 90–274, 469–486, `server.go` 476–524 |
| `CompletionStructure` | the scan of the lines above, joined with the tree | `analyzer.go` 53–88, 285–583, 1115–1124 |
| `SyntaxLowering` | what is read off a syntax tree | `analyzer.go` 29–51, 600–731, 758–1146 |
| `Transport` | both halves of the connection, one at a time | `connection.go` 16–108 |
| `Completion` | the cursor's line and the lines above, one at a time | `analyzer.go` 53–88 |
| `RequestHandlers_proofs`, `WorkspaceIndex_proofs`, `LanguageServer_proofs`, `Resolution_proofs`, `Transport_proofs`, `TextDocument_proofs`, `Completion_proofs`, `SyntaxLowering_proofs` | theorems | – |
| `MC*` | constants of the small instances | – |

`LanguageServer` instantiates `WorkspaceIndex` under `Index!` and
`RequestHandlers` under `Handlers!` with `docs` replaced by what the index finds
(`Docs`), so the actions of the two components are used, not restated.
`Resolution` extends `WorkspaceIndex`. `Transport` extends `Connection` and
`MessageReader`: the two share nothing but the struct they are in, so what holds
of each alone holds of both, and a behaviour moves one of them while the other is
as it was made. `Completion` does the same with `CompletionLine` and
`CompletionStructure` (`Structure!`), which read different parts of the text.

### How state and actions correspond

**RequestHandlers.** One goroutine is one `Call`. Its `pc` stops wherever the Go
code takes a lock, looks at its context or writes: `check` (`ctx.Err()` at the
loop head), `lookup` (`DocumentSnapshot`, then `ByteOffsetAt` on that text),
`query` (the revision test and the copy at the head of `...AtRevision`),
`compute` (the query on the copy), `recheck` (`finishHover`, end of
`CompletionsAtRevision`; references has none), `reply`, `cleanup` (the deferred
functions). The three handlers share this skeleton; where they differ
(`CompletionContext`, the missing second look of references, how often the
context is polled) the action says so. A query is a deterministic function of
the documents it is asked about, so its result is represented by those documents
(`answer.view`); what the function is belongs to `Resolution`. `since` is a
history variable. `requests` is the registry; a cancel function is the call it
cancels. Ids are chosen by the client: `MayUseId` is the only definition that
models code outside the repository.

**WorkspaceIndex.** Documents are texts, maps are functions with `NoText` where
there is no entry. `RebuildPaths` writes the two tables exactly as
`rebuildPathsLocked` does, case-folded keys, overlays hiding disk documents. The
Go code reads the disk in `RemoveOverlay` between two critical sections; only
readers come in between, because writers are on the main loop, and a reader in
the gap sees what it would have seen before the call. Canonical URIs, paths and
their folding are constants.

**LanguageServer.** One action per message; `Publish` is one turn of the loop of
`publishOpenDiagnostics`, so that answers and cancellations come between two
notifications; `todo` holds the documents it has not come to, and `IsNext` says in
which order (`Store.All` sorts). `Shutdown` and `Drained` are the two sides of
`requestsWG.Wait()` in shutdown, `Wait` the one at exit. `shown[s]` is what the
client sees: which text the syntax errors are about, and from which documents
the semantic diagnostics were computed. `Submit` has the path on which
`Analyze` fails, `DidCloseFails` that on which the file cannot be read; the
history variable `abandoned` remembers which documents that happened to.
Requests that change no state and refusals are stutters. The client opens only
what is not open and uses one URI for a file at a time, as LSP asks
(`DidOpen`); `didChange` and `didClose` name open documents.

**Resolution.** Given what the parser finds in each text (constant `Analysis`),
the definitions are those of `index.go` one for one: `Scoped`, `TargetUris`,
`InTargetFile`, `InLoadedBlocks`, `Candidates`/`Resolved`, `TargetAt`,
`ReferencesTo`, `Diagnostics`, and for completion `InOwner` (`completionSameOwner`),
`CompletionVisible`, `OfferedVariables`, `LoadsAround`, `OfferedLoaded` and `Offered`. A
node is identified by its start offset. In a text without syntax errors every
member has an owning entity; in a malformed one a definition or reference may have
no scope, and an entity one (`AnalysisAssumption`). Then completion goes by
positions and by an owner it knows from the lines: `Contexts` gives, for each text,
cursors with their scopes and the owner, if there is one, and where it ends. In a text without
errors the owner is the outermost scope (`ContextAssumption`; `PlaceIsKnown` of
`CompletionStructure` is why). `Offered` has an item for every definition that the
map of items may keep: the code shows one for each name. A reference whose name is
missing from the text (an inserted identifier) means nothing and is left out.

**TextDocument.** A byte is `x`, `cr`, `lf`, the first byte of a three- or
four-byte character, or a continuation byte, in any order. Two-byte characters
behave as three-byte ones (one code unit) and are left out. Of a fold the lines
are modelled; its end character, which the code leaves at 0 when it takes back
the last line, is not.

**Connection.** A task is one message of the client, served by the main loop or
by a goroutine of its own. Its `pc` stands before `handle` has decided what to
write (`handle`), in `json.Marshal` and before the lock (`encode`), and between
the writes (`write`, with the chunk `at` that comes next). A chunk is what one
write puts into the pipe before it blocks; chunk 0 is the header. `kind` is
what is being written: handle's own result, its own refusal (`ReplyError` in
`handle`), the error `startRequest` or `Run` reports for it, or a notification.
`Report` is what happens when that fails: result and refusal are followed by an
error, an error on the main loop ends `Run`, one in a goroutine is only logged,
as is a notification's. A write fails once the client has closed its end, and
then every write does: a pipe. Only results can be impossible to encode, errors
and notifications are made of strings and numbers. What a message is about is
left to the other modules; `shutdown` is told apart because it waits for the
goroutines before it writes.

**MessageReader.** An item is a header line or a piece of a payload, so payloads
may look like headers. One action per way through the loop of `Read`. The client
sends frames with several lengths, without one, with broken lines, with payloads
that are no messages; when it closes, what was written last may be lost from
any item on.

**CompletionLine.** A line is a sequence of characters, the cursor is anywhere in
it. `ScanCharacter` is a turn of the loop of `activeCallArgument`, whose state is
the stack of calls, and two flags: `skips`, for a loop that leaves out the second
half of a doubled quote, and `ended`, for its end at a comment.
What it is held against is said without a scanner: a character is in a string if
an odd number of quotes is before it, a parenthesis is open if none after it
falls below it, an argument is the number of commas at that level. Names are
compared as written (the code folds case in one place, the name of the
function), and tabs are blanks.

**CompletionStructure.** A line is its first word, an offset the number of a line.
Two readings are joined: `LexicalBlocks`, `AfterLine` for one line after the other
before the cursor, and `Around`, the nodes of the tree. The variables `open` and
`ended` of the editor say what really is open. The tree is every one a parser
may make of the document (`Trees`): a block is a node or, where it could not be
parsed, none; a block without terminator ends with its first line or before
what ended it; a `PRESS` is one of two kinds of nodes. Blocks outside any
definition and the node of a mismatched event end are not among the documents:
for a stray `LOAD` before a header the scan would keep the event open for good,
which only adds an `END_LOAD` to the offers. The tables of the code are written out;
that they are about the `Language` of the documents (`TablesFit`: who opens what, who
ends it, which kinds are scopes) is an assumption that every run evaluates.

**SyntaxLowering.** Nodes are numbered in the order of the text, `above` are the
nodes around one. The parser is outside the repository: it builds every tree of
a grammar (a constant: node kind to sequences of fields), node by node. What the
code takes for granted of the language is `GrammarAssumption`, which every run
evaluates for the grammars of the run. Each collecting function of `analyzer.go` is the set of what it collects; the order
is that of the nodes. That identifiers below a member that is called or indexed
(`object` in `object.CALL(...)`) are no references follows from `Suppresses`
passing on to everything below, and is deliberate: a test says so. `Asked` is what
completion makes of the end of a string in a tree: `ScannedArguments` and `ScannedSlot` say of the tree what
`activeCallArgument` finds in the line (`CompletionLine` has the scanner itself). A
call opens an argument list if its function is a name; the call of a member, and any
other parenthesis, only nests in the one around it, and commas count where no such
list intervenes. That holds for a call written in one line, since the scanner sees no
other, and without a parenthesis behind a word that is no function (`a OR (b)`), of
which the scanner makes a call: the grammars of the runs have none. Left out are
`declarationVersion` and `declarationType` (strings for hover), and `isFoldable`.

## Runs

| Run | Bounds | Question | Properties |
|---|---|---|---|
| `handlers` | 2 calls, 1 document, 2 texts, 3 changes | Do the optimistic readers keep their books? Is an answer what one state says? | `HandlerInv`, `ExhaustedOnlyAfterThreeChanges`, `RunningAreRegistered`, `ReadsAreAtomic` |
| `id_reuse` | 2 calls, 1 id | May a client reuse an id? | violated: `RunningAreRegistered` |
| `index` | 5 URIs, 6 spellings, 5 changes | Is there one document per file? | `TablesAreCurrent`, `LookupFindsTheFile`, `ActsOnFiles` |
| `case_collision` | the same, files that differ in case | Does an ambiguous name stay ambiguous? | violated: `AmbiguityIsKept` |
| `close_fails` | the same files, no call, 5 changes | Is a closed document always cleared? | violated: `ClosedDocumentsAreCleared` |
| `server` | 2 files, 3 spellings, 3 texts, 4 changes, analysis and disk may fail; 1 call among 3 changes; fairness | Do store, index and screen agree, even after a failure? Who is waited for at the end? Do goroutines and the real index give atomic reads? Does everything end? | `IndexFollowsStore`, `ShownDiagnosticsAreCurrent`, `OnlyFailedClosesLeaveDiagnostics`, `OrderlyShutdown`, `ReadsAreAtomic`, `RequestsAreAnswered`, `MainLoopReturns` |
| `text` | texts of up to 5 bytes, 3 replacements | Are positions and offsets inverse? Does a fold hide the lines of its block? | `PositionsAndOffsetsAgree`, `PositionsCountCodeUnits`, `FoldsEndWithTheirBlock` |
| `resolution` | 5 URIs (two alike but for case), 5 texts, one of them malformed, 1 to 6 cursors each, 4 changes | Do the features agree? Does what completion offers resolve? Do answers depend on what files say, and on nothing else? | `DiagnosedAreDangling`, `FileTargetsAreUnambiguous`, `ReferencesPartition`, `AcceptedCompletionsResolve`, `SameContentsSameAnswers` |
| `transport` | 2 goroutines, shutdown, 1 notification with up to 2 more, 2 chunks a message, pipe of 1; or 2 frames, 5 payloads, 4 kinds of headers; death anywhere; fairness | Do messages mix, are they lost or doubled when writes fail? Is it a stream of whole messages with every answer? Can the main loop get stuck? Is what was sent read, and does Run stop for a reason? | `FramesAreWhole`, `OrderlyEnd`, `DeliveredAsSent`, `StopsForAReason`, `StreamOfMessages`, `MainLoopComesBack`, `EverythingSentIsRead` |
| `completion` | 10 beginnings, 4 characters typed, every cursor; or 5 lines of 6 words and 3 lines of all 44, every tree, every cursor | Does completion see the call and the argument? Do edits change only what they should? Does it know which blocks are open? | `ScannersAgree`, `EditsAreSafeElsewhere`, `EditSetsTheIdentifier`, `BlocksAreWhatIsOpen`, `PlaceIsKnown`, `TerminatorsAreExpected` |
| `quoted_edits` | the same lines | Are edits in strings safe? | violated: `EditsAreSafe` |
| `lowering` | trees of 20 nodes: calls, indexes, members; trees of 16 nodes: headers, errors, missing nodes | Does a name have one meaning? Do outline, definitions and diagnostics agree? | `NamesHaveOneMeaning`, `AnalysisIsAsAssumed`, `CompletedTargetsAreReferences`, `OutlineShowsDefinitions`, `IncompleteMeansErrors` |

Some properties have named parts: `HandlerInv` contains
`OffsetBelongsToSnapshot`, `IndexFollowsStore` is `TypeOK`, `OpenTextIsIndexed` and
`OverlaysAreOpen`, `PositionsAndOffsetsAgree` both directions of the translation,
`ScannersAgree` is `ArgumentsAreFound` and `CommentsAreStripped`, and
`PlaceIsKnown` is `ScopesAreTheBlocksAround` and `OwnerIsTheDefinitionAround`. The
type invariants of `RequestHandlers`, `WorkspaceIndex` and `Connection`,
`RegisteredAreRunning`, `OneDocumentPerPath`, `AtMostOneAnswer` and
`ConnectionInv` are proved (below) and need no run.

Why the bounds are enough:

- `MaxRevision` is the one counter that is capped. Three changes are what it
  takes to exhaust the three attempts of a call. In the index, `revision` only matters as "has it changed", so
  after five changes every combination of tables has been seen: load, open, edit,
  close, and open under another spelling.
- Two calls are what a race on the registry takes, two texts what a stale offset
  takes. Two documents let an answer mix two states.
- Two files and a second spelling make the client's order of opening, closing
  and publishing matter; the load and three changes of documents are an opening,
  a failed or successful closing, and an opening and closing under another
  spelling. `Bounds` of `MCLanguageServer` keeps a call out of states with more
  than three changes, a second spelling or a failure behind them. It only cuts
  off steps of the client, which no fairness asks for, so that liveness is still
  checked on every behaviour within it.
- Five bytes hold a four-byte character and its neighbour, a truncated one, or
  a carriage return and line feed on a line that is not the first.
- `handlers` uses symmetry of calls and of ids, and checks no liveness property;
  two documents and the end of every call are in `server`.
- A pipe smaller than a message makes every writer stop in the middle of one
  while others want the lock; two goroutines and the main loop are then waiting
  at once. The bounds of `Connection` do not matter to its safety properties,
  which are proved for all of them.
- Two frames are what it takes for one to spoil the next.
- Four characters behind a beginning hold a doubled quote and the end of the string,
  or a nested parenthesis and a comma; the beginnings are nothing, a call with a
  target, the call of a member within it, a member, a string in a call and an empty
  one, a nested parenthesis, a semicolon in a string, a string that ends outside any
  call, and a call whose file comes next.
- Five lines hold a definition with a nested block, a superfluous terminator and
  a second definition; three lines show every word at work once.
- 20 nodes hold a definition, an event and a call with two arguments, or an
  index within an index; 16 hold two definitions, or an error within an event.

### Findings

- **`id_reuse`.** The deferred `delete(s.requests, key)` runs after the reply is
  out and deletes by id. A client that reuses an id once it has the answer can
  lose the registration of its second request, which can then not be cancelled,
  neither by `$/cancelRequest` nor by shutdown, for which `Wait` then waits at
  the request's own pace. With fresh ids `RunningAreRegistered` holds, and is
  proved.
- **`case_collision`.** With `Main.com` and `main.com` both on disk the folded
  name is ambiguous, and nothing resolves to it, as the README promises. Opening
  one of them hides the other and the name resolves.
- **`quoted_edits`.** In `CALL("a""|")` the cursor is behind a doubled quote and
  before the closing one. `activeCallArgument` compares only the two neighbours
  of the cursor, takes them for a doubled quote, and the edit runs over the
  closing quote to the end of the line. `EditsAreSafeElsewhere` says that this is
  the only place: with any other cursor the edit changes the string and nothing
  else.
- **`close_fails`.** If the closed document's file is there and cannot be read,
  `didClose` returns before the clearing notification. The document is closed in
  the store, its diagnostics stay on screen and its overlay in the index. Only
  then, says `OnlyFailedClosesLeaveDiagnostics`.

One disagreement stands in the statement of a property rather than in a run.
`TestCompletionContextRejectsCommentsStringsAndMemberCalls` (`analyzer_test.go` 236)
tries `object.CALL("Wo` alone. In `LM(object.CALL("Wo` the call of the member is no call
to the scanner, only another level of the call of `LM`: completion asks for a dialog,
while the analysis makes no reference of that string. The property covers the strings
that are themselves arguments of the call the scanner takes them to be in; they
have no such trouble.

## Fairness

`FairSpec` of `LanguageServer` asks weak fairness of each goroutine's next step
and of the main loop's own steps: publishing the next document,
leaving `Wait` once the wait group is empty. The Go scheduler runs every
runnable goroutine, queries are loops over finite maps, and the locks are held
for bounded times. There, writes to the client are taken to return; that is
what `Connection` shows, if the client goes on reading or goes away. Nothing else
is assumed of the client: no action that takes a message is fair. Under this
`RequestsAreAnswered` and `MainLoopReturns` hold; the first
rests on the attempts being counted, the last on every walk over the open documents
ending and on what `Wait` waits for being cancelled or finite. The restart in
`publishOpenDiagnostics` (328) is for an index that changes under it; the main loop, which
runs it, is the only writer, so it is never taken and not an action.

In `Connection`, `Fairness` asks weak fairness of the client's reading, without
which a full pipe blocks everybody by design, of each task's next step, and of
leaving `Wait`; and strong fairness of taking the lock, since Go's mutex hands
itself over to a waiter after a millisecond. Then the main loop always comes back
and every request is answered, or one end is gone (`StreamOfMessages`, whose
abstract specification is fair in `Answer`). In `MessageReader` only `Read` is
fair: `Run` always calls it again.

## Proofs

The eight proof modules are checked by TLAPS to the last step, for any number of
calls, ids, documents, spellings, texts, changes, writers, chunks, frames and
payloads, and for texts and lines of any length and any characters.

**RequestHandlers_proofs.** From the assumptions on the constants only:
`TypeCorrect`, `HandlersKeepBooks` (`HandlerInv`), `OffsetsFitTheirSnapshots`,
`FallbackTakesThreeChanges`, `RegistryLeaksNothing`, and
`HandlersImplementAtomicReads`. `RunningCallsCanBeCancelled` needs
`ReuseIds = FALSE`, and the run `id_reuse` shows why. "The offset fits the text"
is not inductive by itself: a step that takes a snapshot knows only that two
revisions are equal. `RevisionVouchesForView` says that equal revisions mean
equal documents; it needs `rev <= revision`, and the count of attempts needs
`since + attempt <= rev`: each attempt after the first is paid for by a change.
That is `HandlerInv`. One lemma says what every action does to a call's locals;
the invariance proof has a step for each action. The refinement maps a call to
`open`, `decided` or `sent`: references is decided once it has its copy, hover
and completion at their last look at the revision, and at that instant the copy
is the workspace.

**WorkspaceIndex_proofs.** `IndexTypeCorrect` and `TablesFollowDocuments` hold for
any workspace. `FilesAreIndexedOnce`, `LookupsFindTheFile` and
`IndexActsOnFiles` (the refinement of `CaseFoldedFiles`) are proved for
workspaces in which no two files differ in case only (`NoCaseCollisions`); the
run `case_collision` shows that they need it. The invariant joins the type
invariant, `TablesAreCurrent` and "before the load nothing is open"; with one
document per path the table stands for the document, so that a write under any
spelling reaches the one entry of its file.

**LanguageServer_proofs.** The server first: `ServerUsesIndex` and
`ServerRunsHandlers` show that every step of it is a step, or a stutter, of
`WorkspaceIndex` and of `RequestHandlers` (with `docs` replaced by what lookups
find), so that their theorems hold in it; the lemmas `Same...` only say that the
operators the server calls are those the theorems are about. A change of the
index has to move the revision, and the load has to come first and once
(`LoadedFirst`). `ServerReadsAtomically` is then the refinement of `AtomicReads`
in the composed system. Its own theorems: `StoreAndIndexAgree` and
`DiagnosticsAreCurrent` assume `NoCaseCollisions`, without which an overlay may
reach another file's entry; `ClosedDocumentsShowNothing` assumes nothing;
`ShutdownIsOrderly` needs `ReuseIds = FALSE`, as a call whose registration was
overwritten is not cancelled. `StoreInv` adds to `IndexFollowsStore` that two
open documents are of two files and that nothing is open before the load;
`OverlayEffect` and `RemoveOverlayEffect` of `WorkspaceIndex_proofs` say which
lookups a call changes. `ShownInv` strengthens "current when the server reads":
at any time, an open document is current on the client's screen or waits in
`todo`, also while a walk is under way; that publishing skips no document it
should show needs `OpenTextIsIndexed`.

**Transport_proofs**, the half that writes. From the assumptions on the constants: `ConnectionTypes`,
`WritersAgree` (`ConnectionInv`), `OutputIsFramed`, `AnswersAreUnique` and
`OrderlyEndLosesNothing`. That frames are whole is not inductive: the next chunk
fits only if the last one in the stream is the one the writer thinks of. So
`WriterInv` says that exactly the holder of the lock is writing, that without a
holder the stream ends with a whole message, and with one it ends with the chunk
before `at`, as long as nothing has failed; after a failure nothing is ever
appended. `AnswerInv` ties answers to tasks: who has an answer in the stream is
done, and who is done has one, unless the client is gone. `MainInv` says that the
main loop has one message at a time and stops after everybody. One lemma each
says what leaving `handle`, ending a write, reporting and putting a chunk do;
then there is a proof of each part of the invariant, by actions. `OutputIsAStream`
is the refinement of `MessageStream`, step by step: every step is one of the
abstract stream's or none that the client sees. `MessagesIn` is what the client sees
of the chunks, a recursive function that passes over all but the last of each
message; `StreamInv` says that each of its messages comes from such a chunk, so that
who has an answer in the abstract stream has one in the pipe, and that a task that
is no request writes only notifications.

**Resolution_proofs.** `TargetsAreUnambiguous`, `DiagnosticsAreRight`,
`ReferencesAreAPartition` and `CompletionsResolve`, from `AnalysisAssumption`,
`ContextAssumption` and `NoCaseCollisions`. The queries find files through the two tables, the properties
speak of files: `IndexInv` makes the tables those of the documents, and with one
document per path (`OneDocumentPerPath`) what a table gives for a path is the
file. The rest is logic on the state: an unresolved reference has an empty
`Scoped`, `InTargetFile` or `InLoadedBlocks`; a list of references is determined by
the target, which every listed place has in common; and what completion offers
lies in the sets that resolution searches.

What `CompletionsResolve` says needs its cases. In a complete text an accepted
variable, call or grid means something, and only what was offered under that name: the
two entities, that around the cursor for completion and the outermost scope for
resolution, are one. The exception is a name offered for a loaded block when another
entity of the same file has it: resolution looks into the file first, and finds that one
(`Work` in the second dialog of `other`). Nothing says that it means one thing only, as two of
one name may be defined. In a malformed text, completion offers what
resolution cannot find: a variable without a scope, and the names of a
block that is loaded by a reference without one. For all else an item means
something there, too, and a variable never one that was not offered.

That among visible definitions one
shares the longest scope needs maxima of bounded sets
(`BoundedSetsHaveMaxima`, from `WFMin`). `AnswersFollowContents` is an action
property: a step that leaves every file's text as it is leaves the answers (`Answers`) as
they are: what each reference means (`Meanings`), what stands and is listed at each place
(`Lists`), what is reported (`Diagnostics`) and what is offered at each cursor (`Offers`).
Every query is shown to be a function of `Contents`, the texts by file: under
the invariant a table entry is the document of its file, whatever URI it is held
under.

**Transport_proofs**, the half that reads. That Read returns what was sent is
not inductive: the reader knows no frames, it only looks for an empty line and
counts. `Layout` says what the client has written where: a frame's header is made
of header lines, its blank line is `HeaderEnd`, the last length before that is
the payload's (`Counted`) or there is none and the frame is no message
(`NotCounted`), and all of it may have been cut off behind any item. `HeaderInv` and
`PayloadInv` say that the reader is in the frame it returns next, remembers the
last length it passed, has passed nothing it must refuse, and begins a payload
exactly at its beginning. That needs the client to write nothing but header lines
in a header (`ClientSendsItems`, which the run evaluates); payloads may be any
items. `MessagesArriveAsSent` and `RunStopsForAReason` follow, without a bound on
frames, payloads or headers.

**TextDocument_proofs.** `PositionsAndOffsets`, `PositionsCountUnits` and
`FoldsEndWithBlocks`, of any bytes, valid UTF-8 or not. `TextInv` says that the line
table is that of the text; the rest is about a text as it is. The decoder goes from
character to character, the properties are about any offset, so the lemmas are
about character boundaries: a scan that starts between two characters stays between
characters (`NextCharacter`), reads the same ones whether or not the text goes on
behind them (`SizeUpTo`), and a line starts and ends between two. The Go
loops are recursive functions here; that such a function exists is proved first (by
extending one on a smaller interval), and then its value by induction, as a set of
numbers that contains the last and with each the one before (`BackwardInduction`).

**Completion_proofs.** `LinesAreUnderstood`, `IdentifiersAreReplaced` and
`StringsAreReplaced`, of any line and any place of the cursor. The invariant of the
scanner's loop (`ScanIs`) ties its state to the meaning of the line up to there: it
has ended if a comment has begun; it is in a string if the quotes are odd in number,
or if the last one is the first half of a doubled one, which it is about to skip;
and its stack is that of the calls that are open (`StackIs`), from the outermost to
the innermost. The stack does not say where its calls are, so `StackIs` asks for
positions that go with it: names and arguments are those of the parenthesis at the
position, and a depth counts the parentheses that are open between it and the next
call. `OpenBalance` and `OpenCloses` are why counting is enough: the balance behind
an open parenthesis is the number of open ones behind it, so that the innermost is
the one that a closing one closes. For edits, `EncodeIs` gives every character of a
label the place it is written to: a quote takes two, so that no quote of the label
closes the string, and `EndCloses` says that `quotedReplacementEnd` stops at the
first one that does, from any place where quotes are odd. Behind a doubled quote
and before another one the quotes are odd, too, and the code begins one quote
further on: this is the place that `EditsAreSafeElsewhere` leaves out.

The theorems about documents are `BlocksAreRecovered`, `PlacesAreRecovered` and
`TerminatorsAreRecovered`, for any documents and any trees the parser may make of them, from
`LanguageAssumption` (`TablesFit`). Completion keeps no state, so all the invariant
speaks of is the editor: `StructureInv` says that a line was opened and ended once,
and that what is open behind a line follows from that line and what was open before
it (`FollowsLine`), whatever is written later. The scan does the same to its blocks
(`BlocksFit`): they are those that are open, in order, only the first is a definition,
and each is of the kind of its node, if the tree has one. That is more than the
property says, and needed: which terminator ends a block depends on all that opened
behind it, and that a node around the cursor and the block found by the scan are one scope
depends on their kinds. A tree has at most one node for a line (`TreesAre`), so that a scope is
known by its start, and sorting is counting those before (`InOrderIs`).

**SyntaxLowering_proofs.** All five properties are proved, for every grammar that is
as the analyzer takes it (`GrammarAssumption`) and without a bound on the nodes of a
tree. `TreesAreAsWritten` is the invariant `Tree` of the trees a parser builds; the
others follow from it. It has five parts: nodes are records of the grammar; what is
around a node comes before it, and what comes after an open node is within it
(`NestingOK`); of two nodes neither of which is around the other the first ends before
the second begins, and a node with a token begins before its children (`PositionsOK`);
what is between a node and one within it is within it, too, and nodes begin in
the order of their numbers (`OrderOK`); and the children of a node are, in order, the
beginning of a production, the rest of which is still to come as long as the node is
open (`GrownOK`). The last needs the others, as a child is the last of its siblings
only because all nodes after an open one are within it.

- `ErrorsAreShown`: about errors only, with no use of the grammar.
- `TargetsAreCompleted`: the scanner counts the commas that end before a string begins,
  wherever no call with a name intervenes, analysis those among its earlier siblings.
  `CommaPositions` is that order of siblings is order of text, and `SlotsDiffer` that two
  arguments have a comma between them, so that a slot holds one argument. `ScannedAsCounted`
  puts them together: before a target there is no argument, and before its file only the
  target, which is a string with nothing in it, so no comma deeper down is counted.
- `DefinitionsAreOutlined`: the outline takes the first identifier anywhere in a header,
  `lowerDefinition` the first field of the first record in it, if that is an identifier
  alone. `NameInHeader` is that these are one node: nothing before that record, and
  nothing in it before its first field, is or holds an identifier.
- `NamesMeanOneThing`: whether an identifier is a variable is passed down the tree
  (`AllowsVariables`, a recursive function: `AllowanceExists` proves that there is one, so
  that `AllowsStep` may unfold it). An entity suppresses its header, and
  `HeadersHoldNoVariables` is that nothing within the header allows them again.
- `ResolutionIsFed`: `EntityAround` finds, for all that is not a dialog or one of its like,
  the child of the file it is in, its outermost scope. A declaration has no token
  of its own and begins where its name does; that name is in the text, and is the next node
  (`DeclaredNamesAreNext`) and is nothing else that is defined or referred to
  (`NamesAreNoUses`), so `ThingsBeginInOrder`.

What `GrammarAssumption` says, and where each part is needed: a child that is asked for by
its field is the only one with that field, and only the nodes whose fields the code
reads have them (`FieldsDiffer`, `FieldsAreOf`); the grammar puts a comma between any two
arguments (`ArgumentsAreSeparated`); a declaration begins with its name
(`NamesComeFirst`); there is nothing in a comma, a comment or a string
(`NothingIsInWords`); a header consists of records and of words that are no identifiers,
and nothing that is defined or executed is within a header or a declaration
(`HeadersAreRecords`, where `inner` names the kinds that are); and a file is made of dialogs
and their like, which are nowhere else but in unparsed text (`FilesAreDefinitions`).
Errors and missing nodes may be anywhere else, also in files, blocks and calls. Nothing is
claimed of an error within a header, where one walk may take an unparsed identifier
for a name and the other not, or beside an argument without a comma between them.

**Only model-checked.** Liveness and whatever needs ENABLED: that calls are answered
and the loops come back, and of `MessageStream` that it answers every request (its
steps are proved). Every safety property that a passing run checks is a theorem.

## Not modelled, and why

- The parser: the grammar is another repository. Its output is a constant in
  `Resolution` and any tree of a grammar in `SyntaxLowering`; that
  `AnalysisAssumption` of the one is what the other produces, from malformed texts as from
  others, is the property `AnalysisIsAsAssumed`.
- `didOpen` of a document that is open already, under its own or another spelling: LSP
  forbids it, and `DidOpen` of the model is guarded against it.
- JSON: a message can be encoded or decoded, or cannot.
- Hover Markdown with the catalog of builtins, versions and types of declarations,
  the kinds of nodes that fold, icons, details, the list of statement keywords and
  the names of files that completion offers: renderings and tables without state.
- A store that is asked about unopened documents: refusals without effect.
- URI and path decoding on the two platforms: constants (`Identity`, `PathOf`).
- Panics, memory, and the context given to `Run`, which `main` never cancels.

## Plan

Done, in this order: `AtomicReads` and `RequestHandlers`; `CaseFoldedFiles` and
`WorkspaceIndex`; `LanguageServer`; `TextDocument`; `Resolution`; proofs of the
two state machines underneath; `MessageStream` and `Connection` with proofs;
`CompletionLine`, `CompletionStructure` and `SyntaxLowering`; `MessageReader`;
proofs about `LanguageServer` on top of those of its two components; proofs about
`Resolution`, `MessageReader`, `TextDocument`, `CompletionLine`,
`CompletionStructure` and `SyntaxLowering`.

Next:

1. `definition`, which reads the store first and the index second, as an action of
   `LanguageServer`; `OpenTextIsIndexed` says that it makes no difference.
2. The names of files that completion offers and when they are unambiguous, and
   the choice of what hover describes, on top of `Resolution`.
3. Refinement of a store of open documents: what the client sees, abstractly.
