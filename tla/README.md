# assay-watch in TLA+

A model of assay-watch kept beside its code: what the crawl, the searches and
the deploy pipelines do step by step, which properties make them correct, which
of these TLC checks on small instances and which are proved for every value of
the constants. `PROJECT.json` is the index: the components, the runs, the code
each definition models, the hazards, the findings and the theorems. Paths below
are relative to the repository; `mcp/` stands for
`mcp_server/src/assay_watch_mcp/`, `web/` for `web/src/assay_watch_web/`, and
`crawl/`, `adapters/`, `db/` for directories of `src/assay_watch/`.

## The system

A daily job crawls the listings of a few stores into two append-only tables. A
server answers questions about current prices from those tables and looks up
live listings at a paid service. A web service turns a visitor's words into such
questions, with a language model where words have to be understood or written,
and streams the answer to one page. Cloud Build deploys the job and the services.

    sources.yaml, references.yaml
        |
     crawl runner --fetch--> adapter --get--> polite HTTP client --> stores
        | start_run, record_listings, finish_run
     crawl_runs, listing_snapshots (Postgres)
        | four queries, a connection each
     MCP server: pricing queries, catalogue, live search --> paid API
        | a remote call per tool
     web service: search, orchestrator --> language model
        | server-sent events
     search page

| Component | State it keeps | Operations | What makes it correct | What is hard |
|---|---|---|---|---|
| Crawl runner (`crawl/runner.py`, `cli.py`) | per execution: adapter, reference, counters, results | `run_crawl`, `_run_one`, `_iterate`, exit code | every source's row says what happened; one failure costs no more than its part | failing statements and commits, commits that took effect although they raised, failing rollbacks, kills, executions that overlap |
| Snapshot storage (`crawl/storage.py`, `db/`) | `crawl_runs`, `listing_snapshots`, the session's transaction | `start_run`, `record_listings`, `finish_run` | append-only; a finished run never changes | one constraint over all references of a run; transactions open across fetches |
| Crawl metrics (`crawl/metrics.py`) | results of the sources | `record`, `write` | agree with the rows | written only at the end |
| Polite HTTP client (`adapters/http.py`) | robots verdict and last request per host | `get` | robots.txt honoured, requests spaced, retries bounded | retries, Retry-After, failed robots.txt |
| Shopify adapter (`adapters/shopify.py`) | catalogue per store, for one run | `fetch`, `_load_catalog` | every answer is of one set of catalogues; one store's failure is its own | stores that fail for one reference and recover for the next, error statuses, malformed products |
| eBay adapter (`adapters/ebay.py`) | none (a stub) | - | - | - |
| Pricing queries (`mcp/queries.py`) | none: reads the tables | `get_cheapest`, `get_fair_price`, `list_listings`, `price_summary` | the queries agree; junk is not quoted | filters written twice, medians at ties and even counts, runs published between reads |
| Live search (`mcp/fetcher.py`) | LRU cache with its lock, limiter with its lock | `search` | the quota holds, nothing stale is served, failures are not cached | worker threads in any order |
| Reference catalogue (`mcp/catalog.py`) | none | `load_catalog`, `find_reference` | what a text quotes comes first, what it likely names before what it possibly names | ties, the bonus of a brand, the cut after the sort |
| Readers of text (`_parse_price`, `_matches`, `_extract_offers`) | none | price texts, product texts, extracted offers | a price as it was written or none, a product under the reference it spells, offers only from the text | marks that change meaning, tokens that meet, a model that invents |
| Web search service (`web/search.py`, `web/main.py`) | per request: task, queue, generator | `run_search`, `events` | the stream keeps its contract and ends | disconnects, cancellation, two lookups at once, failures after half the answer |
| Search page (`web/static/index.html`) | the card, the prose buffer, the last result, the panel | `runSearch` and its events, `openModal` | the words on a card are its own | streams and fetches that overlap |
| Orchestrator (`web/orchestrator.py`) | the conversation, the turn | `run`, `_dispatch` | every call answered and reported, turns bounded | failing calls, a model that never concludes |
| Crawler pipeline (`cloudbuild.yaml`) | two jobs, the schema, the known-good tag | deploy, migrate, dry run, tag, rollback | what runs has passed the gate | failures and kills at any step, builds that overlap |
| Web pipelines (`cloudbuild-web*.yaml`) | staging and production services, tags, requests | deploy, test, request, approve, promote | what is approved is what runs | shared staging, tags that move, half promotions |
| Backups (`scripts/backup.sh`, `restore-check.sh`) | the dump files, the throwaway database | dump, prune, check | the last good dump is kept; what is verified can be restored | partial files, pruning by age, a check among running backups |
| Migrations, configuration, CI | see `PROJECT.json` | - | - | - |

Components interact in four ways. The runner *calls* its adapter, and the
adapter its client, one call at a time. The crawl and the queries *share the
tables* and nothing else: no lock, no message, so a reader relies on what the
tables promise (module SnapshotLog). The web service *calls* the MCP server's
tools over HTTP; any of them may raise or time out. The page receives *messages*
and relies on the order they come in (module StreamContract). The pipelines
share jobs, services and tags, without a lock either; backups and the restore
check share a directory.

## Modules

| Module | Models | Checked by | Proved in |
|---|---|---|---|
| `SnapshotLog` | abstract: what the two tables promise readers | `ImplementsLog` of Crawl | CrawlProofs |
| `Crawl` (`MCCrawl`) | runner, storage, session, exit code | `crawl`, `crawl_overlap` | CrawlProofs |
| `PoliteClient` | the HTTP client | `stores` | PoliteAdapterProofs |
| `ShopifyAdapter` | the adapter over the references of a run | `stores` | PoliteAdapterProofs |
| `PoliteAdapter` (`MCPoliteAdapter`) | the two composed: a page of the adapter is a call of the client | `stores` | PoliteAdapterProofs |
| `Fetcher` | cache, limiter and threads of the live search | `fetcher` | FetcherProofs |
| `PriceQueries` (`MCPriceQueries`) | the four queries and the reads of a search, over runs in progress | `queries` | PriceQueriesProofs |
| `StreamContract` | abstract: what the event stream promises the page | `KeepsContract` of WebSearch | WebProofs |
| `WebSearch` | search task, queue, generator, client | `web`, `web_live` | WebProofs |
| `SearchPage` | the script of the page over overlapping streams | `page` | WebProofs |
| `Orchestrator` | one run of the tool loop | `orchestrator` | WebProofs |
| `ReferenceCatalog` | the ranking of references a text names | `reading` | ReadingProofs |
| `PriceText` | how a price text is read | `reading` | ReadingProofs |
| `TokenMatching` | when a product is filed under a reference | `reading` | ReadingProofs |
| `GroundedOffers` | what is kept of a grounded answer and its extraction | `reading` | ReadingProofs |
| `MCReading` | drives the four, on every input up to a bound | `reading` | ReadingProofs |
| `Deploy` | the crawler pipeline | `operations`, `deploy_overlap` | OperationsProofs |
| `WebDeploy` | the staging and promotion pipelines | `operations` | OperationsProofs |
| `Backup` | backups and the restore check | `operations` | OperationsProofs |
| `MCOperations` | the three, each on its own | `operations` | OperationsProofs |
| `Subsequences` | what a loop with an `if` in it keeps of a list | with its users | SequenceLemmas |
| `SequenceLemmas` | induction, and what filters and concatenations of sequences keep | - | itself |

### SnapshotLog and Crawl

SnapshotLog has a phase, a start time and a set of rows per run. A run is
opened, collects rows, and is published (`success`, `partial`) or closed (a
finished `failed` row); then nothing about it changes. `Visible` is the run the
`_CURRENT` query takes for a source.

Crawl has any number of executions (the scheduled job, one started by hand, the
pipeline's dry run). `pc` is the place in `run_crawl`/`_run_one`/`_iterate`; one
action stands for the code between two points where another process can
interfere or the process can die: a fetch, a statement, a commit. A commit is
"ok", "lost" or "unknown" (it raised although the server had applied it), and a
kill during a commit may leave either state. `tx` is the session's transaction:
a failed statement aborts it, and an aborted one accepts nothing but a rollback,
which may itself fail. `NewRows` is `INSERT .. ON CONFLICT DO NOTHING` under the
unique constraint, which does not contain the reference. `offered` records what
the source returned, so that rows can be compared with answers.

The phase of a row maps the crawl to the log: `failed` without `finished_at` is
open, `failed` with it closed. That a row *starts* as failed is what makes a
killed process harmless, and the mutant that starts it as success breaks three
properties.

### PoliteClient

`get` is four steps: the robots verdict, the wait of `_respect_rate_limit` (a
jump of the clock) with the request, the response, the retry. `last` is the
code's `_last_request_at`; `sentAt` and `answer` are what really happened, and
the properties are about those. The request for robots.txt is part of the step
that reads it and is outside the interval, as in the code; a redirect is part of
the request `httpx` follows it in.

### ShopifyAdapter

The loops of `_iterate`, `fetch` and `_load_catalog`, a page request per step. A
page answers with products, is refused (a status other than 200, which ends the
loop like an empty page) or raises. Which products match a reference, and which
raise when matched against it, are constants: which tokens match is data here.
`catalog` is the run's cache; `loadedBy`, `failed`, `begun` (every load, with its
first page) and `got` (what the pages of the last one held) record how it came
about. `FailureForgotten` is about them: a reference that finds a store missing
from the cache loads it from page 1, whatever failed before, and what is cached
is what that load's own pages held.

### PoliteAdapter

The two as the crawl runs them, in one process: where the adapter waits for a
page (`pc = "page"`) the client's `get` runs from its call to what it returns or
raises, and only that is the page's outcome; while the adapter goes from store to
store the client is idle, and the clock runs by itself. A response of any status
may be a page, a refusal, or no JSON; robots.txt that forbids the store raises
`RobotsDisallowed`, which the adapter takes for any other exception. Each step is
a step of one module or of both, so the modules keep their own specifications,
and `CrawlRunsBoth` proves that a behaviour of the composition is a behaviour of
each. What can only be said of the two together is said here: `RobotsHonoured`
adds to the client's promise (no page request without a verdict that allows it)
that a store which was never asked is never kept as one that has nothing to sell.

### Fetcher

Every thread that runs `search` against the one cache and limiter. `data` is the
`OrderedDict` as a sequence. `Acquire` takes the limiter's lock and `Release`
leaves it after the sleep; the lock of the cache is held for one step at a time
and needs no variable. Re-inserting a key moves it to the end: `Without` drops the
old entry, in the terms of Subsequences. The paid call is a step of its own after `Release`, for
that is where a thread may be held up. The clock starts at any `Start`, for
`time.monotonic()` does.

### PriceQueries

`runs` holds runs in the order of their start with their rows, written by
actions that abstract what Crawl does. The queries are operators over it:
`LatestRuns` is `_CURRENT`, the floor is the one of `_PLAUSIBLE_FLOOR` with the
median as `percentile_cont(0.5)` computes it (doubled, to stay in integers).
`price_summary` repeats these filters in its own text and so has definitions of
its own, and `CatalogueOverview` is what the server's tool makes of it: a row for
every tracked reference, with prices or without. A search reads three times, on three connections, while runs go on;
`published` notes whether one of them was published in between.

### StreamContract and WebSearch

StreamContract says what the page may rely on: progress, at most one partial
that has figures, prose only after the partial, one ending, which repeats the
partial and the prose, and no error once figures were told: a model that fails
to explain them costs the prose only. WebSearch is the code: the task of `run_search` from one
awaited remote call to the next (the lookup on the open web is two: the grounded
search and the extraction), `run()` with its error and sentinel, the
generator `events()` with its `finally`, and a client that may leave. A
cancellation reaches the generator in `queue.get()`, where it cancels the task,
or leaves it suspended at a `yield`, where closing it later waits for a task
nobody cancels. `asyncio.gather` cancels its two lookups where it is cancelled
itself (`Cancelled`), and does not where one of them raises: after a live lookup
that raised, the web lookup may be on its way, to its end or to its extraction,
behind a response that is over. `SearchContained` says that this is the only way
in which anything of a search outlives its response. The refinement maps the generator to the contract's stream: "cut" is the
client's doing, "ended" the server's. `MaxChunks` and `MaxPick` bound what the
model writes and names; the theorems hold for any of them.

### SearchPage

Each search's stream is requested, brings figures, of the crawl or of the live
web, prose and an ending, and is closed behind that, or its connection fails at
any of these points; it keeps the contract above. The end of the stream is a step
of its own: a search may be started, and the connection may fail, between a result
and the end behind it. `host` is the card's `#stream-text`, which a card has or
not, or hides. All of them write the one results
card, buffer and last result, as the script does. The page does not keep a
visitor to one search at a time: its button is disabled, tiles and choices are
not. `overlapped` says whether the last search was started while another awaited its
result,
`late` whether the panel was opened while a list was on its way: what the page
gets right is stated where it was not, whatever happened before. The panel's
fetches answer in any order.

### Orchestrator

`contents` is the conversation. A turn asks for calls, known or not, which are
dispatched one after the other and answered together; a generation may fail.
`StepsLeft` is a variant of the loop: every step brings the run's return nearer.
The result holds the calls made, the text and whether the run was truncated.

### ReferenceCatalog, PriceText, TokenMatching and GroundedOffers

Pure functions, each stated beside a reference definition of what it is for.

ReferenceCatalog takes a query as the words it holds and the references it
quotes, and a score as a number of halves of a reference's model words, so that
the division of the code stays in integers. `QuotedFirst` says that the cut list
never hides a quoted reference behind one that shares its words, and that
`_resolve` takes it without the model; `LikelyFirst` and `WordsHelp` say what the
order means. `WordsHelp` compares two references: with one more word of its model, a
reference that was not behind another comes before it wherever that other is still
listed, or both lose their places to others that have the word too. Scores are exact here and floats in the code, where
rounding may decide between two that are equal.

PriceText takes a text as groups of digits and the marks between them, and a
number as how many digits stand before and after its point: parsing never
reorders digits. `Written` is the set of numbers a person may mean, a blank is
always allowed, a wrong number never, with one exception (see Known limits).

TokenMatching has the scan of `_tokens`, from left to right as `findall` goes, and
the loops of `_spans_whole_tokens` over the tokens of each text, against `StandsIn`:
the term, punctuation aside, from word boundary to word boundary of one text.

GroundedOffers has the two calls of `search_web_market` as data: what they
answered, or that they raised. An offer is kept if its page was cited and its
digits occur in the text's. `ReadOff` spells that out digit by digit, and the
converse is checked too: an offer whose price is a figure of the text is kept.

### Deploy and WebDeploy

A build, its images and its newest migration share a number. In Deploy the dry
run executes the *job*, whatever image it holds by then; the trap covers the
steps from the first deploy to the dry run and is off for the tag; a kill runs
no trap. A rollback changes the job's image alone: the migrations of the build
that failed stay, and so does the image where the tag cannot be read or the update
fails. That an older image runs on a newer schema is for the migrations to see to:
none says whether it is compatible, and the model does not say so either;
`SchemaAheadByUnfinished` only states whose migrations the database can be ahead
by. In WebDeploy builds share the two staging services, the smoke test asks
those, and a promotion deploys the two images of the commit it was requested
for, one after the other. Nothing in the repository keeps builds from running at
the same time, and nothing in the models does; `overlapped` notes that they did,
for what the dry run and the smoke test show is then about another build.

### Backup

Executions of `backup.sh` begin in order and then run as they like: a dump is a
partial file until `pg_dump` ends, with the time of its last write, and only a
completed one lets `find` prune by that time. A dump that fails or is killed
leaves its file. The check picks the newest file, creates a database, restores
and counts; its trap may fail to drop the database. `completed` and `before`
remember which dumps were good, and which when the check picked. Assumed: a dump
is written to at least once within the retention, and `find` runs in the same
day as the dump before it (`Tick`).

## Runs

The passing runs, with what each shows and why its bounds reach the interesting cases:

| Run | Shows | Bounds |
|---|---|---|
| `crawl` | A success row has every listing of every reference, a partial row one reference in full; counters, rows, reports and exit code agree; a dry run writes nothing; no transaction is open across a fetch; every reference is tried; the execution ends. | One execution, 2 adapters (the second is reached after every kind of end of the first), 2 references (one may fail and one work), 5 answers with none, one, two and repeated listings. |
| `crawl_overlap` | Executions that overlap, fail and die change the tables only as SnapshotLog allows; finished runs are frozen; readers never go back. | 2 executions on one source: a reader compares two runs. |
| `stores` | The adapter on its client: no page request without a verdict that allows it, page requests spaced through retries, other stores and failures; answers are the matches of the catalogues the run keeps; a store that failed is loaded again, from its first page, for every later reference until it answers; one store costs no other its answers; the run ends. | 2 stores, 2 references, 3 products (one matched by both references, one malformed for both, one for the first only), 2 pages; interval 2, 1 retry, waits of 0 and 3: shorter and longer than the interval; the clock ticks by itself up to 1, and goes on with the waits. |
| `fetcher` | n paid calls take n - 1 intervals; what is served is fresh; failures are not cached; the cache drops what was used longest ago. | 2 threads, 3 keys in a cache of 2, time-to-live equal to the interval, so that entries expire while a thread sleeps. |
| `queries` | The four queries tell one story; a minority of junk is never quoted; a priced reference has an answer while runs overlap and fail; the three reads of a search agree unless a run is published between them. | 2 runs of 2 sources in any order of their ends. The first has every list of 1 to 3 prices out of 0, 7, 20, 100 (ties, zero, even and odd counts, prices on the floor: 7 is 35% of 20) with a row of every other kind and reference. |
| `web` | The stream keeps its contract and ends, and nothing of a search outlives it but the web lookup behind a live lookup that raised. | 2 references, prose of up to 2 pieces of which each may be blank, picks of up to 2 names. |
| `page` | The prose and the card of a search started alone are its own and stand, a panel's rows are those of its head, the button always comes back. | 3 searches: two that overlap and one alone after them; one word each; 4 acts in all, so that three searches leave one panel and two searches leave two, one opened while the other's list is on its way. |
| `orchestrator` | Every call is answered in order and reported; generations are bounded; every step brings the run's return nearer, and it never stops short of it. | 3 turns of up to 2 calls among two tools and an unknown one. |
| `operations` | Of the crawler pipeline, while builds do not overlap: the known-good image passed the gate, the database has its migrations and is ahead of it only by builds that did not complete, and between builds the job rests on an image that passed. Of the web pipelines: production only runs what was approved, although tags move, and the two images of a build in production were tested together. Of the backups: the last completed dump is kept however long later ones fail, and a check that verifies restored a completed dump no older than any it could have taken. | 3 builds in any interleaving (a good one, a failure after it, a good one again, or two at once); 3 backups over 3 days with a retention of 1 (a dump that is due to be pruned while the ones after it fail). A behaviour runs one of the three systems, which share nothing. |
| `reading` | References are ranked as the query names them; a price text is read as written or left blank; a product is filed exactly where it is spelled; offers come from the grounded text. | Every query of words and numbers over 5 references (two models of one brand with a common word, a word two brands share, one not enabled) with a limit of 2, so that the cut bites; price texts of 7 tokens ("1.234.567,89" has 7); two texts of 6 characters together, terms of up to 3; 2 figures and 2 offers. |

The bounds that are not data are named where they are declared: `MaxTime` (the
ticks of the clock beside the waits, in PoliteClient and Fetcher), `MaxRuns`, `MaxChunks`, `MaxPick`,
`MaxWords`, `MaxActs`, `MaxCalls`, `LastBuild`, `LastBackup`, `MaxDays`,
`MaxTokens`, `MaxText`, `MaxFigures`, `MaxOffers`. Deadlock is checked of
`orchestrator`, where only a run that returned may stop, and not elsewhere: the
other systems may legitimately stop (an execution ends, a visitor leaves, no build
is pushed). `queries` uses that the two sources are interchangeable.

Where a module's invariants say one thing together they are checked as one
conjunction of named parts, with the type invariant: `FoundCoversRows`,
`CacheCorrect`, `QueriesAgree`, `SearchContained`, `CardIsOwn`, `CallsAccounted`
(with the bound on turns), `KnownGoodIsGood`, `ApprovedIsDeployed`,
`HistoryKept`. The type invariants of PoliteClient and ShopifyAdapter, and
`RobotsReadOnce`, `CallBounded`, `PermitsSpaced`, `CataloguesFrozen`,
`FinishedRunsFrozen` and the growth of `listing_snapshots`, are proved and not run.

Two runs find the program doing what its documentation denies. `web_live`: the
two lookups of a search are gathered without `return_exceptions`, so a live
lookup whose tool call fails ends the whole search in an error
(`web/search.py:165`), although the other lookup may still answer and
`mcp/fetcher.py:21-23` says that a live lookup "must never be the reason a search
fails". `deploy_overlap`: a build runs its dry run on whatever image the shared job
has and then tags its own (`cloudbuild.yaml:91`, `:96`), so that with two builds in
progress one is tagged that nobody tried, and the other is rolled back to it,
although "any failure rolls the crawl job back to the last image that passed this
same gate" (`cloudbuild.yaml:3-4`).

## Known limits of the code

The properties are stated as far as the code goes. Where it goes less far than a
reader of its documentation may think, the models have the behaviour, and the
properties leave room for it:

- A listing that two references match gets a row for the first only, for the
  unique constraint does not contain the reference (`crawl/storage.py:99`);
  `FoundCoversRows` and `StatusIsTruthful` speak of listings kept.
- A database error while an unhealthy source is recorded ends the execution
  (`crawl/runner.py:100`); the exit code is then not zero.
- robots.txt and the first page are requested back to back (`adapters/http.py:67`);
  `PagesSpaced` is about pages.
- A source none of whose stores answers ends as a success without listings
  (`adapters/shopify.py:191`), and a catalogue that an error status cuts short is
  cached as it is (`:114`). A malformed product costs a reference every store's
  answers (`:202`), which is the exception `StoresIndependent` names.
- A robots.txt that could not be read stays a refusal for the life of the client
  (`adapters/http.py:82`): a store that failed for that is asked again for every
  reference, and fails for each. `FailureForgotten` says that it is asked, not that
  it answers.
- Threads that miss one key together each pay for it (`mcp/fetcher.py:250`), and
  two calls held up after the limiter may leave together (`:252`):
  `QuotaBounded` counts calls from the start of the process.
- A run published between the reads of a search mixes two crawls
  (`web/search.py:158`): `ListShowsTheWorking` excludes just that.
- Two searches at once write into each other's card, and the list of an earlier
  panel may fill a later one (`web/static/index.html:1161`, `:1250`). A connection
  that fails behind its result replaces the card on screen, its own or that of a
  later search, with the message that the service could not be reached (`:1321`).
- A dry run or smoke test of builds that overlap is of whatever image is deployed
  (`cloudbuild.yaml:91`, `cloudbuild-web.yaml:160`), and a killed build leaves its
  image on the crawl job.
- A point alone before three digits, "12.500", is read as a decimal mark
  (`mcp/fetcher.py:180`), although a wrong number is to be worse than a blank
  (`:151-153`): `LonePoint` is the exception of `ReadAsWritten`. Outside of what
  `Written` allows, digits after a space join the number ("12,500 2024"), and a mark
  after the cents makes thousands of them ("12,50."). The symbol "$" is looked for
  anywhere, so Hong Kong dollars read as US dollars; currencies are not modelled.
- The bonus of a brand can put a possible match before a likely one of another
  brand, although matches are "most confident first" (`mcp/catalog.py:75`);
  `LikelyFirst` asks for equal brands. More matches than the limit hide the rest
  from the model that chooses.
- A price passes the check of offers if its digits occur anywhere in the digits of
  the text put together, also inside a longer number or across two
  (`web/gemini.py:256-261`).
- The newest dump file may be the partial one of a failed backup, and the restore
  check then fails although an older dump is good (`scripts/restore-check.sh:13`):
  `VerifiedRestores` speaks of checks that verify.

## Fairness

Liveness is claimed only where the code or its runtime justifies the fairness:

- Crawl: a launched execution takes its next step, for every request and
  statement it makes times out; nobody is obliged to launch one, and it may be
  killed at any time.
- PoliteAdapter: a request ends, with its timeout at the latest, and so does a
  wait (`Retry-After` is slept for as long as it says, which is some finite time);
  the retries of a page are bounded, and so are the pages.
- WebSearch: a remote call answers, raises or times out; the event loop runs
  what is ready; a client reads or goes. A disconnect is neither forced nor ever
  necessarily noticed, so `StreamEnds` does not rest on one.
- SearchPage: every stream goes on to its ending and its end, or its connection fails.

Orchestrator needs none: `RunShortens` bounds the steps of a run instead. Fetcher
claims no liveness: whether a thread that waits for the limiter's lock
is overtaken for ever is up to the runtime's lock. The pipelines may be killed
or left waiting for a person at any step.

## Proofs

TLAPS proves, for every value of the constants that satisfies the named
assumptions, all safety properties the runs check and both refinements of an
abstract specification. The assumptions say that sizes, intervals, retries, waits
and limits are natural numbers, positive where the code cannot run with none; that
threads and the batches a source returns are finite; that the values standing for
"nothing" are none of the values they stand beside; and that the catalogue is a list
of references whose models are finite sets of words, of which a ranking keeps at
least two (five in the code). The theorems about Backup state its bounds as their
hypothesis, `Bounds`, and TLC's instance satisfies it.

- **CrawlProofs**, for any number of executions, adapters, references and listings:
  types, the refinement of SnapshotLog, `ReadersMoveForward`, `SessionIsClean`,
  `DryRunWritesNothing`, `StatusIsTruthful`, `ReportMatchesRow`, `FoundCoversRows`,
  `EveryReferenceTried` and `ExitZeroMeansNoFailedRow`. What the log promises
  (append-only rows, frozen runs, readers that move forward) is proved of
  SnapshotLog by itself, so that it holds of every implementation, and carried to
  the crawl through the refinement. The argument has two layers. `Base`
  says where an execution is with respect to its rows: the row of the adapter it
  works on is open, the rows of adapters ahead are untouched, a dry run has
  none, and a transaction is open only between a statement and its commit or
  rollback. That is inductive because an execution changes no row but its own
  (`TablesChange`, `OtherRows`), and it is all the refinement needs: each commit
  maps to one step of the log and every other action to a stutter.
  `StatusIsTruthful` is not inductive, as it speaks only of rows that have their
  final status; `IInv` adds `ProgressInv`, which says what the run holds while
  references are still being fetched (with no failure so far, all answers up to
  the present one are kept; with some success, one of them is), and `ResultInv`
  for the reports. Three smaller invariants rest on these: `CountInv` ties the
  counters to the reference the loop is at, `ExitInv` gives every adapter left a
  result and a skipped one no row, and `FoundInv` bounds the rows of a run without
  failures by its count, for a batch adds no more rows than it has listings.
- **PoliteAdapterProofs**: `CrawlSteps` shows that a step of the composition is a
  step of the adapter or none, and of the client or none; hence `CrawlRunsBoth`,
  and what is proved of each module by itself holds of the crawl. Of the client:
  types, `RobotsReadOnce`, `CallBounded`, `PagesSpaced`; its invariant says that the
  code's notes are right (`last` is the time the last page request left and is
  never in the future, the verdict is the one its answer implies, no request is
  prepared without a verdict that allows it). Of the adapter: types,
  `AnswersAreCatalogues`, `StoresIndependent`, `FailureForgotten`,
  `CataloguesFrozen`; its invariant ties the listings gathered so far in the
  current reference to the stores passed, says which stores can still fail, and keeps
  the products of the load in progress equal to what its pages held (`FreshLoad`).
  `RobotsHonoured` is about both and needs `Together`: a call of `get` is for the
  page the adapter waits for, and every catalogue kept came from a store whose
  answer allowed it.
- **FetcherProofs**: `QuotaBounded` and `PermitsSpaced` by counting permits: calls
  made and threads about to call are at most one more than the intervals that
  `last` lies after the start, and at most the holder of the lock sleeps, with a
  wake-up time an interval after `last`. `CacheCorrect`, for any number of threads
  and any size: `CacheInv` says beside it that entries carry the time of their last
  success, none in the future; each access drops a key and puts it at the end of
  both the cache and the order of uses, which stay the same by the lemmas on
  filters, so that the first entry is the one used longest ago.
- **PriceQueriesProofs**: `QueriesAgree`, `JunkNotQuoted`, `PricedIsAnswered` and
  `ListShowsTheWorking`, for any prices, sources and runs. All but the last hold of
  any well-formed tables (`Tables`: finitely many rows with natural prices). They
  rest on lemmas about the medians of finite sets of rows: the k-th lowest price is
  a price (`NthIsPrice`), it is at least p if fewer than k rows ask less
  (`NthAtLeast`), and the dearest row is never below the floor, so the guard keeps
  some row (`GuardKeepsSome`). `ReaderInv` says for the last one that as long as
  nothing was published since its first read, a search has read what the tables
  still say; a step that publishes nothing leaves the visible rows alone
  (`QuietStep`).
- **WebProofs**: WebSearch refines StreamContract, for any candidates, prose and
  picks. `StreamInv` looks at everything that was put for the client (received,
  being sent, queued) as one sequence of events and says what it is at each place
  of the search: progress, progress with the figures and the prose so far, or all
  of it with its ending and the sentinel. The generator moves events along that
  sequence without changing it, the search only appends to it, and an event the
  client receives is one the contract allows after those before. `SearchContained`
  is inductive once it says too that the sentinel is never on its way to a client and
  where in the search each lookup can be out (`LookupsAwaited`).
  Of SearchPage `CardIsOwn` and `PanelRowsOfHead`: `AloneInv` says that while the
  last search was started alone any search that awaits its result owns card and buffer, so that
  no second one does, and `PanelInv` that a panel opened while no list was on its
  way waits for its own list only. Of Orchestrator
  `CallsAccounted`: the answers gathered are the names of the calls dispatched, in
  their order, and every earlier turn is answered in full; and `RunShortens`, by the
  arithmetic of `StepsLeft` (`TurnSplit`).
- **OperationsProofs**: of Deploy `KnownGoodIsGood` and `RestsOnPassed`, for any
  number of builds. While builds have not overlapped, one at most is in progress,
  the newest (`OrderInv`), and `BuildInv` says that the jobs and the schema are as
  its steps left them;
  `JobInv` says that only between the update of the job and the dry run, or before
  a rollback, may the job have an image that did not pass. Of WebDeploy
  `ApprovedIsDeployed` under any interleaving of builds, tags and approvals, and
  `PairWasTested` where builds do not overlap on staging (`PairInv`: a promotion is
  only asked for, and goes on, with a tested pair). Of Backup `HistoryKept` and
  `VerifiedRestores`, for any number of backups, retention and days: `FileInv` says
  that a dump that is about to prune was completed this very day, and that of
  every pruned file there is a completed one on disk that is no older; hence the
  newest file is no older than any completed dump. `OperationsRunEach` carries
  the three to the composition that is checked.
- **ReadingProofs**: `FiledRight` for texts of any length over any alphabet.
  `TokensAreRuns` says that the tokens of a text are its longest runs of letters and
  digits, in their order (`Cuts`: where each begins and ends, with a mark before and
  behind it, and no letter or digit outside of them), by induction over the text:
  one more character ends a token, carries the last one on, or begins one.
  `TokensSpell` then says that tokens put together are the letters and digits of
  the text from where the first begins to where the last ends; a term that stands
  between word boundaries begins and ends where tokens do, and what the buffer
  holds on the way is a prefix of it. `OffersGrounded` for any answers of the two
  calls, by induction over the figures of the text. `RankingHolds` for any catalogue
  and query: to be ahead is transitive and total (scores are compared by
  multiplying across), so the number of matches ahead of one is its place
  (`AheadOrders`) and every place is taken (`AheadReaches`, an injection between
  finite sets of one size); hence the sorted list has every match once, in order.
  `PricesRead` for texts of any length: leaving marks out or changing one for another
  keeps the digits (`WithoutIs`, `CommaToPointIs`), the two digits after the last
  mark are cents in any way of writing them and a group of three never is
  (`CentsRead`, `AmountRead`), and what the code cannot tell apart it leaves blank.
- **SequenceLemmas** is what several of these rest on. The induction theorems of the
  library take an operator, which the provers here cannot instantiate; so induction
  is proved once, from the least natural outside of a *set* (`Induction`,
  `InductionTo`), then for *sets of sequences* (`SequenceInduction`) and for the
  existence of recursive functions (`Recursion`). From these come the facts about
  filters (`Within...`) and concatenations (`Flatten...`) of sequences of any length.

Only model-checked: all liveness (`Terminates`, `StreamEnds`, `ButtonComesBack`),
which fairness puts out of the prover's reach, that a run of the orchestrator does
not stop before it returned, and that `web_live` and `deploy_overlap` are violated.

## Not modelled

- Prompts and what a model writes: WebSearch takes any outcome of them, and
  GroundedOffers any answers of the two calls.
- How a text is split into words, brands are read off a title (`_brand_from`) and
  currencies are told: pure, and no property is about them. WebSearch takes any
  set of matches and ShopifyAdapter a constant one; that ReferenceCatalog and
  TokenMatching are what they stand for is not composed.
- Configuration, the registry of adapters, settings: read once, constants here.
- The eBay adapter: a stub whose health check reports it unconfigured, so the
  runner skips it (`Skip` in Crawl).
- The schedule of the crawl job, which starts it whatever image it has.
- Migrations: one, which creates the tables. Deploy has the order in which
  migrations are applied, without their contents.
- Two dumps begun in the same second, which would share a file, and the moment in
  which a dump has all its data and `pg_dump` has not ended: a partial file never
  restores.
- A second build of the same commit, which would overwrite the image its tag names.
- A pause of the process between the note of the time of a request and the request
  (`adapters/http.py:94`, `:117`): both are one step of PoliteClient.
- Metrics' text format, logging, CI, the theme and layout of the page.
- `backfill-check` and the read-only endpoints change no state.

## Plan

In order of importance; the first ten steps are done.

1. SnapshotLog and Crawl, with the refinement and its proof: whether history,
   the one asset, can be trusted.
2. PoliteClient, ShopifyAdapter and the two composed: what the crawl may do to
   others, and what an answer is made of.
3. Fetcher and PriceQueries: what money is spent on, and what visitors are told.
4. StreamContract and WebSearch with the refinement; SearchPage on top of the
   contract; Orchestrator.
5. Deploy and WebDeploy.
6. ReferenceCatalog, PriceText, TokenMatching and GroundedOffers: what free text is
   taken to mean.
7. Backup: whether history survives the disk.
8. Proofs for Crawl, PoliteAdapter, Fetcher, Deploy and Backup.
9. Proofs for WebSearch with its contract, SearchPage, Orchestrator, the cache of
   Fetcher, PriceQueries, WebDeploy, TokenMatching and GroundedOffers.
10. Proofs for ReferenceCatalog (the sort by counting, a quoted reference above any
    other) and PriceText (what is kept by the marks that are dropped and exchanged).
11. SearchPage composed with StreamContract, so that the streams it assumes are
    the ones WebSearch provides.
