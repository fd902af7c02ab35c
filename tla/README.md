# Verification of cobalt-dingo

cobalt-dingo is a Go server and a set of command line tools around Fortnox, a Swedish
bookkeeping service: it connects companies over OAuth, pays foreign-currency supplier invoices
in batches, keeps a cache of a year's vouchers, reports what is outstanding, alerts on invoices
nobody booked, answers questions about the books through MCP tools and a chat, and forwards
receipt mails. This directory holds TLA+ models of the parts of it that have state,
concurrency or arithmetic worth checking, TLC configurations that check them, and TLAPS
proofs about them.

Paths are relative to the repository; `src/` is omitted where a file name is enough.

    tlc -workers 2 -config Token.cfg MCTokenRefresh     # one of the runs below
    tlapm TokenRefreshProofs.tla                        # one of the proof modules

## 1. Inventory

| Component | State | Operations | What is hard about it |
|---|---|---|---|
| Token refresh: `adapter/fortnox/refreshing_token_store.go`, `adapter/postgres/{token_store,refresh_lock}.go`, `adapter/file/tokenstore.go`, `fortnox/auth.go` | one token row per tenant; a PostgreSQL advisory lock; the pool's connections | `Load` (read, lock, read again, refresh, compare-and-swap), `Save`, `Delete`, `AtomicRefresh`, `Acquire` | the refresh token is single-use and reuse revokes the grant at Fortnox; several processes; crashes and lost answers between Fortnox and the row; connection exhaustion |
| Payment batches: `domain/batch_service.go`, `adapter/postgres/batch_repo.go`, `adapter/fortnox/erp_writer.go`, `adapter/pisp`, `ui/handler.go` | batch rows, items; payments in Fortnox; what the bank received | draft, `Submit`, `ConfirmExecution` | external calls between a read and a save, swallowed errors, partial failures, double clicks |
| Voucher cache: `domain/voucher_service.go`, `domain/voucher_cache.go`, `adapter/postgres/voucher_cache.go`, `fortnox/ledger.go` | voucher and row tables, sync row; the listing at Fortnox | `Vouchers`, `refresh`, `Assess`, `SaveYear`, `LoadYear` | a paginated read of a list that grows anywhere, versions of the fetch logic, overlapping jobs |
| Rate limiter and retry: `fortnox/client.go` | a counter and a window end per process | `waitForRate`, `do` with 429 | goroutines, window boundaries, retries that reset the window, no queue |
| Unbooked-invoice watch: `domain/unbooked_watch.go`, `adapter/postgres/unbooked_store.go`, `cmd/overview` | the remembered set | `Check`: read, compare, alert, reconcile | alert and memory cannot be one transaction; overlapping and killed jobs |
| Company connections and session: `ui/fortnox_connect.go`, `auth/{session,oauth_nonce}.go`, `adapter/postgres/tenant_repo.go` | session cookie, tenant rows, token rows | connect, callback, disconnect, select, mode | the cookie is a copy that each response replaces; checks and writes in separate statements; companies that share a number |
| Receipts collector: `internal/receipts/receipts`, `cmd/receipts-collector` | labels and Sent folders of mail accounts | `Run`, `processAccount`, `fetchMails`, `loadForwardedByHand`, `markCollected` | a mail is forwarded before it is labelled; runs that fail or are killed; an owner who forwards the same receipts; a cap on candidates |
| Login and owner directory: `auth/oidc.go`, `adapter/postgres/user_directory.go` | two cookies of a browser, the users table, codes at the identity provider | `LoginHandler`, `CallbackHandler`, `ResolveOwner`, `LogoutHandler` | concurrent first logins of one person, on one server or several; callbacks of other logins; cookies that lapse |
| Supplier detail cache: `adapter/fortnox/supplier_cache.go` | a map with expiry times | `SupplierPaymentDetails`, `Invalidate` | the lock is not held while Fortnox is asked: an answer under way is stored after the invalidation |
| Receipts API client: `internal/receipts/api` | a token file | `CreateVoucher` with its retries, an unlocked refresh | a POST repeated after a lost answer; two refreshes of one token |
| Borrowed token of the CI jobs: `cmd/e2e-token`, `loadValidToken` of the sandbox programs | a token file per job, the row it came from | fetch, `loadValidToken`, persist | several jobs and the server refresh one grant with no lock between them |
| Sandbox fixtures: `fortnox/seed.go`, `cmd/e2e-seed`, `cmd/e2e-teardown` | records and invoices of the test company | seed and teardown, request by request | runs that stop anywhere; listings that hide records, show one page of them, or read an error as an empty list; the jobs of two pushes on the same books |
| Payment files: `ui/handler.go`, `payment/pain001.go` | one request's rows and lookups | `loadPendingInvoices`, `GetAllPages`, `Enrich`, `GeneratePAIN001` | a listing read page by page while it moves; invoices paid and accounts edited between the lookups; totals that must agree; invoices that drop out |
| Chat: `ui/chat.go`, `chat.templ` | the page's conversation; a transcript per request | `callLLM`, `DispatchTool`, the page's script | a model that calls tools that fail or do not exist, turn after turn; broken streams |
| Invoice tools: `mcp/tools_ap.go`, `tools_ar.go`, part of `tools_analytics.go`, `internal/analyst` | none | summaries, ageing, groups, forecasts, details | the same figure computed by several tools in code of their own; two reads of moving books |
| Ledger figures: `fortnox/ledger.go`, `mcp/tools_gl.go`, `tools_costcenter.go`, `tools_project.go`, `domain/financial_overview.go` | what was read of a year | reading vouchers one by one; period, cost centre and project figures; the overview's ledger side | corrections while it reads; removed rows; closing vouchers; years in any order |
| Financial overview: `cmd/overview`, `domain/invoice_states.go`, `fortnox/total.go` | one run's lists and counts | list, count each status, verdict, ageing | a dozen requests about books that move |
| Review gate: `cmd/pr-review`, `internal/review` | the comment on a pull request | ask, grade, read acceptances, upsert the comment | runs cancelled with a request on its way; answers that do not parse |
| Integrations; credential encryption; camt.053; configuration; other CLIs; web pages; generated code | rows or none | fallbacks, parsing, wiring, rendering | nothing that takes two steps |

How they interact: every Fortnox call of every component first `Load`s a token (token refresh)
and then passes the rate limiter. The connect and disconnect handlers write the same row a
refresh compares and swaps. The overview job uses the voucher cache and the watch, and asks for
tokens with a longer headroom than the web handlers. The batch handlers read invoices from
Fortnox and write payments back. Nothing is called back into the program; concurrency comes
from HTTP requests, from jobs next to the server and from people at terminals, and what they
share is PostgreSQL, the cookies in a browser, and Fortnox. CI jobs borrow the token row of
the sandbox company from PostgreSQL, and seed and teardown work on its books; the workflow has no concurrency
group for them, so the jobs of two pushes work on both at once.

What makes each correct:

* Token refresh: a refresh token is presented once; what is stored is what Fortnox accepts next;
  a refresh never overwrites a reconnection or undoes a disconnection; every `Load` returns.
* Payment batches: a batch goes to the bank once; an invoice is paid once, only when its batch
  was sent; a confirmation that reports success is booked; the status never goes back.
* Voucher cache: what is served as fresh is complete and was read by this build's logic; the sync
  row vouches only for rows that are there.
* Rate limiter: a bound on requests in any span of a window's length; no call waits for ever, unless others
  return for ever.
* Watch: an invoice is reported in the end, once, and nothing is remembered that was not told.
* Connections: a row names the company whose token is stored; one company's token never
  replaces another's; a mode holds only allowed companies; a nonce works once; the session
  only moves to a company that was connected.
* Collector: a receipt is forwarded in the end, and once; one the owner forwarded is not forwarded
  again; the label is only on what was forwarded; what is forwarded has its contents.
* Borrowed token: the stored token never goes back to an older one, and a rotated token is lost only
  with a failure somebody is told of, or with the grant.
* Login: one person is one owner; a session is of a login begun in that browser.
* Supplier cache: an entry is gone once invalidated, and never much older than its lifetime.
* Receipts client: a second voucher only where an answer was lost.
* Sandbox: one record for each fixture, all of them after a seed.
* Figures: answers about one state of the books agree, whichever tool gives them; a payment file's
  totals are those of its payments and nothing owed is missing; a report whose books stood still is
  true.
* Chat: every tool call of a transcript has its answer. Review: green is earned, and one comment
  shows the newest verdict.

The hazards behind these are listed, each at its line, in `PROJECT.json`.

## 2. Modules

Each component is one module with its constants, state, `Init`, an action per step of a handler
(a step is what happens between two points where another process can come in: a query, an
external call, a response), `Next`, the specification, and the properties at the end. `MC*`
modules give TLC its instances, `*Proofs` modules the theorems, and `BatchPromise` and `TokenPromise` are
the abstract specifications that `PaymentBatch` and `TokenRefresh` implement. `Services` puts the small modules
side by side. Definitions named `Mut...`
stand before the definition they belong to: each is that definition with a plausible mistake, kept
to show that a property can fail; no specification uses them.

**History variables.** Some guarantees hold only until something happens that the code does not defend
against. These conditions are recorded in variables that no action's guard reads (`unguarded`, `unsettled`,
`torn`, `shifted`, `repeated`, `contested`, `revived`, `shared`, `interrupted`, `disturbed`, `moved`,
`raced`, `blind`, `beside`, ...). Where the harm has an owner the variable is the set of those it may reach:
the grants refreshed without the lock, the runs that read rows of two builds, the tenants where a callback
got past another name, the nonces, the mails. The property then holds of all others for good, also after the
thing happened. The rest are flags, and the property says "until" with them; the model keeps running past
that point.

### TokenRefresh

A token is a grant (an authorization at Fortnox's consent screen) and its place in the rotation.
`FirstLoad` .. `Reload` follow `RefreshingTokenStore.Load`: the first read and its headroom,
`RefreshLock.Acquire` in two steps (a connection of the pool, then the advisory lock), the second
read, `RefreshAccessToken`, `AtomicRefresh`, and the reload after a conflict. `Return` is every
way out, with the deferred release. `Live`, `Accept` and `Refuse` are Fortnox's rotation with reuse
detection, as the code's comments describe it. Faults: a process dies anywhere; an answer is lost
and the request may still arrive (`wire`, `DeliverLate`); a save fails; the session that
holds the lock is dropped without its owner noticing (`lost`); a grant that such a Load is refreshing, or
goes on to refresh, is `unguarded`. `Backend = "file"` is the development setup
without a lock, where a crash in the middle of a rewrite leaves the file unreadable. `Save`,
`AbandonConnect` and `Delete` are what the connect and disconnect handlers do to the row.

The clock is what is left of the stored token: more than the overview's 15 minutes, more than the
default two, or nothing.

`TokenPromise` says what the lock and the compare-and-swap amount to for a tenant, with no Load in sight:
one cell, and a refresh that takes Fortnox and the cell one rotation on in one step. What a refresh rotates
whose company is disconnected or replaced meanwhile comes into no cell. A grant of which a rotation was
lost, or that a Load refreshed without its lock, is astray: Fortnox may go on without the cell or revoke the
grant, but the cell still takes nothing except its own rotations and new connections. `Promise` instantiates
it: `Row` is the stored token, or the one Fortnox has just minted from it while the Load that stores it is
on its way.

### PaymentBatch

`LoadPendingInvoices` and `SaveDraft` are the two batch handlers, `Submit*` is `BatchService.Submit` (read,
bank call, save) and `ConfirmGet`, `WriteBack`, `ConfirmSave` is `ConfirmExecution`, one confirmation of its
list at a time, in the order of the list (`asked`, `handled`), with the errors it collects. A list may name
an invoice twice: the loop does not notice and records the payment twice, so such an item is `repeated`.
`erp` says whether the service was given an ERPWriter, which `main.go` makes only where Fortnox is
configured; without one a confirmation books nothing and reports no error. `Repo` says what saving a batch a
second time does: `"update"`, which is what `BatchService` and the repository of its tests assume, or
`"insert"`, which is what `BatchRepo.Save` does. An invoice has one row per batch; what is paid is counted,
up to `Cap`, so that a repetition is visible. `LoadPendingInvoices` reads the unpaid invoices in one step:
what becomes of a listing whose pages shift is `PaymentFile`'s.

`BatchPromise` says what all this amounts to for one batch, without requests, copies or failures:
drafted with contents that never change, handed to the bank, submitted, confirmed; invoices settled
only once it was handed over; and a status that falls back only where two requests held the batch
at once. `Promise` instantiates it with a refinement mapping, and `KeepsThePromise` is its
specification, checked in `batch` and proved as `Implements`.

### VoucherCache

A voucher is its place in the order Fortnox lists the year; a cached row is the fetch version that
wrote it. `LoadRows` and `LoadSync` are the two queries of `LoadYear`, `Count` and `CountFails` the
assessment, `FetchPage` a page of `GetAllPages` with the vouchers on it, `Verify` the recount, and
`DeleteYear` and `Commit` the transaction of `SaveYear` at READ COMMITTED: a commit replaces the
rows that were there when its DELETE ran and joins those another commit added since (`merging`). The
table is `mixed` while it holds rows of two builds, and a run is `torn` that read it then, or whose rows
were replaced by another build's before it read the sync row.
`Post` lists a voucher anywhere: nobody asks Fortnox for an order, and numbers start anew in each series.
One that joins a page a run has already read moves another to the next page; that run is then `shifted`.

### RateLimiter

`WaitForRate` is one iteration of the loop under the mutex, `Wake` the end of a sleep, `Refused` the
429 branch of `do`, which resets the counter and ends the window with its own wait. A caller sends one
request after another for ever, so that others can empty every window before one that waits. Time is counted
in ticks relative to now; `recent[n]` and `refused[n]` are how many slots were granted and how many
requests refused in this tick and the `n` before it, for spans of up to `Window` ticks.
The last tick of a window still counts as inside it (`now.After(windowEnd)`), hence `left = -1`.

### UnbookedWatch

`CountPayables`, `CountReceivables` are the per-status counts of the overview, after which the
listings are skipped when there is nothing to list; `ListPayables`, `ListReceivables` the two
ledgers; `Seen`, `Alert`, `Reconcile` are `UnbookedWatch.Check`. `Nightly` runs are scheduled, the
others are somebody's.

### CompanyConnection

One action per handler that has no call inside it (`Connect`, `Disconnect`, `SwitchMode`, `Login`),
and one per step of those that have: the callback (`Returns`, `Identify`, `Lookup`, `UpsertTenant`,
`Save`, `Finish`) and the selection (`SelectCompany`, `Selected`). A request carries the cookie it
arrived with (`snap`) and its response replaces the whole cookie. Each call may fail. Companies may
share an organisation number and may be renamed at Fortnox at any moment. A tenant is `contested` once a
callback went on to write it although its row held another name (the read failed) or another callback was
about to write one; a nonce is `revived` if it was used while a selection was under way in a session that
still had it.

### ReceiptsCollector

A run is at an account and goes through `LoadCollected` (the Message-IDs under the label),
`LoadForwarded` (the subjects in the Sent folder), `Fetch` (the candidates, the cap, and which of them
are to be forwarded: routing has no state, so it is decided here), a `Deliver` or `DeliverFails` per
mail, and `Mark`, which ends the account. `Fail` is every error that ends a run, and a kill. A label
that cannot be read counts as empty, a Sent folder that cannot be read ends the run, as in the code.
`Arrive`, `MakeLabel` and `ForwardByHand` are the mail accounts and their owner; the label has to be
made by somebody, since nothing in the program does. The candidates counted against the cap are
everything in All Mail, what was sent included. `FetchBodies` is the field of the scope. A mail is `shared`
if another run was at its account, past reading the label, when it was forwarded, or read the label between
its forward and its mark.

### BorrowedToken

`Fetch`, `LoadValidToken` and `Persist` are a CI job: the row copied to a file, refreshes of the
programs that work on the file (a token that cannot be saved is only a warning), and the conditional
UPDATE. `ServerRefresh` and `ServerSave` are the server on the same row, `Reconnect` is a new
connection; Fortnox's rotation is as in `TokenRefresh`. A job killed before `Persist` is a red one.

### OwnerLogin

A login is the state and the nonce its `LoginHandler` put into two cookies. `CallbackHandler` is any
callback URL reaching any browser, `Exchange` the identity provider's answer with the nonce and
verification checks, `Mint` and `ReadOwner` the INSERT ... ON CONFLICT DO NOTHING and the SELECT of
`ResolveOwner`. A response clears the cookies the browser holds then. Cookies lapse, sessions end,
pods restart. `Normal` lower-cases and trims.

### SupplierCache

`Lookup`, `Answer` and `Store` are one call: a look under the lock, the request without it, the
store under it. `Edit` changes a supplier's details at Fortnox; versions and the moment each was
replaced are kept, so that an entry's age can be judged. No request outlives the HTTP client's
`Timeout`.

### ReceiptsClient

`Send` is one POST of `doWithRetry` with a transport error before or after Fortnox acted, and with a status
or a body that ends the call although the voucher was created (both count as a lost answer); `Repeat` and
`Resume` are the next attempt; `AttachToken`, `RefreshToken` and `SaveToken` are what every attempt
does with the token file.

### ReviewPost

`Push` begins a run and cancels the one before, whose comment may already be on its way
(`LateComment`). `AskModel` is the model with `Usable` for the parser's refusals, `FetchComments`
the acceptances, `ListComments` and `WriteComment` the upsert and the exit status. It is the program as the
workflow calls it: a dry run, which posts nothing, is left out, a diff is one question to the model although
only its first 240 000 bytes are sent, and that the workflow turns exit 1 into a warning on its advisory lane
(`pr-review.yml:132-140`) is behind the program's exit and not in `GreenIsEarned`.

### ChatLoop

The page's script (`PageSend`, `PageReceive`, `PageLoad`) and the server's loop (`callLLM`,
`ExecuteTool`, `NextTurn`). A message is its role and, for tools, the calls and the call answered.

### SandboxBooks

Every request of seed and teardown is a step, in the order of the programs, on the records of a
kind that the last listing showed. A listing is one page (`OnePage`): where there is more than it has
`Room` for, it shows any part, and an error answer is read as an empty one, or as a balance of zero, because
`Client.do` returns every status and these callers do not look at it; `blind` notes either. Of the invoices
of a record a page may show any number of the open ones, since booked and cancelled ones fill it too. Two
jobs may run at once (`.gitea/workflows/ci.yml:256-329` has no concurrency group): one is followed through its
programs, and `OtherJob` is any request a program of another could make, each counted in `beside`. The code
of such a program is the same, and what it read before does not matter to those who see its requests.

### InvoiceTools, LedgerFigures, PaymentFile, OverviewRun

The tools and reports as operators over books that move between any two requests: `InvoiceTools` over the
unpaid invoices of a moment (the two detail tools read twice), `LedgerFigures` over vouchers read one by one
while they are posted and corrected, `PaymentFile` over invoices listed page by page and enriched one by one
while they are booked and paid, `OverviewRun` over two lists and twelve counts. An operator stands for a
function of the code and has its name where it can; amounts are small integers, days are integers, `Unread`
and `Undated` are dates that cannot be read. An account the chart leaves out opens at zero, as a missing key
does in the code (the instance has one: a correction books on 2611). `oldestDue` is the loop of
`tools_ap.go` written by what it leaves: the least of the dates after the last empty one.

In `PaymentFile` a row is an invoice on a page, so that one listed twice is two rows and two payments;
`shifted` notes that an invoice came or went on the pages the request had read. `LedgerFigures` lists the
heads of the vouchers in one step and as a set: a voucher that comes twice, or not at all, because pages
shifted is in `VoucherCache` and not in its figures.

## 3. Runs

| Run | Asks | Bounds |
|---|---|---|
| `token` | `RevokedOnlyIfUnsettled`, `StoredTokenLive`, `ServesTheStoredToken`, `LoadReturns`, and the refinement `KeepsOneCell`, under every fault at once | two Loads with different headrooms, two grants, two rotations each, pool of three |
| `token_pool` | `LoadReturns` when the pool is as small as the number of Loads: **violated** | two Loads, pool of two, no faults |
| `batch` | `SubmitMovesDraft`, `ExecutedOnce`, `OkMeansBooked`, and the refinement `KeepsThePromise`, over the repository the service assumes | two operators, one batch of up to two invoices, lists of up to three confirmations, with an ERPWriter or without, all faults |
| `batch_insert` | `SubmitMovesDraft` over the repository that exists: **violated** | one operator, one batch, no faults |
| `voucher` | `FreshComplete` and `ServedByThisBuild` with overlapping and failing runs | two runs of either of two builds, three vouchers posted anywhere, pages of one |
| `rate` | the bound on any span, and that a request returns unless those of others return for ever | three callers that never stop, one slot, one retry each, window of two ticks, waits up to three |
| `unbooked` | the watch's three promises | a nightly run and another, one invoice of each kind |
| `connect` | `RowNamesTheToken`, `CompanyKept`, `ChosenWasConnected` | two tabs, two modes, two companies with one number, three names, two authorizations |
| `receipts` | `ForwardedOnce`, `HandForwardKept`, `ReachesTheBooks`, with failures, kills and hand-forwards | one run at a time, two accounts with a receipt each of one subject, one of them without an ID, a cap of two, relay copies in the second account |
| `receipts_hollow` | `ForwardsCarryTheMail` with the scope `main.go` sets up: **violated** | one run, one receipt |
| `services` | the promises of the eleven modules from `BorrowedToken` to `OverviewRun`, and their types | below |
| `overpaid` | `NeverOverpays` of the payment file: **violated** | the same |

`services` explores eleven small units in one run. They share no state, so there is nothing to compose: in
`Services` the variable `unit` says whose steps a behaviour takes, every other variable stays at its initial
value, and the reachable states are those of eleven separate runs put side by side. That nothing is lost by
it is a theorem (`EachUnit`). Their bounds: a fixture of each kind, two records of a name, two open invoices
of each, pages with room for one, one request of another job; two jobs, two grants, two rotations; two
browsers, two callbacks, two logins, three spellings of two people; one supplier, two lookups, three
versions, five ticks of which an entry lives two; two calls with three attempts and three rotations; two
pushes and two rules, one of which blocks; five turns (`maxTurns` of the code) of up to two calls; five
invoices in two currencies with due dates that reach each bucket's bound within the days that pass, one
without a date; four bills of two suppliers, in two foreign currencies and SEK, credit notes among them, on
pages of one; four vouchers in two years listed newest first, two of them corrected, one a closing voucher; and
one invoice in each ledger. Of the sandbox four things are cut off (`Sighted`), all of which its theorems
cover: what follows a listing that showed less than there was, which most of its properties excuse; what
follows a warning about a second record; a seed after a warning; and what another job does once the program it
came into has ended, or in books a warning is about.

Why the bounds are enough. Every conflict in these models is between two actors over one shared thing; a
third would do what one of the two does. What needs two of something else has two: rotations (a stale token
and the next), grants (a reconnection during a refresh), invoices (one confirmation fails, the other does
not), builds (an upgrade), pages (a year that grows onto a second page), authorizations (a nonce that
replaces another), currencies, years. Counters of events that must not happen twice stop at two.
`RateLimiter` has a third call because two can never queue for one slot behind a retry, and waits that are
shorter than its window of two ticks, as long, and longer: with the first, the window a refusal sets and the
next one meet in one span. `batch` has lists of three confirmations, so that one named twice can stand
beside another, and `voucher` and `PaymentFile` pages of one, so that three vouchers or bills make a page
before, at and behind the one being read. A batch can be submitted and confirmed only by its number, and two
batches share nothing but the invoices, which a batch's payments are counted for separately; the `batch` run
therefore has one. In `token` the last rotation never ages, which stops refreshes at the bound and not in
the middle of one. In `connect` a name is never taken by a second company. `receipts` has one run at a time,
because its liveness property with two is beyond TLC; what holds when runs overlap is proved, for any number
of them. The properties of figures are universal over one state of the books; what the bounds of `services`
decide is which shapes of books occur, and they were chosen so that those the figures tell apart do: both
sides of each bound of the tools' age buckets, an empty date, a credit note, a correction, a closing
voucher. `bucket` of `OverviewRun` sees only two ages there, none and 31 days.

`batch`, `voucher` and `connect` use symmetry over interchangeable actors (and, in `batch`, over the
invoices), `services` over the jobs and the accounts, with no liveness property in the same run. `connect` also uses
a VIEW: what a finished request read is never used again, so two states that differ only there are
one. `batch`, `connect` and `services` allow a state with no next step (all paid and confirmed; no
authorizations left; a unit at its bounds), and `token_pool` reports its deadlock as the liveness
property it violates.

**Fairness.** `TokenRefresh`: strong fairness of each Load's next step, since `database/sql` serves
those who wait for a connection in turn and PostgreSQL those who wait for a lock; the exchange with
the token endpoint is assumed to answer or break. `http.DefaultClient` has no timeout of its own, so
that assumption is the network's, not the program's (hazard at `auth.go:73`). Nobody has to time out:
`AcquireFails` is not fair. `RateLimiter`: weak fairness of time and of each call, since the mutex is
held for a few instructions and requests are answered (the client times out after 30 seconds). None of taking
a slot before others do: `waitForRate` has no queue, and in this run a caller can starve behind two that keep
sending, which `CallReturns` excepts and nothing else.
`UnbookedWatch`: strong fairness of every step of the nightly run (it is scheduled every night and
does not fail at the same step every time), none for a run at a terminal. `ReceiptsCollector`: strong
fairness of every step at each account and of the delivery of each mail: the collector is run by hand or
by a timer, and it is not the same step of the same account that fails each time. If it is, the accounts
after it are never reached (`collector.go:118-120`), which is why fairness has to be per account.
The other modules have safety properties only.

## 4. Where code and documents disagree

Shown by a run:

1. `token_pool`: each waiter for the lock pins a connection of the pool the holder needs one of.
   With as many requests as connections (25) nobody proceeds until a request's context ends.
2. `batch_insert`: `BatchRepo.Save` only inserts. The second save of every batch fails on its
   primary key, `Submit` swallows it, and the batch stays a draft that can be sent again.
3. `receipts_hollow`: `scope.go:43-45` and `imap.go:95-97` say that bodies are fetched afterwards for
   the mails that matched. Nothing does, and `main.go:60-66` does not ask for them during the search,
   so every forward wraps an empty message, is accepted by the relay, and is marked as collected.
4. `overpaid`: `domain/invoice.go:21-22` says the balance is what a payment should instruct. The
   payment file instructs the total, so an invoice paid in part is paid again in full.

Met while modelling, and visible in the models as the conditions of the properties above:

* When PostgreSQL drops the session that holds the lock, nothing checks before the refresh is sent
  (`unguarded`): the grant under refresh may then be revoked, and no other.
* Two submissions that overlap both pass the status check (`overlapped` in `PaymentBatch`).
* Two builds whose `SaveYear`s overlap leave rows of both, and `LoadYear` can read the rows of one and
  the sync row of the other, though `voucher_cache.go:110-111` says the sync row never describes a set not
  fully written (`torn` in `ServedByThisBuild`).
* Even without refusals two windows can meet in one span, 36 requests in five seconds against a
  documented 25 (`client.go:165`). A refused request resets the window for every caller
  (`client.go:251`), and where its wait is shorter than a window the next one begins in the same span
  too: each 429 can hand out two more windows' slots.
* `Lookup` treats an unreadable tenant row as absent (`fortnox_connect.go:338`), and two callbacks for
  one number can both find none (`contested`). A selection of a company that began before a callback
  answers brings its nonce back (`revived`). A company that was renamed is refused even after it was
  disconnected, because the row stays (`fortnox_connect.go:341-344`).
* Switching the mode keeps the session's company (`handler.go:104`).
* The file backend of the token store has no lock, though `main.go:134-137` says it has nothing to race
  against and `domain/ports.go:61` that `AtomicRefresh` prevents the rolling-refresh race: two requests
  of one server read the same expired token and both present it (`TokenRefresh` with `Backend = "file"`).
* A voucher that joins a page already read repeats one voucher and hides another, and the recount,
  which compares numbers only, finds nothing wrong: that run serves an incomplete year as fresh (`shifted` in
  `FreshComplete`). What it caches has a row less than its sync row says, and is read again.
* In the same way an invoice that comes or goes on a page already read makes a payment file skip another, or
  pay one twice (`shifted` in `NothingTwice` and `NothingMissing`).
* A list of confirmations that names an invoice twice records its payment twice in Fortnox
  (`batch_service.go:111`), and a service without an ERPWriter confirms a batch of which nothing is booked
  (`batch_service.go:90`, `:120`).
* "Zero rows affected is a SUCCESS" in `e2e-token/main.go:206-207`: when the row changed under a job,
  job and server presented the same token and Fortnox revoked the grant, unless the company was connected
  anew (`MissMeansRevoked`). A `SaveToken` of the job that fails is only a warning, and the job can stay
  green with the rotated token lost.
* The receipts client repeats a POST after a transport error, so one call can post two vouchers; it reports an
  error of one that was created when the status or the body is not what it wants; and it refreshes its token
  without a lock.
* A caller of the rate limiter can starve behind others (`client.go:162`).
* A callback's response clears the cookies of whatever login the browser holds by then
  (`oidc.go`), so a second login begun meanwhile fails.
* `Invalidate` of the supplier cache, which nothing calls yet, loses to a lookup that already holds its
  answer (`raced`).
* The `List` calls of `seed.go` read one page and take an error answer for an empty list, after which a seed
  creates every fixture once more and a teardown hides a record over an open invoice without a warning; two
  e2e jobs at once do the same (`beside`); `FullyPayCustomerInvoice` takes one for a balance of zero.
  Customers deactivated by a teardown are not listed again (`seed.go:395-398`), so a seed creates new ones,
  though `e2e-teardown/main.go:16` says it "reactivates everything on the next run"; an open invoice of one
  of them cannot be cancelled any more (`HiddenWasWarned`).
* `invoice_states.go:29-30` calls the verdict "none" a measurement complete enough to support it, but its
  counts are separate requests: an invoice that moves between two of them can be missed by all
  (`moved`).
* An invoice whose supplier has no IBAN drops out of a payment file silently, though
  `domain/invoice.go:56-57` asks the caller to report it; one credit note blocks the whole file.
* A due date that cannot be read is skipped by `AgingBuckets` and is the oldest for the overview's
  `bucket`; in `ap_summary` an empty one makes the search for the oldest start again (`tools_ap.go:95-98`).
* `tools_project.go:108` promises all history, `project_ledger.go:70-77` reads the first year that
  overlaps; the cost centre transactions of a window over two years are those of the first.
* `cash_flow_forecast` and the `top_*` tools add currencies together, though `tools_ap.go:170-173` says
  never to; outflows are totals, inflows balances; `top_suppliers` goes by due date, `top_customers` by
  invoice date.
* In the chat, the answers of the last turn's tools go nowhere, error texts and empty replies enter the
  conversation as the assistant's.
* A receipt forwarded by hand while a run is under way is forwarded twice (`raced`). A forward that was
  not marked, or whose mark could not be read, is repeated (`unrecorded`), and so is every mail without
  a Message-ID. Nothing creates the label's mailbox, and copying to one that does not exist fails, so
  until somebody makes it every run forwards again what it forwarded before (unless the relay keeps its
  copies in the same account's Sent folder, where the guard finds them).
* The guard compares subjects: a forward, by hand or kept by the relay, suppresses every later receipt
  with the same subject in that account (the second disjunct of `ReachesTheBooks`), which the thirty
  invoices of one subject in `collector.go:60-62` would meet.
* Outside the models: `gl_account_balance` and `yearly_comparison` use `BalanceCarriedForward`, which
  `financial_overview.go:11-14` says is not maintained on open years; `fx.go`, which nothing calls, has
  the sign of `IsGain` inverted; `ConfirmExecution` sets the execution rate on a copy of the item
  (`batch_service.go:118`), and `SaveDraft` returns the batch without the ID the repository gave it
  to a handler that shows it (`handler.go:333`).

## 5. Proofs

The proof modules show, for all values of the constants that satisfy the assumptions:

* `TokenRefreshProofs`: type correctness. `Serialised`, from the invariant that a Load is in its
  critical section exactly when it owns the lock, or its session was dropped. `NoReuse` and
  `StoredLive`, from `IInv`: for every grant with no lost rotation and none made without the lock, a Load
  about to refresh holds the live token, a Load about to persist holds the one before it, and the stored token is live
  or is being replaced by the owner of the lock. `RevokedOnlyIfUnsettled` alone is not inductive: it says nothing
  of the tokens Loads hold, and those are what gets presented next. `FaultFree` is the
  consequence the file backend does not have. `GrantKept` and `ServesStored` need neither lock nor
  absence of faults: the compare-and-swap suffices. The refinement: `OneCell` is
  `Locked => (Spec => Promise!PromiseSpec)` (`KeepsOneCell`). To `IInv` it adds that a grant not yet saved is in
  no row, Load or request (`Unsaved`) and that no Load holds a token after the stored one of its grant
  (`NotAhead`): these hold of an unguarded grant too, of which `IInv` says nothing, so that every step is
  still one the promise allows a grant that went astray (`StepPromised`).
* `PaymentBatchProofs`: type correctness; `NothingPaidUnsent`, since a batch beyond draft has been
  sent (`SentInv`); `MovesForward`, from `AsRead`: a request that nobody overlapped still sees the
  status it read; `NothingTwice` and `DraftMoves`, which say of a repository that updates what the runs ask
  (`ExecutedOnce`, `SubmitMovesDraft`; from `Once`: one request at a time goes through a batch, and what of
  its list is ahead of the loop is unpaid), and of one that inserts, which is the one there is, what becomes of
  it instead (from `Stalls`): no batch leaves the draft state and no payment is ever recorded; `OkIsTrue`
  (`OkMeansBooked`) for either repository, with an ERPWriter or without, any overlap and any list, from
  `BookedSoFar`: a confirmation that has collected no error has booked what of its list is behind the loop
  (`Settled`), and what is booked stays booked, whichever request booked it.
* `VoucherCacheProofs`: type correctness; `OnlyOwnRows`, from: the rows of a table that is not mixed all
  carry the version of its sync row, a run that is not torn holds rows of one version, and one between its
  two queries the version the sync row still has; `FreshIsComplete`, wherever in the listing vouchers are
  posted, from `WholePages`: after k pages a run whose listing has not shifted holds the first k pages of what is
  posted now, each voucher once, so that a recount which agrees leaves none out; and what anybody counts in the
  table counts a voucher once, so that what a shifted run cached is found short by the next. `FreshComplete`
  speaks only of the moment a run ends and says nothing of the pages before it.
* `CompanyConnectionProofs`: type correctness; `OnlyAllowedHeld`, since a callback past `Identify`
  carries an allowed name; `ChosenConnected`, since a request about to write the cookie carries a
  company that was saved in the mode; `RowsNameTokens` and `NoCompanyReplaced`, from `KeptIInv`: a name
  belongs to one company, a callback past `Lookup` finds the row absent or with its name, and all callbacks
  past it that write one tenant carry the same name (`Agree`), but for contested tenants. No property
  of two requests is in the statements, yet without `Agree` they are not inductive: it is what stays of
  the check when several pass it; `NonceOnce`, since neither the cookie nor the copy a selection is about to
  write back holds a consumed nonce that was not revived.
* `ReceiptsCollectorProofs`: type correctness; `LabelledForwarded`, since what a run is about to label was
  forwarded; `HandForwardsKept`, from `HandInv`: what the owner forwarded between runs is in the Sent folder
  every later run reads before it fetches, so none holds it to deliver; `OnceEach`, from `OnceInv`, for any
  number of runs at once: what was forwarded and properly marked is under the label or about to be, and a
  run past `LoadCollected` knows it or has it in hand alone (`shared` mails apart). `ForwardedOnce` alone is
  not inductive: it says nothing of the mails a run still holds.
* `PaymentBatchProofs`, the refinement: `Implements` is `Spec => Promise!PromiseSpec`
  (`KeepsThePromise`). From the invariant `Kept`, which says what each request knows of the batch it
  holds, every step of a request maps to a step of the promise or leaves it unchanged (`PromiseNext`).
* `ServiceProofs`, login: `OneOwner`, since a row of the users table never changes and the owner a callback
  has read is that of its normalised address, which no other address shares; `OwnLogin`, since the code a
  callback exchanges is of the login the cookies it arrived with held. Supplier cache: `CachePromises`,
  since what a lookup got was in force when it asked or has been replaced since, and it stores within its
  timeout. Review gate: `Earned`, since a run past the parser holds an answer that parsed and has read only
  acceptances somebody gave; `OneThreadOnly`, from `OneThread`: until a cancelled run's comment arrives
  after all, one run is under way, the newest, and what it is about to edit is the one comment there is.
  Chat: `CallsAnswered`, from what a transcript is at every step of the loop: the conversation, in which
  each question has its answer, then rounds of a message with calls and their answers in order, the last of
  them as far as the loop has come. Sandbox: `FixturesFound`, since a seed has in place what it has been
  through, unless a teardown of another job took it away, and, unless a page showed less than there was or
  another seed made something, has been shown every record of the names still before it; `HiddenSaid`, since
  what a teardown is about to hide has no open invoice it did not say it left, unless it was shown less or
  another job came between. Receipts
  client: `ExtraVouchers`, since vouchers and lost answers keep step; `OneAtATime`, from `Serial`: until two
  refreshes overlap, file and Fortnox agree but for what one call is about to save. Borrowed token:
  `LostSaid`, `MissRevokes` and `RowNeverOlder`, from `Alone`: while the grant of the row lives, whoever
  rotated it, a job or the server but never two, still finds in the row the token it started from.
  `LostWasSaid` alone is not inductive: it says nothing of a rotated token that is on its way back to the
  row. `EachUnit`: a behaviour of `Services` is one of the specification of each of its eleven units, since
  a step of one leaves the others' variables alone; `AllTyped` (`TypesOK`) follows with the types in each
  unit's invariant, and with `FileTypes`, `LedgerTypes`, `ToolTypes` and `OverviewTypes` of `FigureProofs`,
  where an overview's lists need that what is open is owed for (`StillOwed`).
* `RequestProofs`, the watch: type correctness; `NeverSilenced`, since what a run is about to remember has
  been told; `ToldOnce`, since until a run is disturbed what was told and is still unbooked is remembered or
  about to be, and the run under way has read it or will. Rate limiter: type correctness (slots, sleeps and
  attempts stay within their limits); `SpanBound`, from `SpansBounded`: the span of *every* number of ticks
  up to the window's obeys the bound, with the slots of the open window counted as they are granted, and the
  window before it only where the span reaches behind the open one. `RefillsBound` alone, about the longest
  span, is not inductive: a tick makes every span out of the one a tick shorter.
* `FigureProofs`, about all invoices, vouchers, amounts and dates. `FileIsTrue`: the totals of a payment
  file are those of its payments, block by block and in all, a supplier is paid to one account, and, unless
  the pages shifted, each invoice is paid once and no foreign one that was owed and had an account is
  missing. From `FileInv`: until something comes or goes on the pages a request has read, its rows are those
  pages of what is unsettled now, one for each invoice (`Paged`), what it looked up is still in force or has
  been edited since (`LookedUp`), and a file is the document of a set of payments (`MadeOf`). `QuietReport`,
  from: while the books stand still each count the run has taken is the number of invoices there are with
  that status, each list is what it says it is, and the buckets leave out no krona that is owed.
  `LedgerAddsUp` (`BooksExplained`): whatever was read between postings and corrections, each voucher was
  read in one version and balances, so a year is out by its opening balances alone, and its two sides by the
  result that was not transferred. `ToolsAgree` (`FiguresAgree`): periods that meet make up the year, the
  costs of goods are the expenses on their accounts, a row of a cost centre counts once whatever the order
  of the years, and the projects together with what has none come to nothing. `AnswersReconciled`
  (`AnswersAddUp`): summaries, currencies, parties, histories, ages, forecasts and ranks are of the same
  invoices and the same money, and the two reads of a detail add up unless that invoice changed between
  them.

**Sums and counts.** The figures are sums of the community modules, recursive functions over the subsets
of a set, and the library's induction theorems take an operator as a parameter, which no installed
prover can instantiate. `FigureProofs` therefore begins with what is needed of sums (`SumEmpty`,
`SumRemove`, `SumUnion`, `SumParts`, `SumSame`, ...), each shown by the smallest set of which it would
not hold: the subsets of a finite set are well founded under strict inclusion, which two theorems of the
library say of a fixed relation (`FS_StrictSubsetOrderingWellFounded`, `WFMin`), so that a set of
counterexamples has a least one, and that is made smaller by an element. `OneByOne` is that
argument as a lemma about a set of sets. Everything after it takes a figure apart into parts that do not
meet (`SumParts`, `CardinalityParts`).

The assumptions are those named in the modules: that placeholder values are not members of the sets
they stand beside, that bounds are natural numbers, that the pool, the vouchers and the invoices are
finite. Of the books they say what Fortnox enforces: a voucher and each correction of it balances, its
rows are its own, fiscal years do not overlap, and each voucher is dated in one of them.

Proved and in no run, since another property of the run is the stronger one or the proof made it redundant:
`OnlyConnectChangesGrant`, `HoldsOnlyAllowed`, `NonceSingleUse`, `MarkedWasForwarded`, `PaidMeansSent`,
`StatusMovesForward`, `RefreshSerialised`, `MissMeansRevoked`, and the types of the modules outside
`services`. The file backend of `TokenRefresh` is in no run: `TypeCorrect`, `GrantKept` and `ServesStored`
hold for both backends, the other theorems there assume the lock (`Locked`). The second half of
`NothingTwice` and `DraftMoves` of `PaymentBatch`, about a repository that inserts, is only proved: with
no batch ever confirmed there is little to run.

Only model-checked are the liveness properties `LoadReturns`, `CallReturns`, `ReportedInTheEnd` and
`ReachesTheBooks`, since TLAPS has no rules for the ENABLED that fairness needs. Every other property of a
passing run is stated by a theorem.

## 6. What is abstracted and what is left out

Names, XML, alert texts, formats of dates and logging; encryption of stored tokens; the read-only mode of
the client; the contents of vouchers, which do not change once posted except by a correction; `Retry-After`
beyond its upper bound; clocks other than the orderings a property needs. Amounts are whole minor units,
small ones: conversion from the JSON floats and rounding are not modelled, and no property is about them.
Vouchers are never withdrawn from the listing of `VoucherCache` (`voucher_cache.go:115-121` asks to
investigate that case; `Assess` reports it as stale like any other mismatch). Invoices arrive once. The 429
of `Client.do` in `RateLimiter` is the only failure that matters to the pacing. In `BorrowedToken` the
server reads the row and exchanges its token in one step, where the code has two
(`refreshing_token_store.go:131-137`): what can come between makes it present a token that was rotated,
which revokes the grant (`dead`), or one of a grant the row no longer holds, and both are excused. In
`SandboxBooks` of another job only its requests are followed. The collector's rules, destinations and
message format are left out, and so are dry runs, which change nothing; a mail the account sent itself is
one that is not routed; mails stay in the window. Each Load of `TokenRefresh` shares one pool, which is the
hardest case; several processes have a pool each. In `ChatLoop` what the model asks for is nondeterministic,
in `ReviewPost` what it answers.

### Not modelled

* Integrations and credential encryption: a settings row read and written in one statement each, and
  AES-GCM, whose properties are those of the library.
* Statements (camt.053): a parser of one file with no state; what could be wrong is in the XML tags.
* Configuration, migrations, generated code (`sqlc`, `templ`), wiring in `main` functions.
* Command line tools that read and print (`fortnox-check` and its like), and the web pages' markup.
* Of parts that are modelled in part: the receipts tool's consent flow, validator, PDF rendering and
  admin pages; the MCP tools that format one answer of Fortnox (company information, the asset
  register) or go beyond the figures here (`yearly_comparison`, the anomaly texts); the wording of
  analyst and review prompts and of the reports; the resource adapters that map one JSON record each.

## 7. Plan

Order: what can lose money or access first, then what can lose information.

Done: a module for each component listed as modelled or partly modelled in `PROJECT.json`, each with
its run; two refinements (`PaymentBatch` of `BatchPromise`, `TokenRefresh` of `TokenPromise`), checked and
proved; every safety and action
property of the runs proved for all values of the constants.

Next:

1. A third refinement: `VoucherCache` of a year that is either verified or not.
2. The conditions that are still flags (`interrupted`, `disturbed`, `moved`): the sets of
   what they harm in their place, as in `TokenRefresh`, `VoucherCache`, `CompanyConnection` and
   `ReceiptsCollector`.
3. The receipts tool's consent flow and its admin server.
4. Rounding: minor units from floats and back, with a reference definition over small integers.
