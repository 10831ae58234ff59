# Synap in TLA+

This directory is the verification project kept beside Synap, a survey
platform: a Go server over SQLite and a React frontend. It holds TLA+ modules
that model the server's state and handlers, TLC configurations that check them
on small instances, and TLAPS proofs of the properties that matter most.

How to run: `tlc -config survey_pool.cfg MCSurvey.tla` for a run,
`tlapm SurveyProofs.tla` for a proof module.

## 1. The system

    browser (frontend/src)                 Go server
    Survey, SelfManage, scale editor  -->  internal/api/router.go     handlers
    (React, WebCrypto)               HTTP  internal/services/*.go     services
                                           internal/api/*_adapter.go  adapters
                                           internal/db/sqlite_store.go  Store
                                           -> SQLite, database/sql pool

`cmd/server/main.go` opens SQLite, imports a legacy JSON snapshot on the first
start, and serves. net/http runs each request on a goroutine of its own. A
handler calls a service, the service calls the store through an adapter, and
each store call is one or a few SQL statements, each a transaction of its own.
Only `ReorderItems` opens a transaction. There is no lock around a handler.
The store logs the error of a write and goes on (`logErr`), and the adapters
return nil errors, so a service hardly ever learns that a write failed.

| Component | State | Operations | What makes it hard | Correct when |
|---|---|---|---|---|
| Survey tables | scales, items, participants, responses, consents, encrypted responses | SQL statements | foreign keys per connection, swallowed errors | no dangling row |
| Submission | a request's participant, answers, cached item scales | GetScale, consent, participant, items, responses | five store calls, interleaved with deletes | an answered submission is settled; nothing of an erased participant returns |
| Consent | consent records | sign, link | purge and delete in between | a consent belongs to the form's scale |
| Self-service, admin deletes | participants, responses | soft, hard, by link or e-mail | two statements | a hard delete is final |
| Survey editing | scales, items, positions | create, import, update, reorder, delete, purge | read-modify-write without locks, three-statement purge | deleted things stay deleted, edits do not undo each other |
| End-to-end encryption | project keys, envelopes | keys, intake, rewrap | rewrap reads, then writes the envelope list; a client may send a response again under its id | an envelope is lost only to an overlap that can be named |
| Export jobs | in-memory jobs, throttle | request, download | clock, expiry, restart | one grant per interval; a link works until it expires |
| Accounts and teams | tenants, users, invites, collaborators | register, login, invite, add, remove | check, then insert; errors swallowed; ids of deleted scales and spellings of an address come again | nobody enters uninvited; collaborators are of a tenant that has or had the scale; who accepts an invitation joins |
| Legacy import | snapshot file, SQLite file | first start | crash in the middle | the import is complete or repeated |
| memoryStore | maps under one RWMutex, snapshot file | tests and legacy import | snapshot replaced by rename | restart sees a whole snapshot |
| Scoring, analytics, CSV | none of their own | score at submission, report on request | definitions change between the reads, maps without order, missing answers, names that clash | a cell says what was chosen, a total and alpha are those of the buttons pressed |
| Respondent pages | a tab: consent, form, requests; sessionStorage | agree, fill in, submit, retry, delete | callbacks that see an old render, late or lost replies, reloads, a language switch | one complete, agreed submission per attempt; the stored copy is what was sent |
| Scale settings | the scale's row and items; what each page shows | edit, save, autosave, AI translation | whole-row writes after a read, two pages, timers, late loads | what is reported as saved is in the row |
| Sign-in | a cookie, a gate per tab | login, logout, check on each path | checks answered after the tab moved on | a guarded page is shown only to who was signed in |
| Local export | localStorage keys, encrypted responses | unlock, decrypt, write a file | option texts of several languages, joined in the order ticked | same ticks, same cell |
| Router, middleware, sqlc, deployment | none of their own | decode, authenticate, encode | - | - |

## 2. Modules

| Module | Models | Uses |
|---|---|---|
| `SurveyStore` | the survey tables and their SQL statements: primary keys, foreign keys as each connection enforces them, cascades, failing writes | |
| `SurveyApi` | the requests on these tables, one action per store call | `SurveyStore` |
| `Participation` | what is promised of a participant's data, abstractly: registered once, answered until the respondent is told, gone, forgotten for good | |
| `SurveyProps` | the properties of the survey; shows that `SurveyApi` implements `Participation` | `SurveyApi`, `Participation` (INSTANCE) |
| `Accounts` | registration, login, invitations, collaborators | |
| `ProjectKeys` | key pairs in browser and database, submission of encrypted responses, re-wrap | |
| `ExportJobs` | download links of encrypted bundles: reuse, throttle, expiry, restart | |
| `ItemOrder` | the editor's item list, its requests, the transaction that reorders | |
| `Reports` | an answer from the button to the cell: the score at submission, the wide, label and score files, alpha and histogram | |
| `Submission` | what a respondent's page promises about submissions, abstractly: begun, released, stored once, removed | |
| `ConsentForm` | the consent screen as operators: template, options shown, button, evidence, receipts | |
| `RespondentPage` | a respondent's tab and its requests; implements `Submission` | `ConsentForm`, `Submission` (INSTANCE) |
| `ScaleSettings` | the scale's row and items, the editor and the legacy page, their saves, loads and timers | |
| `Session` | tabs, the cookie, `useServerAuth`, signing in and out | |
| `LocalExport` | decrypting in the browser and writing the file | |
| `AdminPages` | the administrator's browser: the three above side by side | `ScaleSettings`, `Session`, `LocalExport` |
| `MC...` | constants, initial states and symmetry for TLC | each its module |
| `SurveyProofs`, `AccountsProofs`, `ProjectKeysProofs`, `ExportJobsProofs`, `ItemOrderProofs`, `ReportsProofs`, `RespondentProofs`, `AdminPagesProofs` | proofs | each its module; the last also the parts of `AdminPages` |

The components meet at the `scales` table. Each module keeps the columns of it
that its requests read: `SurveyApi` e2ee and turnstile, `Accounts` the tenant,
`ProjectKeys` the encrypted scales, `ExportJobs` the owner, `Reports` points,
labels and consent options, `ScaleSettings` one column of each kind that a
panel saves. `RespondentPage` takes the server for its answers, which are those
`SurveyApi` gives.

### How state and actions correspond to the code

A table is a set of records with the columns some guard or property reads. A
primary key is a condition on the set; an `ON CONFLICT` upsert removes the old
record and adds the new one. JSON columns are the value they encode.

A *slot* (`Slot`) is a request on its goroutine: `pc[r]` names the store call it
makes next, `loc[r]` holds the handler's local variables. An action is one store
call and the code that runs up to the next one, so that any other request may
run between two calls and never within one. This is the granularity of the
code: each call is one autocommitted statement. Store calls of several
statements (`DeleteParticipantByID`, `DeleteResponsesByScale`, `AddResponses`,
`DeleteItem`, `AppendE2EEEncDEK`) are split at each statement. A request that is
refused before it writes does not change the state and has no action.

Generated ids are drawn from a set of unused ones (`used`, `mintedFor`, ...):
the code generates them at random and two never meet. Ids a client or a CSV
file chooses may be used again: of scales and items, and the `response_id` of an
encrypted response, which the upsert of `InsertE2EEResponse` replaces or brings
back (`Intake`, `InsertSealed`, `AddE2EEResponse`). Token checks are membership in `known`: a
client that was given the token.

- `SurveyApi`: a slot is also a respondent's open form, with the scale and the
  items it showed. `Write` gives the outcomes of a write: done, or, when
  `WritesFail`, logged by `logErr` and taken for done. `FkModes` gives the
  pragma of the connection the pool picks: `NewSQLiteStore` sets
  `foreign_keys` on one connection, `main.go` lets the pool open more.
  `resent` records for the property which encrypted responses were sent again
  while a purge was going on.
- `Accounts`: an address is the same under `Same`, the lookup, which ignores
  letter case, and another under the UNIQUE constraint, which does not. A
  client names the id of the scale it creates, so any tenant may take that of a
  deleted one; `owned` records whose each scale is or was.
  `Accept` and the actions after it are a registration with an invitation:
  four writes in a row, of which the last may be refused.
- `ProjectKeys`: a key pair is an element of `Key`, an envelope the key it is
  made for and the data key in it. `InsertKey` fails as any INSERT may: it is
  logged and answered as a success, and `unwritten` records the scale. `kept`
  records beside a row the envelopes it was sent with and those appended since
  outside the overlaps the property names. A tab, a form and an offline re-wrap are pages with a state of
  their own; tabs share `storage`, the browser's localStorage. A reply may get
  lost, a page may close.
- `ExportJobs`: `exportMu` makes each store call atomic. `Tick` is the clock.
- `ItemOrder`: `calls[e]` are the requests a page has under way, in no order;
  what a callback captured at the click is `seen`. `tx` is the reorder
  transaction: `tx.at` is the position column as it sees it. The loop of
  `ReorderItems` updates `position` while it reads rows along the index on that
  column; `ScanGroup` is a step of SQLite's scan: it sorts a group of equal
  position by id once it has read the first row of the next. The step was
  compared with SQLite itself, row by row, on random tables. A list or MAX query
  that fails gives an empty list or position 1; `Rollback` is a statement or a
  COMMIT that fails, the latter after the method has returned true.
- `Reports`: a payload is a record whose field is its JSON kind, a column name
  is `<<base>>` or `<<base, n>>` for "base (n)". Submission reads the points of
  the scale once and each item in turn; a report reads scale, items, responses
  and, for consent columns, the scale again. Editors change the definitions in
  between. Where the code ranges over a Go map the result is a set of
  outcomes. Alpha is an exact fraction, so rounding of float64 is left out. A
  report looks at its format after it has read the responses, which the code
  reads in every format. `NoForm` is a participant without an open form.
  `MergeConsent` walks the choices of a consent in an order that is part of the
  step, `MergeChoice` writes one of them. The counters `edits` and the sources of cells serve
  the properties alone: no guard of the server reads them.
- `RespondentPage`: the variables are the `useState`s of `Survey.tsx`, what is in
  sessionStorage, and the requests under way. An action is a callback up to its
  next `await`; what follows the await is another action and uses what the
  callback captured (`begun`, `signs`), as the closure does. `Attempt` is what
  the click captures. `Handle` is the server's part of a request, `Lose` the
  network's, and `SubmitFailed` may come at any time of it: the page learns
  that a request failed, not whether it was stored. `Mount` is a reload:
  React state goes, storage and the wire stay. `Back` may return to the page
  with its state, as a browser's page cache does. An answer is the kind of
  value the checks tell apart; of a choice, the language it was ticked in.
- `ScaleSettings`: `calls[s]` is a request and what its callback holds; each of
  `ReadScale` and `WriteScale` is a store call of `UpdateScale`. `todo` maps the
  items a request still has to save to their place in the queue; `Foremost` is
  the next, `Rest` what is left. A text has a
  language the form shows and one that only the AI translation writes. `sure`
  and `told` record for the property what a message "saved" was about: a save
  whose update overlapped another one, or whose field another save under way
  names, tells nothing. No page reads them.
- `Session`: `Visit` is a change of path, `RunEffect` the effect of
  `useServerAuth` after the new page was committed. React may keep the gate of
  one guarded page for the next or mount a new one, so both are allowed; a kept
  gate shows the new page on the old answer until the effect has run (`due`).
  `wasIn` and `wasInBefore` record for the property whether the cookie was good
  during this visit and the one before.
- `LocalExport`: a text is a number, equal for texts that differ in case and
  blanks only; a Likert answer is a number that is no text. An answer to a
  choice is the texts in the order and each in the language they were ticked
  in, and `Join` is what `csvEsc` makes of them; `JoinAssumption` is what the
  property needs of joining with ", ". A row keeps beside its cell which options
  were ticked, for the property alone.
- `ConsentForm`: `Key` are the ids an option may have, among them the three of
  the built-in template (`ConsentAssumption`). Markers in brackets place
  options; those written as elements are cut out and place nothing (`Tokens`).

## 3. Runs

`PROJECT.json` lists them. `accounts`, `export_jobs`, `reports`, `admin_pages`
and `ai_apply` are checked for deadlock: a login, a restart, a report or a
click is always possible. The others have CHECK_DEADLOCK FALSE, because finite
sets of ids run out, or the respondent leaves, and nothing is left to do.

| Run | Question | Instance |
|---|---|---|
| `survey_pool` | What holds on the pool that `main.go` opens? | 2 requests of 9 kinds, one id of each kind |
| `survey_failures` | What holds if any write may fail? | 2 requests of 10 kinds, rows deleted and created again, Turnstile on |
| `survey_erasure` | Does a hard delete end, is it final while the submission is still being stored, and do the requests implement `Participation`? | 3 requests of 7 kinds |
| `accounts` | Who gets into a tenant, who collaborates on a scale, who joins by an invitation? | 2 requests of 9 kinds, 2 tenants, 3 users, 1 scale, 2 addresses in 2 spellings |
| `export_jobs` | Are jobs bounded, links good, racing requests one job? | 2 requests, 2 tenants, lifetime 6, reuse 5, interval 4, clock to 8 |
| `project_keys` | Does a response keep its envelopes, a new project its key? | 2 tabs, 1 form that may send again, 2 re-wraps, 3 keys of which one is unusable |
| `item_order` | Does a saved order survive the other edits of a page? | 1 page with 2 requests under way, 3 items |
| `reports` | Do labels, columns, totals and alpha say what participants chose, though definitions change? | 2 participants, 2 items of 5 kinds, 2 scales, 2 languages, 4 formats |
| `respondent` | Does the page implement `Submission`, keep what was sent, and give the button back? | 7 visits, 2 items, 2 attempts, 2 signatures, 1 token |
| `admin_pages` | Is what was said to be saved in the row, the gate closed to strangers, the same ticks the same cell? | 1 tab with 2 requests under way, 1 edit, 2 saves; 1 window with 3 pages in a row; 2 respondents, 2 options, 2 languages |
| `delete_scale_pool`, `ai_apply` | statements the code does not keep | the first as small as the counterexample, the second as `admin_pages` |

Why these bounds are enough to be of interest: every property above is about
what one request does to the rows another has read, so two requests that meet
on the same row are the case at hand, and one row of a kind makes them meet
always. A third slot in `survey_erasure` lets a scale be deleted and created
again while a delete overtakes a submission. `accounts` has a second tenant so
that a collaborator can be of the wrong one and the id of the one scale can be
taken again by it, and a third user and a second spelling so that an invitee's
address can have an account elsewhere. In `export_jobs` a job is reused past the
throttle's interval, as in the code (30 and 5 seconds), so that whether there is
one job per requester depends on both; the clock passes a whole lifetime after
the first job; `Patience` bounds how long a request takes, without which no link
lasts. In `project_keys` two re-wraps and a response that is sent again overlap
in every way on one response; `Load` bounds the open tabs, re-wraps and data
keys together. In `item_order` a page with an
added item under way that loads its list shows the item twice, which is what
makes the order sent to the server odd; two requests of two pages are no
different to the server from two of one. The third item is a row outside a saved
pair: added, imported or left at a position a reorder has given away; `Beside`
and `Short` bound what goes on beside it and how long a list gets. `MaxPosition` ends the scans that
would never end; such a reorder stays open and everything else goes on beside
it. In `reports` `MaxEdits` allows one change of a definition, which is enough
to come between any two reads; `Recast` says which kind an item may become, so
that each is changed into one that is scored or exported differently. `MaxOpen`
keeps one form open at a time, because forms only meet in the responses they
leave; `Ready` closes a finished report, which no step reads, before anything
else happens. In `respondent` each visit turns on one thing that may go wrong: a
reload, a language switch, a failing load or signature, encryption, Turnstile,
or options placed by number, of which one key is ill-formed. One required
choice and a page per item make every check of the form matter, and a second
attempt is what a lost reply leads to. `Values` says what may be entered; the
other item stays empty. In `admin_pages` the two requests under way are enough
for two saves to overlap, for a save to race a load, and for a request of a
page that is gone; `Editable` names the fields that are typed into, one that a
panel of labels saves and one that both pages save by another button. The parts of
that browser share nothing, so `front` lets one of them move in a behaviour and
the run is the sum of the three, not their product. Properties whose bound can
be removed are proved (section 4).

Symmetry is used for sets whose elements only `=` tells apart, and in no run
with a liveness property. Item ids are numbers, because they are sorted.

**Fairness.** `ErasureCompletes` assumes weak fairness of
`Continue(r)` for each slot: a request that was accepted goes on, since Go
runs every goroutine and SQLite ends every statement. Nothing makes a client
send a request, and no fairness is assumed of failing or succeeding writes:
the run lets writes succeed. Where a write waits for a lock it would be
refused and logged, which `survey_failures` covers for safety.
`SubmissionSettles` assumes of the respondent's browser that a request on the
wire arrives or is lost, and that the page is told of every request's end, if
only by the browser's own timeout: `fetch` settles, and both ends of the `try`
clear `submitting`. Nothing is assumed of the respondent or of Turnstile.

Each property has a mutant, an operator beside the original that is wrong the
way an edit might make it; with it the run finds the property violated.

## 4. Proofs

TLAPS proves, for every value of the constants:

- `TypeCorrect`, `ReferencesHold`: types and references of the survey tables.
  A row is inserted where its parents are (`HasParents`) or not at all, and a
  parent is deleted with its children, if connections enforce foreign keys.
- `ProvenanceHolds`: an id is used by one submission. Its conjuncts are needed
  for everything about erasure: an id nobody generated is nowhere, an id whose
  row is not inserted yet is in one slot, of two submissions in progress no id
  is the same, and none is already known.
- `AnsweredSettled`: from it, nobody adds to an answered submission.
- `AnsweredErasureIsFinal` (`AnsweredErasure`), for writes that do not fail:
  between the two statements of a hard delete no response of an answered
  participant can be stored, whether or not connections enforce foreign keys.
- `ErasureIsFinal` (`RowErased`), if they do: the row of the participant is
  gone and stays gone, so an INSERT of the submission that is still running
  finds no parent, and with `Referenced` no response is left either.
- `DataPromiseKept` is the refinement of `Participation`, for writes that do not
  fail: each store call is a step of it or changes nothing there. A participant
  is expected until its row is inserted, registered while there is a row, and
  has left after it (`Life`), which `Provenance` keeps in this order; answers are
  added before the respondent is told and by nobody else. Forgotten are those
  whose hard delete was answered: where connections enforce foreign keys all of
  them (`RowErased`, `Referenced`), elsewhere those whose submission had been
  answered (`AnsweredErasure`). The steps that do not touch participants stutter
  (`AsideLoses`, `OtherAside`, `ArriveAside`). `PromiseForgets` is what follows
  from the abstract specification alone: a participant who is forgotten has
  left and has no answers, in every later state.
- `ScalesGoWithResponses`: the statement that `delete_scale_pool` refutes holds if
  every connection enforces foreign keys, so what the run shows needs one
  that does not.
- `ConsentsMatch` (`Linking`): a consent's row, a participant's row and every
  request in between agree with the scale their ids were generated for, and
  `MintedStays` says that an id keeps it. Nothing is assumed of writes.
- `PurgeCompletes` (`Issued`, `PurgedSoFar`), for writes that do not fail: a
  statement of a purge has removed the old rows, and no INSERT brings one back,
  because an id that is still to be inserted has been told to nobody: except the
  upsert of an encrypted response that its client sends again (`resent`). With a
  first statement that fails the purge goes on to its answer and this is false.
- `LinksWork`, `LinksLast` (`Handed`): whoever asks cleans up, so the job of an
  answer that is still on its way has to outlive other requests. It is there
  until it expires, and expires no sooner than `TTL - Reuse` after its request
  began, which is answered within `Patience` (`InService`).
- `OneJobEach` (`InTurn`) assumes `2 * Patience < Interval`. A job comes up to
  `Patience` after the throttle let its request through, and a request that
  looked for one before it came asks the throttle up to `Patience` later still:
  it is turned away if that is within the interval.
- `FewJobs` (`Throttled`): expired jobs are removed only when a job is looked
  for or opened. What bounds them is the throttle: to each job belongs the
  moment its request was let through, those of a tenant are `Interval` apart,
  and all lie within `TTL + Patience`, the life of the oldest job at the last
  clean-up. A set of integers that far apart in such a stretch is small
  (`Packed`).
- `ItemsTyped` (`Fresh`), `SavedOrderKept` (`PlacesKept`): while a reorder scans,
  the listed rows keep the places it gave them, though the scan goes on with
  the others, and the pages' own edits write other rows. The list may repeat or
  miss items. What a sorted listing is, which row a scan comes to first and
  what place a listed item gets are lemmas on finite orders (`Ranked`,
  `ListingIsList`, `ForemostIsRow`, `Places`).
- `NobodyUninvited` (`Admission`): the requests on their way to a new user
  carry a tenant and an address that go together.
- `ColleaguesOnly` (`Colleagueship`): what `TeamService.Add` checked was true of a
  scale that is or was, and stays so in the history `owned`. That the tenant has
  the scale *now* is false (section 5).
- `InvitedJoin` (`Invited`): the account an invitation made stays, and what the
  team finds for the address is that account or one in another tenant.
- `KeysTyped` (`Provenance`), `RecipientsKept` (`Keeping`): what a re-wrap holds
  between read and write contains all that the response must keep, because
  whatever is written in that time is left out of `kept`: it is what the two
  exceptions of `EnvelopesKept` name. Any number of re-wraps, of responses sent
  again, and of overlaps.
- `CreatedUsable` (`Creation`): a project that was reported as created has its
  private half in a file and its key registered, or the INSERT of it failed.
- `PromiseIsKept` is the refinement: every step of `RespondentPage` is a step of
  `Submission` or changes nothing there. `Promises` is what it needs. Numbers
  of attempts are used once (`Numbered`); a submission is on the wire, stored
  or removed, and one that waits for keys is none of these, so that it is
  stored once (`OnlyOnce`); every evidence under way says "agreed", because
  what the Agree button demands includes what the summary asks for
  (`EnabledIsAgreed`), and settings once shown are the server's (`Informed`).
  `ContextKept` follows from the same invariant.
- `SavedIsKept` (`Kept`) is a proof about read-modify-write without a lock:
  of two requests between read and write none is sure of anything
  (`OneBetween`), what a page is sure of no other request names (`SureAlone`),
  and what is settled is in the row *and* in every copy that was read and will
  be written back (`SettledIsIn`). Nothing is assumed of what forms hold.
- `RespondentTyped` goes through five parts (`ServerTyped`, `LoadsTyped`,
  `ConsentTyped`, `FormTyped`, `SendingTyped`), each kept by the actions that
  write it. It needs `Promises`: what is sent is complete, and only
  signatures that were asked for come back.
- `SettingsAreTyped`, `BrowserTyped`: beside the types of rows and pages, a save
  that merges belongs to the editor and has read a row (`CallsTyped`,
  `EditorMerges`), and the legacy page has items once it has a scale
  (`LegacyHasItems`).
- `CellsAreTicks`, `BrowserCells` (`AsSent`): what is decrypted is what was
  sent, tick by tick; two texts of different lists that stand for one option
  come to one text, since `Unambiguous` leaves one option for a text, and texts
  without the separator are told apart in the joined cell. Any numbers of
  texts, options, ticks, languages and respondents.
- `OnlyTheConfirmed` (`Confirmed`): a check belongs to the visit whose effect
  asked, and is answered "yes" only if the cookie was good during that visit;
  before the effect of a visit has run, a check of the visit before still counts.
  `BrowserKeeps` and `BrowserConfirmed` carry both over to `AdminPages`.
- `ReportsTyped`, `TotalsAreAnswers` (`Scores`): each score that is stored, on
  its way or read by a report was computed from the definitions the form
  showed, or a definition has been edited since, which the counters of edits
  tell; a total adds up the scores of one participant's items, each once.
- `LabelsAreChosen`, `ColumnsAreOne`, `NothingIsLost` (`Scores` with `Tables`): an
  item is scored once per participant (`OneRow`), a report knows since when its
  copies are good (`Seen`), and a table is, row by row, the outcome of merging
  the choices of a consent into the cells of the answers in some order
  (`Tabulated`). The rest is about the operators. Two listed items never get
  one header. `ColName` always finds a name: of n + 1 numbered ones, one is
  free in a row of n columns, so no merge overwrites a cell. The columns of a
  consent are the same in each row if no label clashes, whatever order the
  choices come in; the proof follows the merge choice by choice. `PlainHeaders`
  and `PlainNames` are conditions of these properties and not of the model:
  no stem looks like a numbered name or an id, and, where it matters, no
  consent label like a stem or another label (section 5).

- `AlphaIsOfAnswers` (`Scores` with `Summaries`): the code computes alpha from
  the variances of the items and of the totals, the property from the
  covariances of the buttons. That the two agree is an identity of sums over
  two indices (`AlphaByCovariances`), proved for a fold of `+` over any finite
  set: the fold takes the element picked and the sum of the rest (`SumStep`,
  from `IterExists`, because the library defines the fold by choosing a
  function on the subsets), sums are linear (`SumLinear`), a sum of sums may be
  taken by columns (`SumSwap`), and so the covariances add up to the variance
  of the totals (`CovariancesAdd`).

Constants are assumed as the `...Assumption`s say, which TLC evaluates in the
runs: a throttle's interval is not zero, item ids are numbers and finitely many
where they are sorted or tabulated (`OrderAssumption`, `TextAssumption`), names
of columns and lists of labels are sequences, ids of options are not ids of
items. What is proved holds for every number of requests, tabs, pages,
participants, items and scales. The inductive invariants are defined in the
proof modules, those of the parts of `AdminPages` beside their properties.

Every invariant and every safety property that a run checks is proved. Only
model-checked are `ErasureCompletes` and `SubmissionSettles`,
because liveness under fairness is out of the prover's reach, and the two
statements of section 5 that runs refute. Induction over data is done by hand:
`Counting` says that a set of numbers with 0 and every successor is `Nat`,
`PickInduction` that a family of subsets closed under adding what is picked
next has the whole set; sums and `MergeConsent` rest on them.

## 5. What the code does not keep

- `delete_scale_pool`: on a connection without foreign keys, `DeleteScale`
  leaves items and responses (sqlite_store.go:33, :484; docs/api/rest.md:39).
- `ai_apply`: applying AI translations sends each item with nothing but its
  stem, and the update writes every column, so type, options, required and
  position are emptied (router.go:1260; sqlite_store.go:591; "save into item
  stems", en.json:247).

Known from the models, and without a run of their own:

- Survey: an item that is deleted and imported into an encrypted scale while a
  form is open takes a plaintext answer there (response_service.go:103;
  docs/e2ee.md:23). Two registrations of one address leave a tenant without
  user, since the rollback waits for an error the adapter does not return
  (auth_service_adapter.go:30; auth_service.go:72). The soft delete, which is
  what the self-service page sends, keeps every response (README.md:120 says
  the submission is deleted).
- Survey, encrypted: a response sent again under its old id after a purge or a
  deletion is there again (e2ee_service.go:181; query.sql:147), which
  `PurgeIsComplete` excepts and no document forbids.
- Accounts: a scale deleted and created again under its id by another tenant,
  between check and insert, gets a collaborator of the tenant that had it
  (team_service.go:48 to 60). An invitee is registered and then refused by the
  team, which is only logged (router.go:892), if `FindUserByEmail` returns an
  account of another spelling of the address in another tenant.
- Items and scores: a COMMIT of `ReorderItems` that fails is logged after `true`
  was returned, and answered as a success (sqlite_store.go:698). The items a reorder does not list may be swapped, and when
  two of them have position 0, which every edit from the page writes, the loop
  meets them again where it put them and does not end (sqlite_store.go:741;
  store.go:596); in `ItemOrder`, `next` runs up to `MaxPosition`. An item with
  more anchors of its own than the scale has points scores an answer on the
  anchors above as 0 (response_service.go:163), while the page shows the item's
  anchors (Survey.tsx:761). A consent label equal to the stem of an item, or two
  equal consent labels, give columns whose meaning differs from row to row,
  which `PlainNames` excludes.
- Keys: of two overlapping re-wraps one is lost though both are answered ok
  (sqlite_store.go:1001; docs/e2ee.md:65), and a re-wrap that read a response
  before it was sent again writes the envelopes of the old data key beside the
  new ciphertext. Both happen in the run `project_keys`: `EnvelopesKept` without
  its exceptions is violated. A key whose INSERT failed is announced as
  registered (sqlite_store.go:1041; e2ee_service_adapter.go:30). A private key whose page closes
  between registration and the end of the creation is overwritten by the next
  one (docs/e2ee.md:29 to 31). `encryptForProject` skips keys it cannot use and
  names the first key of the list whichever it used (`EncryptForProject`).
  `/api/rewrap/*` drop the documented field names.
- Settings: two overlapping `UpdateScale` keep one of the two changes. The
  autosave of the legacy page (AdminScale.tsx:66 to 72) saves the options of
  before the last edit, a reset saves those of before the reset, and a pending
  timer may take back a signature box. The legacy page shows the recommended
  options for a scale that has none, unsaved. Saving the consent text drops the
  languages the form does not show, while the page goes on showing them; empty
  lists of labels are not applied though the page says saved. The reload after
  Apply replaces unsaved edits.
- Sign-in: a guarded page reached from another one is rendered once on the old
  answer, also when the cookie is gone (App.tsx:27 to 44, :120 to 126). A refusal that comes late signs out a page that was confirmed since;
  pressing logout leads to the form even if the request failed.
- Local export: the options of a multiple choice are joined by ", " in the order
  ticked, so "Tea" and "Coffee" read like one option "Tea, Coffee", and the same
  two options ticked the other way round are another cell (ExportPanel.tsx:14 to
  22; Survey.tsx:804). Entries the key does not open are left out without a word, the
  "long" button writes a wide file, importing a scale's key removes the one
  stored for no scale in particular, numeric answers are taken for Likert
  points, and the legacy page writes answers as they came.
- Respondent: the consent markers that docs/api/rest.md:24 to 26 offers as
  elements (`<consent-interactive/>`) place nothing, because the branch for them
  asks for a group only brackets have (Survey.tsx:176). Pressing Agree twice signs twice; a signature that failed is not
  noticed; texts may be of the language before the last switch; a lost reply
  and a retry store a submission twice; a Turnstile token that was used is sent
  again; a page whose settings did not load sends plaintext for an encrypted
  survey, which the server refuses.

## 6. Not modelled

- `LegacyImport` (`migrate.go`) and `store.go`: a copy that runs once before the
  server listens, and the in-memory store that only it and tests use. That the
  copy is not repeated after a crash half-way is listed as a hazard.
- The long and item files, the daily series of the summary and the self-service
  export; short text, dates and typed numbers, which are stored and exported as
  they are.
- The AI service itself, an external one; its answer is an input of
  `ScaleSettings`.
- The views of analytics, collaborators and the audit log, which show what they
  load; the header, which asks as the gate does, for its buttons.
- Headers, tokens and encoding in `router.go` and `middleware`; the audit log,
  which nothing reads but its display; generated SQL bindings and the schema
  runner; rendering, wording, build scripts and deployment.
- Cryptography: an envelope is readable with its key and with no other.

`PROJECT.json` lists every component with its reason.

## 7. What could come next

The order of the project was the survey with its tables, requests, erasure and
proofs; then accounts, exports, keys, item order and reports; then the browser:
the respondent's page with its refinement, the administrator's pages, and their
proofs; last the refinement of `Participation` and the sums behind alpha. Left
are, in the order of what they would add:

1. `RespondentPage` composed with `SurveyApi` as its server in one behaviour,
   instead of by its answers.
2. The long file, the item file with its import, and the self-service export in
   `Reports`.
3. `LegacyImport` with crash and restart, against "all rows or none".
