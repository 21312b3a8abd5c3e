# Verification of LedgerMind (finance-agent-suite)

This directory holds TLA+ models of the program under `src/`, the TLC runs that
check them on small instances, and TLAPS proofs of what matters most for every
size. Paths below are relative to the root of the repository.

## 1. The system

LedgerMind is a set of finance agents on a common platform. An agent retrieves
records, computes or drafts something, appends each step to an **audit log** and
submits the draft to an **approval queue**; people then sign it off. Around that
stand the services of a small multi-tenant product: users, sessions, tenants,
files, usage events and a Telegram bot. Everything is synchronous Python on
SQLite. Every component opens its own connection, most of them its own
database file, so *two components never commit together*: a crash between two
commits, and a second process between two statements, are the sources of nearly
everything that is hard here.

| component | state | operations | interacts with | hard behaviour | what makes it correct |
|---|---|---|---|---|---|
| audit log `platform/audit-log` | `events` (append-only by triggers, hash-chained) | `append`, `verify_chain`, `export_evidence_pack` | called by all others | the newest hash is read and used in two statements; the evidence pack is two SELECTs; damage in the file | one unbroken chain; verification notices exactly the damage there is |
| approvals `platform/approvals` | `approval_requests`, `approval_decisions` | `submit`, `decide`, queries | writes audit events after its commits | stages, edits and rejections in any order; several queue objects; crash before the audit append | nobody acts twice on a request, the routing is followed, outcomes are final, the log mirrors the tables |
| audit-readiness tie-out `agents/audit-readiness-agent/.../tie_out.py` | none; reads an audit log | `find_evidence` | log of reconciliation runs and approvals | events carry no run id: runs are recovered by adjacency | evidence cites one run, is found when there is some, and has that run's status |
| reconciliation agent | none of its own | `run_reconciliation` | connectors, audit log, approvals | breaks off half-way; a greedy match in row order | each line in one pair or one exception; a run that broke off is no evidence |
| telegram link `platform/telegram-link` | `link_codes`, `chat_links` | issue, redeem, revoke, resolve | auth, audit log; the bot and a command line share it | check and write in different statements, two processes, expiry | a code links once; one live link per chat; table and log agree |
| auth `platform/auth` | `users`, `sessions`, `mfa_enrollments`, `password_reset_tokens` | registration, login, TOTP, reset, sessions | session service | replays inside the drift window, reset in two commits, expiry | codes and tokens are spent once, a reset ends sessions |
| session `platform/session` | none of its own | `authenticate`, `validate`, `logout` | auth, tenancy, audit log | several factors checked one after another | a token only after all factors, and only for members of a tenant |
| tenancy `platform/tenancy` | `tenants`, `memberships`, tenant-scoped tables | create, assign, scope | session, infra demos | a refused INSERT keeps the write lock | rows of one tenant stay apart |
| file storage `platform/file-storage` | `files` and `file_references` rows, files on disk | store, retrieve, link, list | audit log, tenancy | bytes, row and event are three writes | each row has its bytes; each row and each file handed out has its event; tenants stay apart |
| analytics `platform/analytics` | usage events | record, counts, rate check | tenancy; the caller of `rate_limit_check` | asked first, recorded afterwards; windows open or closed at the edge | a limit that is asked before each call holds |
| the other ten agents `agents/*` | none of their own | one function each (`process_invoice`, `run_*`, ...) | connectors, knowledge, a language model, audit log, approvals | failures between steps; rounding, thresholds and row order in the rules | figures add up and are reproducible; what passes is in order; nothing is drafted without grounds |
| telegram bot `telegram_bot_prototype.py`, `telegram_bot_photo.py` | a persistent log; stores per run | handlers of text, photos and documents | telegram link, expense and AP agents, audit log | `await` between resolving a user and acting for them; exceptions after the event | acts only for the user the chat had; what it says is on the log |
| infra demos `infra_login_demo.py`, `infra_unified_demo.py` | files shared by all browser tabs | seeding, login, notes, agent runs copied into one log | all services | several tabs seed the same files and append to one log | nothing twice, nobody without a tenant; copies follow their marker |
| pages `app.py` | the widgets of a tab; stores per run | one page per agent | the agents | a run that raises or is abandoned half-way | the screen says what the queue and the log hold |
| connectors, knowledge | none that outlives a call | fetch, search | agents | parsing | not modelled |

`PROJECT.json` lists the source files of each, and under `hazards` each place
that is hard to test with the properties that guard it.

## 2. Modules

| module | models | composed with |
|---|---|---|
| `AuditLog` | `audit_log/store.py` | |
| `ApprovalFlow` | what an approval promises, without tables: abstract | |
| `Approvals` | `approvals/queue.py` | implements `ApprovalFlow` |
| `EvidenceTieOut` | `tie_out.py` over the log written by `runner.py` of the reconciliation agent and by the queue | queue abstracted to whole calls |
| `TelegramLink` | `telegram_link/store.py`, called by two processes | |
| `TelegramBot` | the handlers of `telegram_bot_prototype.py` and `telegram_bot_photo.py` | extends `TelegramLink` |
| `Sessions` | `session/service.py` with `auth/store.py`, `mfa.py`, `reset.py` and memberships | |
| `ScopedStores` | `file_storage/store.py`, `analytics/store.py`, `tenancy/scoped.py`, each process in the scope of a tenant | |
| `InfraDemo` | `infra_login_demo.py`, `infra_unified_demo.py`: seeding, login, notes, copying of logs | extends `ScopedStores` |
| `DraftOnly` | what "draft only" promises of a run: abstract | |
| `AgentRun` | the runners of all twelve agents and what they make of the model's answers | implements `DraftOnly`; the queue abstracted to `submit()` |
| `AppPages` | `app.py`: every page around the run of its agent | extends `AgentRun` |
| `Decimals` | rounding, powers and sums as the rules use them; two rows of a sheet changed round (`Swaps`) | |
| `Matching`, `Aging`, `Variance`, `ControlTest`, `ReceiptPolicy`, `VatProvision`, `Forecast`, `Triage`, `InvoiceTotals` | the deterministic rules of nine agents: `matching.py`, `aging.py`, `variance.py`, `sod.py`, `compliance.py`, `provision.py`, `projection.py`, `triage.py`, `money.py` with `sanity.py` | use `Decimals` |
| `BackOffice` | sheets that grow row by row, and every rule on them | instances of the nine |
| `MC*` | constants for TLC | |
| `AuditLog_proofs`, `Approvals_proofs`, `EvidenceTieOut_proofs`, `TelegramBot_proofs`, `Sessions_proofs`, `InfraDemo_proofs`, `AgentRun_proofs`, `BackOffice_proofs` | theorems | each extends the module it is about; `AgentRun_proofs` is about `AppPages` too |

The rule for atomicity is the same everywhere. Python's `sqlite3` opens a
transaction at the first INSERT, UPDATE or DELETE, never at a SELECT; so a
SELECT is one action, and the writes up to a `commit()` together are one. A
`_audit()` or `audit_log.append()` that follows is another, since it goes to
another file. Whatever a call computed from an earlier SELECT is kept in the
client's entry of `op` (with `pc` saying where in the call it is) and may be
stale by the time it is used. `Crash` forgets that entry.

**AuditLog.** `rows` is the table, `lastId` its AUTOINCREMENT counter, `op[c]`
an `append()` or export in progress on connection `c`. A hash is the sequence of
all events it covers (`RecordHash` appends the event to the previous hash): this
is injective, so the model assumes SHA-256 has no collisions, and it can be
recomputed, which is what `verify_chain()` does. `append()` is `ReadLastHash`
and `Insert`; `export_evidence_pack()` is `ExportVerify` and `ExportWrite`.
`DamageRow` and `LoseRow` are what happens to the file when the triggers are
out of the way. `appended` is history: what `append()` was given.

**Approvals.** `requests` and `decisions` are the tables. `decide()` is
`DecideRead` (the SELECT in `get()` with the status and stage checks),
`DecideCheck` (the SELECT of prior actors, and the checks on the decision),
`DecideWrite` (UPDATE and INSERT, one commit) and `LogAppend`. `Calls`
enumerates every call a client may make, also those that will be refused.
`Refinement`: a case of `ApprovalFlow` is a request, its signers are the actors
of its decisions, its verdict is its status.

**EvidenceTieOut.** The log holds the events of reconciliation runs, of runs that
broke off, of other agents and of decisions; the `run` field of an event is
history and is what the code does not have. `FindEvidence` is the function under
test, evaluated on every reachable log. A day is a number, and a window encloses
another if it holds each of its days. `StatusRightWhenAlone` states the limits
within which its answer is right.

**TelegramLink.** The bot (`Redeemers`) and a command line (`Admins`) share the
tables. `redeem_link_code()` is `RedeemRead` (the code's row and its three
checks), `RedeemCheckChat`, `RedeemWrite`, `LogAppend`. Of the audit log, each
chat's newest link event is kept. `serial` is history: it stays true as long as
no two calls overlap and none dies; the properties that need this name it.

**Sessions.** One variable per table. `authenticate()` is `SignIn`, `SignInMfa`,
the three steps of `consume_totp()`, `SignInTenant`, `SignInToken`; the reset is
`RequestReset` and `Redeem`, `RedeemPassword`, `RedeemRevoke`. The clock counts
TOTP time-steps. Of the audit log, the sessions it says are open are kept.
Passwords are counted: `password[u]` is the number of the one the user has, a guess
is it or not, and the one inside a session row is history. A code is a pair of secret and
time-step, so two codes of one window never coincide; in the program they may,
with probability one in a million.

**AgentRun.** A runner is straight-line code: it retrieves or receives something,
computes, asks the model, reports, submits, and appends an event after each.
The twelve runners differ in which of these they do, so each is a sequence of
steps under the name of its function (`process_invoice`, ...), and one action
models each kind of step. An event's step stands for the name the agent gives
it (`context` for `explanation_context_retrieved`, `chunks_retrieved`, ...); its
body holds the parts of the later draft that its inputs and output state, and no
others: a skipped step states its reason alone, a refused or unparseable answer
its reason and the excerpts asked with, a drafted one the excerpts and the draft;
the event of an extracted invoice tells everything but its line items (`heading`),
that of a matching and most report summaries give numbers (`count`). `Says` is what a
field of a payload is in an event. The
model's answer is any of `Answers`; `Verdict` and `DraftFrom` are what the
`draft_*()` functions make of it, by the form they ask for (`Drafting`): an
entry per finding or invoice line, one object, or a text. `Findings` is the
rules of the agents as a constant, any function from sources to findings; the
vision agents apply it to what the model transcribed. `Begin` is the first
event; a source refused before that (no rows, mixed currencies) leaves no trace
and is no run. `Die` is an exception or the end of the process anywhere. The
`run` of an event is history, and `serial` stays true as long as no two runs of
one agent overlap. `Trail(i)` is what an auditor who has no run ids reads before
position `i`: the events of that agent since it last began a run. `Promise` maps the log and the queue to `DraftOnly`.

**TelegramBot.** `upload[p]` is the photo or document a process is handling and
`posted[p]` what it has appended to the persistent log about it. A stage is an
action: `Receive` (resolve the user, acknowledge), `RejectDocument`, `Download`,
`RouteUpload` (by caption, or by a vision call), `RunAgent`, `RecordPhotoRouted`,
`Summarize`. The user is resolved in the first and used in all others; every
stage may be followed by `LoseUpload`, an exception nobody catches or the end of
the process, and by any step of the process that revokes links. The bot handles one update at a time, as
python-telegram-bot does unless `concurrent_updates` is set, which the code
does not; `M_Text` drops just this. The agent's run on throw-away stores returns a
draft, none, or raises.

**ScopedStores.** `store()` writes the bytes, then the row, then the event; a
process may die between any two. A file is its number, which stands for an
unguessable id and for the content. `rate_limit_check()` enforces nothing: the model adds the
caller the README of analytics describes, which asks and then records.

**InfraDemo.** A tab is a process which starts a script (`Open` opens the stores
and looks for the first user), seeds step by step (`SeedRow`, `SeedNote`), logs
in, adds notes, and copies the log of an agent's run into the shared one: a
marker (`RunAgent`), then one event after the other (`CopyEvent`). `create_tenant()` and its like raise for what
exists already, and the script ends there.

**The rules.** Each rule module translates one file: operators with the names of
the functions, without state. Money is in cents and rates in whole parts, so
sums are exact; `quantize()` is the only thing that rounds, half up or half to even
as the code asks. A text is what the rule tells apart: blank or not, legible
or not, a name in some spelling, a set of words. `BackOffice` keeps one sheet
per input file; a row is added at a time, and since a run is a function of the
sheets and the policy, all its runs are looked at in every state. The
properties need no second implementation: they compare a report with the rows it came from,
with the report of the rows in another order, under a stricter policy, or
before the last row was added. `PassedIsInOrder` asks for the amounts as they
were before a share was rounded for the comparison.

Three places where a report does depend on the order of a file are in the rules'
own terms. A line that occurs twice in a budget, or in one month of a history,
counts with its last row; which of two near ledger lines a bank line takes is
settled by their order; and where the newest row of a line leaves its category
blank, `projection.py:94` takes the first that any of its rows gives, in the order
in which `by_key[key]` came to hold their months (`Place`). So `OrderIsIrrelevant`
is asked of sheets without such lines (`DistinctLines`, `OneCategory`), and of a
reconciliation's exact pairs and difference. Triage keeps the first
`max_controls_surfaced` of a sorted list; a negative one leaves out as
many at the end, as a Python slice does. A power is `Power`, a recursive function, and
not `^`, which the provers know nothing of.

**AppPages.** A tab runs the script once per interaction. `Click` starts a run;
`IncompleteClick`, `RefusedSource` and `Raise` are the ways it never starts or
ends early, with a message or with a traceback according to what the page
catches; `Go` is the run going on, a step of `AgentRun`; `Render` puts the
result on the screen in the sections of that page, and `Interact` is the next
interaction, which wipes it off or comes before it is shown. `Render` does not raise. A page
renders its result inside the `try` of its run (`app.py:926-930`), so a `ValueError` there
would show as a failed run although its draft is in the queue; the data a run
returns gives the renderings no occasion to raise one.

## 3. Runs

Every run is exhaustive within its bounds. Only `agent_runs` assumes fairness: a
runner waits for nobody, so each of its steps is taken in the end (weak fairness
of `Continue(p)`) unless it raises, which is `Die` and may happen before any step;
nothing makes a process begin a run. All other properties are safety.
`CHECK_DEADLOCK FALSE` stands only in runs in which the bounds on logs, codes,
files, sheets and clocks can stop every process.

| run | instance | shows |
|---|---|---|
| `audit_damage` | 1 connection, 2 events, 4 rows | verification is exact under damage and loss of rows, and names the first row that is not to be trusted |
| `audit_two_writers` | 2 connections, 2 events, 3 rows | records form a tree; a pack that says *broken* is right |
| `audit_fork` (violation) | as above | two connections fork the chain |
| `approvals_core` | 1 queue, 3 actors, 2 requests, routing reviewer → approver | duties, routing, mirror, finality, refinement of `ApprovalFlow` |
| `approvals_two_queues` | 2 queues, 3 actors, 1 request, crashes | what is left of it then |
| `tie_out` | 3 runs, 2 requests, 8 events, 3 kinds of window | the evidence is found, belongs to one run and does not get worse; when its status is right |
| `telegram_link` | bot and command line, 2 users, 2 chats, 3 codes, crashes; 1.1 million states | links not replaced, tables and log agree, uploads are handled for the right user and accounted for |
| `sessions` | 2 connections, 1 user, 2 sessions, 1 reset token, 2 time-steps, crashes | factors, codes, resets, tokens, log |
| `agent_runs` | 2 processes, 7 agents, 2 runs, 2 sources, 2 items, 1 excerpt; 428 thousand states | drafts read back from the log, `DraftOnly` implemented, computed figures reach a human |
| `back_office` | per agent up to 1–5 rows out of 3–48, 1–8 policies; 147 thousand states | matching, totals, order, strictness, what passes, monotone flags |
| `tenant_data` | 2 processes, 2 tenants, 2 files, 3 calls each, a seed of 7 steps, crashes; 308 thousand states | tenants stay apart, the trail is complete, limits hold, seeding and copying are sound |
| `app_pages` | 1 tab, 7 pages, 2 runs, 2 sources, with an API key; 322 thousand states | the screen is true |

Why the bounds are enough to be worth something. A fork needs two connections
and two rows; a third row shows what follows it. Damage to a row, loss of a row
and their combinations need three rows to have an inner one, a fourth puts one
after it. The routing has two stages and duties involve the preparer and two
deciders: three actors are the least with which a request can be approved, and
every shortcut shows as an actor who occurs twice. A run broken off, a run
complete and a run after that are the shapes `find_evidence()` distinguishes;
windows are wide, narrow, and open. A chat is linked, revoked and linked again
with two codes; the third is one that is dropped. Two users and two chats are
the least with which an upload could be handled for the wrong one. Codes replay
within one window of three time-steps, all of which occur with the clock at 0
and 1, and a time-to-live of one step lets each row expire; the second secret
can come only from two enrolments at once.

In `agent_runs` one process calls an agent of every kind (two vision agents, one
with optional findings; findings from tables; a triage with two retrievals;
reconciliation; a tie-out; a question) while the other answers a question,
beside it or overlapping a run of the same agent. The agents left out take only
steps that one of these takes. Two runs are a run that broke off and the one
after it; of the two items one may be flagged, so an answer may speak of what is
wanted, of less or of something else. The two sources are invoices that differ in
their line items only, so that no event of an extraction tells them apart. `app_pages` takes the pages that differ in
what they ask for, catch and show; tabs share nothing, so one is enough, and its
second run is what could show beside the first.

In `back_office` each sheet has rows on both sides of every boundary its rule
has: days 0, 1, 30, 31, 61 and 91 late, amounts on, below and above a threshold and
zero, a budget of nothing, names that differ only in spelling, receipts
that are blank or illegible in a field, rates absent and zero, months that
are none, decimal commas. Matching needs five rows for two candidates on each
side of a bank line and one that is over; a pair of rows is what joins, duplicates and
changes of order need, and a third is what changes beside them.

In `tenant_data` a file of one tenant is asked for by the other while it is
stored; two files are a row whose bytes are there and one whose are not. The
limit is one call per window of one, over times 0 to 2, so that an event falls on
either edge. The seed has every kind of step, and tenants before users before memberships, as the code does; an agent's log has two
events, which is what can be copied in the wrong order.

Each property has at least one mutant in `PROJECT.json`, a plausible slip in one
definition (the `M_...` operators beside the definitions), under which the same
run finds it violated.

## 4. Where the code and its documentation disagree

One is shown by a run of its own:

* *The audit log forks* (`audit_fork`). With two connections `append()` may read the same newest
  hash twice; from then on `verify_chain()` fails for ever, although
  `infra_unified_demo.py:33-34` says the combined sequence is one unbroken chain.

The others were met while translating. The models follow the code, and the
properties are stated so as to hold of it:

* *An edited payload is not mirrored.* The queue's docstring (`queue.py:7-9`) promises every state
  change in the audit log; the event of an EDIT (`queue.py:254`) has no payload.
* *A decision is credited to another run.* `_last_approval_status()` (`tie_out.py:88`)
  takes the last approval event before the next run starts, whichever request it
  is of. `StatusRightWhenAlone` states when that is right.
* *A dropped code links.* `redeem_link_code()` does not read its row again before
  the write (`telegram_link/store.py:245`); a link may then have no consumed code.
  `SerialLinkHasConsumedCode` speaks of calls that do not overlap.
* *A budget of zero is not "zero budget".* The README of the close agent (32–33)
  and `close_agent/models.py:34` promise a flag for spend against a zero budget;
  `variance.py:142` raises it only if the line is missing from the budget, and a line
  that is there with a budget of 0 has no percentage either.
  `PassedIsInOrder` asks for the thresholds that apply.
* *One relevant control may be coverage.* `regulatory_change_agent/models.py:33-35` says
  that a single relevant control is weak coverage; `triage.py:111` looks only at
  the best score. `models.py:64` mentions a bonus for a matching category that
  `triage.py:88` does not add.
* *A violation code may repeat.* `expense_agent/models.py:83-84` says each at most
  once per receipt; `missing_required_field` stands there once per field.
* *`require_distinct_approvers` is less than it says.* `controls_sox_agent/models.py:30-32`
  lets it also govern whether the preparer may approve; `sod.py:66` tests that whatever its value.
  (Without the switch, one person named twice passes as the two approvers
  `models.py:27` asks for.)
* *An invoice's line items are in no event.* `ap_agent/runner.py:4-6` says that every step
  writes to the log, so that a run can be reconstructed; `invoice_extracted` (122–139)
  gives the number of the line items that the draft submits, and their text is
  nowhere in the log. `DraftsReadBack` asks for the rest (`ToldInPart`).
* *Too large a file is not answered for.* `telegram_bot_prototype.py:320-326`: `get_file()`, which raises
  Telegram's "file is too big", stands outside the `try` whose comment says it covers that.
* *"Submitted for approval"* is what the bot tells a user of a draft, though the
  queue it went to is in memory and closed with the run; only the event of it lasts.

Some limits follow from separate commits and are only recorded: after a
crash the approval tables may be one event ahead of the log (never behind it:
`LogNeverAhead`), and so may a telegram link; and a reset that dies between the
commit of the new password and the revocation leaves the old sessions open
(`SerialNoSessionSurvivesReset` speaks of calls that end). Two overlapping
`redeem_reset()` of one token both pass the SELECT (`auth/store.py:390-404`) and
both write (406–414), so the single use that `auth/README.md:118` promises is one
of calls that do not overlap (`ResetTokenSpentOnce`; `CodesSpentInOrder` of TOTP
codes likewise). Another is that events
carry no run id: when two runs of one agent overlap, the log does not say which
of them an event is of (`DraftsReadBack` is stated for runs that do not). Even then
the last event that states a field need not be of the run that submitted: a run
that breaks off after its excerpts were logged may be followed by one that flags
nothing and logs none. So an auditor must stop at the agent's latest event that
begins a run, which is what `Trail` does. A pack may also say *ok* beside events that
were forked after its verdict was reached (`audit_log/store.py:172`);
`PackBrokenIsRight` speaks of the other verdict.

## 5. Proofs

TLAPS checks the theorems below for all values of the constants, which is to say
for any number of connections, processes, users, rows and calls; where less is
assumed, it says so. Every theorem listed in `PROJECT.json` with a `property`
states, for all instances, a property that one of the runs checks on a small one.
The pattern is mostly the same: the property is not inductive, and what has to be
added is what a call *in progress* may rely on although others move between its
statements.

**`AuditLog_proofs`** (any connections and events; `DamageIsNoticed`, `NamedRowIsFirst`
and `SingleWriterChain` one connection).

* `TypeCorrect`. The invariant adds that a connection's `op` has the fields its
  `pc` says. That a broken chain has a *first* broken row is the well-foundedness of
  `<` on the naturals (`Least`).
* `ForksStayLinked`: `[]ChainIsTree`. An `append()` in progress must hold the hash of
  a row that is stored, which `TreeInv` says of every pending `op`.
* `SingleWriterChain`: `[](ChainIntact /\ VerifyIsExact)` without damage. The
  strengthening is `PendingIsNewest`: the hash held by a pending `append()` is that of
  the newest row, which nobody else can change in between.
* `BrokenPackIsRight`: a pack that says *broken* is right, since a broken chain never
  heals: `PackInv` says that a verdict in hand still holds.
* `DamageIsNoticed` (`VerifyIsExact`) and `NamedRowIsFirst` (`BrokenIdIsFirst`) on
  `DamageSpec`. `KeptInv` says what damage leaves: each row keeps the hash of the
  events appended up to its id, ids are in order, and the last one is `lastId`.
* `DamagedRowIsNamed`: for every intact chain and every change of one event,
  `verify_chain()` names exactly that row. It is about the operators alone.

**`Approvals_proofs`** (any actors and payloads, any routing without repeated roles,
`RoutingAssumption`: `index()` finds the first occurrence, so a repeated role would
never be passed; `NoPayload` not a payload).

* `TypeCorrect`, `PreparersNeverDecide` and `LogNeverAheadOfTables`: any number of queue
  objects, crashes included. A pending call is related to the table: the request it
  read has the same preparer as the stored one and its actor was checked against it. For the
  log, `CountInv` counts: events on the log and calls about to append one are together
  no more than the rows.
* `DutiesSegregated`, `RoutingFollowed`: one queue object, crashes included. The
  pending call has read the present rows (`RoutingInv`: the stage it read is still the request's), so
  the actors it was checked against are all there are.
* `ImplementsFlow`: `CrashSpec => FlowSpec` under the same assumption. Each `Submit` and
  each `DecideWrite` is one step of `ApprovalFlow`, every other step a stutter.
* `LogMirrors`: `[]LogMirrorsTables` for one queue object that does not die
  (`Spec`). `MirrorInv` says of each request that its events are its rows, less the one whose
  call is about to append it (`Mirrored`, `WaitingTells`).

**`EvidenceTieOut_proofs`** (any windows, items and signatures, any number of runs and
requests; bounds are numbers and days are days). `LogInv` says how logs come about: runs are
numbered by their start (`RunsNumbered`), the events of one lie between its start and
the next (`Grouped`, `RequestsGrouped`), the run in progress is the last
(`ActiveIsLast`). Since `find_evidence()` takes a least and a last element, `Least`,
`Greatest` and `BestExists` show that there are such. From this: `TypeCorrect`,
`EntriesCiteOneRun`, `NoFalseGaps`, `StatusOfTheOnlyRequest` (`AloneSound`,
`SignedSound`) and, as an action property, `EvidenceOnlyImproves`.

**`TelegramBot_proofs`** (any users, chats, codes, times to live, and processes that
issue codes and revoke links; every process may die between any two steps). It
assumes what the code fixes: one bot polls Telegram (`OneBot`; Telegram refuses a
second `getUpdates`), the values that stand for "none" are none of the others.

* `TypeCorrect` and `LinksNotReplaced`, an action property, though the chat is checked in one
  statement and written in another: between the two the chat has no live link,
  since only the bot makes links (`CallsSound`).
* `CodesSpentOnce`: `[](CodeRedeemedOnce /\ OneLiveCode)`. `CodesInv` says which code of
  a user can be live, and what a redemption in progress, whose code may be dropped
  meanwhile, can still do with it.
* `SerialTruth` and `LogTellsLinks`: as long as calls do not overlap and none dies, a link
  has its consumed code and the log's last word on a chat is the table's. `AloneInv`,
  `RowsInv` and `LogInv` say that then at most one call is in progress, and that what it read
  is still so.
* `UploadsAnswered`: `[]UploadsAreAccountedFor` for the whole composition. `ChatsKept`
  says that the chat of an upload in progress is still its user's or nobody's,
  `PostedInv` what is on the log at each stage.

**`Sessions_proofs`** (any connections, users, calls and clocks, crashes included;
times are numbers). One invariant, `Inv`: types; `CallsRight`, what each call in progress has
already established; `MembersOnlySessions`; and `SerialInv`: as long as no two calls overlapped,
at most one is in progress, and then what it read is still in the tables, codes were
spent in order (`CodesSound`), sessions belong to the present password (`PasswordsSound`) and the log tells of
the rows, less what the call is about to do (`LogSound`).

* `SessionsAreMembers`: whatever overlaps and dies.
* `CodesInOrder`, `ResetEndsSessions`, `LogTellsRows`: the three serial properties.
* `SecretsStay`, `TokensSpentOnce`: action properties. The first holds of overlapping
  calls too; in the second, that the token had not been spent needs calls one after another.

**`InfraDemo_proofs`** (any number of processes or tabs, tenants, files, calls, any limits,
each dying between any two steps). Of the constants it assumes that the seed begins with its
tenants and has them before its users (`SeedAssumption`; `_seed_once()` writes them in
one loop before the other) and that bounds are numbers.

* `TenantsSeparate` and `TrailComplete`. Tables only grow and rows never change, so that
  what one process read or wrote stays true while others move: `OpSound` says what a
  pending call relies on, `LogSound` that an event, pending or logged, is about a
  row of its tenant. Every action is an instance of one lemma, `Preserved`.
* `LimitKept`: `[]SerialLimitHolds`. A caller that was told "within the limit" and has
  not recorded yet is alone, so that the count it saw is the count there is (`LimitInv`).
* `SeedSound`: what took effect is a beginning of the seed, each step once, and at most
  one tab is past the first step (`SeedInv`).
* `CopiesInOrder`: `[]CopiesFollowMarker`. `CopyInv` relates a tab's place in its loop to
  the copies of its run on the log (`RunTold`, `RunWhole`); other tabs only append between them.

**`AgentRun_proofs`** (any processes, agents, sources, items, findings, any answer of the
model, any number of runs).

* `TypeCorrect`. `RunInv` says that the rows of log and queue are of runs that were started
  (`Rows`), and that each run in progress has on the log what its steps so far say
  (`RunsRight`). The twelve runners are handled by the forms their steps have.
* `ImplementsDraftOnly`: `Spec => DraftOnlySpec`. A submission is a delivery, a last event
  that says so a withholding, `Die` an end; everything else is a stutter.
* `RunsReadBack`: `[]DraftsReadBack`. `ReadInv` says of each run in progress that the events of
  it so far state what its payload says and cover what is not empty in it, and
  that they state nothing which a step still to come will change: only fields of
  `Past`, which is what may have been told before a step (`CallsRead`). As long as no
  two runs of one agent overlap, these events are the agent's since it last began a
  run (`CallsTraced`), which is how a draft that is submitted comes to be told
  by its trail.
* `ScreensTrue`: `PageSpec => []ScreenIsTrue` of `AppPages`. `PageInv` adds to `RunInv` what a
  click in progress has in hand (`CallShows`) and what the screen says of its run
  (`ScreenRight`), both functions of that run's rows alone; so what other runs
  add leaves a screen true, and a run that is on a screen is over.

**`BackOffice_proofs`** (sheets of any length, rows and policies of any figures;
`SheetsAssumption` and `PoliciesAssumption` say what the connectors and the policies'
classes make sure of: amounts, limits and dates are numbers or absent).

* `TypeCorrect`.
* `StricterFlagsMore`: `[]StricterPolicyFlagsMore`. Rule by rule: a reason to flag that holds
  under the laxer policy holds under the stricter. For `combine = "all"` it takes that
  both thresholds are breached; for repeat customers, that a count is a number
  (`FiniteSetTheorems`); for percentages, that a rounded quotient is a whole number and the last of two
  rows of a line exists (`RoundedIsWhole`, `Highest`).
* `WhatPassesIsInOrder`: `[]PassedIsInOrder`, one lemma per agent. `RoundedBelow` shows that a
  share which rounds to less than the threshold is less than it by at least half of the last digit.
* `MatchesAreSound`: `[]MatchingIsSound`. Both passes of `match_transactions()` are recursive
  functions over the bank lines. `Unfolds` shows that there is such a function, by
  induction over a set of positions (`AllReached`); `ExactUpTo` and `NearUpTo` say what
  holds of the pairs after each line: no line is in two of them, and a line that took
  none had none left to take (`ExactTakes`, `NearestTakes`). That as many
  equal lines are matched as there can be is then counting (`PairsPerLine`).
* `TotalsAlwaysAddUp`: `[]TotalsAddUp`, one lemma per agent. A sum over rows is a fold of the
  community modules, that is a CHOSEN function over the subsets of a set. Induction
  over a set of subsets (`AllParts`) shows that there is such a function
  (`SumsExist`) and that it does not matter which element is taken first
  (`AnyFirst`); then sums can be added, renamed and taken by groups (`SumsAdd`,
  `SumRenamed`, `SumGrouped`, `CountGrouped`). Each report groups its rows once:
  by bucket and tone, by treatment and side, by pair or exception, by key, by
  category (`EachInOneBucket`, `CellsOfSide`, `SideAddsUp`, `AmountsByKey`,
  `CategoriesAddUp`). For the invoice, a line whose figures differ in
  having lost their comma would be off by 99 times what is due and not by one cent
  (`LineIsConsistent`), and a line read unlike the grand total would make the sum
  too high or too low, all of them being positive (`InvoiceIsConsistent`).
* `NoFlagIsCleared`: `FlagsOnlyGrow`, an action property. Rows below a row change nothing it
  is flagged for, except that a customer's overdue invoices can only become more
  (`ChasedStays`); a control that is added can only raise the best score
  (`BestIsFirst`, `CoverageOnlyGrows`), on which alone the verdict rests (`VerdictOfRun`).
* `OrderNeverMatters`: `[]OrderIsIrrelevant`. Two rows changed round are a
  permutation that is its own inverse (`SwapRearranges`); what is counted or summed over
  places that correspond is the same (`MovedCount`, `MovedSum`, `PairsCount`). The lemmas of
  the reports follow (`AgingOrder`, `TestOrder`, `ProvisionOrder`, `VarianceOrder`,
  `ForecastOrder`, `ReportOrder`, `TriageOrder`). A greedy match depends on the order,
  but the number of its exact pairs is the sum, over what a line may say, of the
  lesser of two counts (`ExactCount`); and in a ranking without ties the numbers
  ahead of each are 0, 1, 2, ..., so that how many are surfaced depends on how many
  there are (`AheadOrNot`, `SurfacedAreCounted`).

**Only model-checked.** `ComputedRunsReachQueue` is liveness under fairness, which is out of
the prover's reach. Every other property of a passing run is stated by a theorem.
Not proved either is that the models are those of the code: that is what the
line references in `PROJECT.json` are for.

## 6. Plan

Done: the modules of section 2; first the log and the queue, since everything an
agent does ends there, then the agents' runs, links and sessions, then the
agents' rules, the tenant-scoped stores, the bot's uploads and the
pages; then the proofs of section 5, in that order, the sums and the
order of the rows last.

Left to wish for: the sums and folds of the rules are proved about in one module because
they are needed there; a second user of them would make `SumsExist` to `CountGrouped` a
module of their own.

### Not modelled

* *Connectors and knowledge*: parsing of files and ranking of text, without state that
  outlives a call. Their results are the sheets of `BackOffice` and the sources and
  excerpts of `AgentRun`, any of the enumerated ones.
* *Prompts and the language model*: an answer is any value of its form.
* *Password hashing and the TOTP arithmetic*: a password matches or not, a code is
  a secret and a time-step.
* *The write lock a refused `create_user()` or `create_tenant()` keeps* until its
  connection is closed: the callers are short scripts whose connections go with
  them, and a model without busy timeouts would show a wait that the
  program does not have.
* *MFA calls on two connections at once*: `last_used_step` is read and written in two
  statements, and no caller in the repository makes such calls from two connections.
* *`demo.py`*: one linear script of what `AgentRun`, `Approvals` and `AuditLog` model.
* *Wording and layout* of drafts, reasons, messages and pages.
* *Planned agents* (`financial-crime-agent`, `_template`): no code.
