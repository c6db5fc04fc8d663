# Formal models of asl-bissieux

TLA+ modules beside the code of asl-bissieux, the management application of a
property owners' association (Go server on PostgreSQL, Angular frontend). They
model the parts whose correctness depends on the order in which things happen:
deliveries of e-mail, the publication of a budget, its financial ledger, accounts
and sign-in, the mailing lists, and the pages of the browser, which load, confirm and
write while answers are late, lost or out of order. TLC
checks each of them on small instances; TLAPS proves the safety properties and the
refinements for every value of the constants.

Line numbers refer to this commit. `PROJECT.json` maps every definition to the
lines it translates.

    cd tla
    tlc -workers 2 -config EmailDelivery.cfg EmailDelivery.tla
    tlapm EmailDelivery_proofs.tla

## 1. The system

All state that matters is in PostgreSQL. The server may run as several instances
and is stateless between requests; a request is one goroutine, most writes are
one transaction at READ COMMITTED or one autocommit statement. Concurrency is
therefore between requests, through rows and locks. External systems are the SMTP
server, the OpenID provider and the OVH mailing-list API.

A page of the browser runs one task at a time, but its loads, dialogs, navigations
and writes overlap: what a page read, previewed or asked may be out of date
when it acts on it. Concurrency is there between the user, the router, the timers and
the answers.

| Component | State | Operations | Meets | What is hard | What makes it correct |
| --- | --- | --- | --- | --- | --- |
| E-mail delivery (`controllers/emails.go`, `pkg/smtp`) | `email.state`, body, tracker; in-flight goroutines | SendEmail, sendClaimedEmail, MarkAsError, MarkAsRead, DeleteEmail, offline recovery | SMTP server, templates, campaigns | concurrent claims, crash between claim and outcome, a delivery whose outcome nobody knows, an outcome that cannot be recorded | one delivery per authorisation; what is recorded happened; a delivery ends |
| Allocation (`controllers/allocation.go`) | none | Allocate, BudgetPreview | publication, preview | rounding | exact sum, largest remainders first |
| Budgets, expenses, publication (`server/handlers/budget.go`) | `budget`, `expense`, `cotisation` | create, change, delete, publish | units (shares), ledger | edits during a publication, units changing meanwhile, lock order | cotisations add up to the expenses; a published budget is frozen |
| Payments and ledger (`controllers/financial.go`) | `payment`, `financial_entry` | payments, refunds, adjustments, reversals, previews | budget row lock, units | stale previews, resent confirmations, refunds racing reductions | no negative amount; an entry is what its author saw |
| Units and members (`server/handlers/units.go`, `members.go`) | `unit`, `member`, `member_unit` | CRUD, links | publication, ledger, mailings | deletion of a unit others refer to | references stay usable |
| Templates, attachments, campaigns | `email_template`, `attachment`, `email_campaign` | CRUD, campaign creation | delivery | concurrent uploads near the limit | total under the limit |
| Accounts and administration (`server/auth`) | `user`, `auth_access_request` | create, change, decide, delete | sessions | two administrators removing each other, stale forms | an active administrator remains |
| Identities, sign-in, sessions (`pkg/auth`) | `auth_identity`, `auth_login_attempt`, `auth_session` | login, callback, logout, each request | OpenID provider, accounts | sign-in racing a revocation, repeated callback, opposite lock orders | disabled accounts act no more; an attempt serves once |
| Mailing lists (`controllers/mailings.go`, `pkg/mailings`) | subscribers and tasks at OVH, members | preview, synchronise | OVH API | calls with an unknown outcome, tasks still pending | no removal after a failed addition; "verified" is true |
| Migrations (`pkg/db/migrations.go`) | `schema_migrations` | migrate, baseline, check | server start | instances of several versions, crash inside | history is a prefix, each migration applied once |
| Guided tour (`pkg/tour`) | `auth_tour_progress` | mark seen, reset | accounts | concurrent tabs | progress never goes back |
| Data sources (`shared/datasources`, `crud-table`) | rows displayed, requests in flight, filter, order, page, selection | load, filter, sort, page, select | API | answers out of order, a selection on rows that left | the rows displayed answer the last question (paged source); the plain source promises less |
| Messages of a campaign (`emails/components/email-list`, `email-sending-popup`) | page, selection, open confirmation, batch | filter, open a campaign, send, reset, delete | paged source, delivery | a confirmation closes after the page moved; a batch goes on | the messages acted on are those that were confirmed |
| Templates, values (`email-template-*`, `email-attachment-*`, `template-data-editor`) | forms, preview, rows and text of a value | edit, try, upload, remove, change mode | templates, attachments | late previews, files that count against a limit together | a preview shown is one of the data shown; values are those on display |
| Budgets (`budget-list`, `budget-details`, `payment-list`, `financial-history`, forms) | route, filter, window, form, operation under way | load, preview, confirm, pay, delete, publish | ledger, budgets | lost answers, answers to an earlier route | one operation, one entry; the page answers its address |
| Directory (`members/`) | address, selection, two loads, form | select, load, save a member with its units, delete | members, units | navigation under way, a form that fails half way | address and selection agree; one form, one member |
| E-mails of a budget (`budget-email-form`) | recipients, preview, revision | load, preview, create | budgets, templates | recipients that change under the preview | what is created was previewed |
| Accounts (`users/`) | filter, rows, decision | list, decide, change rights | administration | filters that follow each other, stale rows | a decision is about the account shown |
| Tour page (`tour/`, `auth.service.ts`) | session, path, saving | visit, save, go back | progress, rights | the session ends or the rights change meanwhile | what is shown, saved and allowed agree |
| Dashboard (`dashboard.component.ts`) | address, modules, requests | go to, refresh, retry | budgets, ledger | modules that depend on one another's answers | a module answers the address of the moment |
| Rendering, configuration, routing, chart, fixtures | none of their own | | | | |

## 2. Modules

| Module | Contents |
| --- | --- |
| `EmailDelivery` | workers, SMTP exchange, outcome and fallback, operator and tracker |
| `AtMostOncePermit` | its promise: a permit is taken at most once per authorisation |
| `Allocation` | the division of an amount over the shares, as operators |
| `AllocationInputs` | every bounded input of it, with a reference definition |
| `BudgetPublication` | requests on budgets, expenses and units, with their locks |
| `AtomicBudget` | its promise: the same operations, each in one step |
| `LedgerRules` | sums and checks of the ledger, as operators |
| `LedgerTables` | the tables of the ledger, and what the rules must keep true of them |
| `AtomicLedger` | the promise of the ledger: permitted writes, one at a time |
| `LedgerHistories` | all histories of `AtomicLedger` with the real sums and checks |
| `BudgetLedger` | dialogs and requests on the ledger of one budget |
| `AccountAdministration` | forms of administrators, sign-ins and logouts, with their locks |
| `AtomicAccounts` | its promise: the same decisions, each in one step, sessions included |
| `SignIn` | attempts and callbacks of OIDC, the Google mode before it, explicit links, sessions |
| `MailingLists` | the page of the lists, the synchronisation and the provider with its tasks |
| `GuidedTour` | progress written by several tabs and two versions, the session and the visit |
| `MemberDirectory` | the directory, its two loads, the form of a member with its units |
| `BudgetEmails` | recipients, preview and creation of the e-mails of a budget |
| `AccountDecisions` | the list of accounts, the decisions and the form of the rights |
| `OfficePages` | the six modules above, as the pages of one application |
| `LatestAnswer` | the promise of a view of server data: nothing older than the latest question |
| `PagedSource` | the paged source under a table: timer, filter, order, page, selection |
| `EmailPage` | the messages of a campaign on `PagedSource`: confirmations, batch, sending popup |
| `CotisationDialog` | the window of a cotisation: history, operations, payments |
| `BudgetPage` | the page of a budget around `CotisationDialog`: loads, expenses, filter |
| `EmailTemplates` | templates, their preview and their attachments, with concurrent uploads |
| `ValuesEditor` | the values of a template, edited as rows or as text |
| `Dashboard` | modules whose keys follow from the address and from each other's answers |
| `TableLists` | the lists of budgets and units on the plain source, with their forms |
| `BudgetPages` | the five modules above (`BudgetPage` to `TableLists`), as pages |
| `MC*` | values of constants and symmetry for TLC |
| `SumTheorems` | sums over finite sets, for the proofs |
| `*_proofs` | theorems |

How they fit: `BudgetPublication` EXTENDS `Allocation` and computes the real
cotisations; `LedgerHistories` and `BudgetLedger` EXTEND `LedgerTables`, and that `LedgerRules`. `EmailDelivery`,
`BudgetPublication`, `BudgetLedger` and `AccountAdministration` each implement an
abstract module through INSTANCE. `LedgerHistories` and `BudgetLedger` share `AtomicLedger`: the second
shows that concurrent requests produce only histories of the first, and the first
that these histories keep the amounts right. The arithmetic is thus checked without
interleavings, and the interleavings with less arithmetic.

`EmailPage` and `BudgetPage` implement `LatestAnswer`. Pages stand on what the server
modules promise: `CotisationDialog` takes the ledger as a sequence of writes, which is
`ImplementsAtomicLedger`, and `EmailPage` takes the messages as `EmailDelivery` leaves
them. `OfficePages` and `BudgetPages` put pages together. A behaviour stays on the page it
begins with: the router destroys the page it leaves, so pages share only the tables of
the server, and each module has the other users of its own tables. The pages that are
not open rest in one initial state, which keeps the instances additive. What the shell
does to every page, the end of the session and the change of rights, is in `GuidedTour`
and, for the mailing lists, `MailingLists`.

### From code to model

* A transaction is a sequence of actions of one session. What it has written is
  kept in the session and reaches the tables in the action of the commit, as
  READ COMMITTED shows it to the others; a statement reads the tables of the moment.
* `SELECT ... FOR UPDATE` on the budget row and `LOCK TABLE unit IN SHARE MODE`
  are guards (`RowFree`, `LockUnits`). PostgreSQL queues a request for a table
  lock and makes later conflicting ones wait behind it, hence the phase `queue`.
* `Rollback` (and `Crash` for a delivery) may happen in every phase: it stands for
  a failing statement, a client that leaves and a process that stops.
* A request that is refused and leaves no trace is not an action. A refusal that
  ends a transaction already begun is `End`.
* An expense or a payment is its amount, 0 standing for none; a unit is its
  number of shares, 0 standing for none (an existing unit with no share takes part
  in no allocation, exactly as one that does not exist). Amounts are whole cents
  (`ValidateInput` demands it of new amounts; older rows with fractions are left out).
* The version hash of a preview covers the sums, the payments with `updated_at`,
  the entries and the form. The model keeps the sums, the number of writes to the
  payments and the identifiers of the entries. `PreviewEntry` reads the sums and
  `PreviewVersion` the rest, as there is no snapshot around them.
* In `AccountAdministration` a form is a process from the moment it is opened, as what
  it shows (`expected_updated_at`) is compared later. `RequireAdministrator` looks at
  the actor before the lock and `administrativeWrite` after it; only the second look
  is modelled, as it refuses all the first one refuses. `version` stands for
  `updated_at`, two updates never having the same one; a visit of the guided tour leaves it
  (`pkg/tour/tour.go:155`). Locks are those of PostgreSQL: the advisory lock until the
  end of the transaction, FOR UPDATE on the account, the session rows a DELETE has
  met, and the KEY SHARE that the foreign key of a new session takes on its account
  (`pkg/db/migrations/0004_oidc_identities_and_sessions.sql:18`), which FOR UPDATE excludes.
  A sign-in starts when its identity is verified; which account it finds is free among
  the live ones. Names and single permissions are left out.
* In `EmailDelivery` a body is the version of the template it was rendered from.
  `accepted` and `received` observe the SMTP server; no action reads them. An
  interrupted exchange may have been accepted (`SmtpAccepts` before
  `SmtpInterrupted` or `Crash`) or not. A server that accepts some time after the
  interruption is covered as well, as long as it does so before an operator resets
  the message: nobody observes the difference. The procedure of the repository's
  README asks the operator to check the SMTP server before a reset; the model takes
  that check to be conclusive.

* In the pages an action is one task of the browser: a handler of the user or of the
  router with all it calls, or an answer with its subscribers, effects included. A
  request is sent by one action, read or carried out by the server in a second one and
  heard, lost or dropped in a third one. Where the instant of a write does not matter to
  a property it is one step with its answer, and the comment of the module says so.
* Counters that the code only compares with a captured value (`revision` of the messages and
  of the e-mails of a budget) are flags on what captured them. Optional values are sets
  with at most one member.
* Dialogs close in two steps (`Accept`, `Closed`), as `afterClosed()` comes
  after the animation during which the page can be used.
* A provider of mailing lists ends a task by itself and at any time; a call that was not
  answered in time may become a task later or never (`late`).
* `SignIn` keeps the transactions of a callback apart (the attempt, the identity under its
  advisory lock, the account row, the session), as several instances serve. The name of an
  account is unique and never changes, so it stands for the account.

## 3. Runs

| Run | Instance | Shows |
| --- | --- | --- |
| `email_delivery` | 2 messages, 2 workers, 2 template versions; 57 927 states | exclusive reservation, nothing in flight is reset or deleted, a claimable message is undelivered, at most one delivery per authorisation, recorded body is the delivered one, implements the permit, deliveries end |
| `email_unreported_save` | 1 message, 3 workers | **violated**: see finding 1 |
| `allocation` | 4 units, shares 0..4, amounts 1..13; 8 737 states | exact sum, reference definition of largest remainders |
| `budget_publication` | 1 budget, 2 expenses, 2 units, 3 sessions; 37 988 states | cotisations match expenses, frozen, implements the atomic budget, requests end, no deadlock |
| `ledger_histories` | 2 cotisations, 2 payments each, 3 entries; 66 615 states up to symmetry | no negative amount, reversals cancel exactly one entry |
| `budget_ledger` | 1 cotisation, 2 dialogs, 1 payment, 2 entries, 2 payment writes, amounts of 0 and 1; 183 998 states up to symmetry | previews honoured, implements the atomic ledger |
| `account_administration` | 2 accounts, 1 administrator at the start, 2 tokens, 2 requests, 1 update per account; 153 866 states | an administrator remains, requests for access match accounts, decisions are informed, implements the atomic accounts, requests end, no deadlock |
| `ledger_unit_deleted` | the same | **violated**: see finding 2 |
| `email_page` | 2 messages of one campaign and an empty campaign, 2 searches, 2 states, pages of 1 and 2, one control moved; 686 324 states | what is ticked is on the page, what was confirmed is what is acted on, implements `LatestAnswer`, a batch or a sending ends |
| `budget_pages` | one of five pages; 2 budgets, 2 writes, 1 operation; 2 uploads of size 2 under a limit of 3; 2 rows of values; 1 row of a list and 3 writes; 536 499 states up to symmetry | one entry per operation, pages agree with what they know, steps act on what is shown, implements `LatestAnswer` |
| `office_pages` | one of six pages; 1 address on 2 lists with any subscribers at the start and two synchronisations; 2 subjects, 1 address, 2 attempts, 2 requests; 2 tabs of 2 versions; 763 069 states up to symmetry | "verified" is true, pages agree with what they know, the tour shows what it saves, a sign-in is sound, calls are as confirmed, progress is kept |

### Bounds

* `MaxEdits`: a body is right or wrong with two versions of the template. Two
  messages show that outcomes do not mix, two workers every race for a message;
  finding 1 needs a third one.
* `MaxAmount`, `MaxShare` in `Allocation`: amounts up to 13 over totals of up to 16
  shares give every pattern of remainders, ties included, with up to three cents
  left over. The real ceiling only matters for the width of the integers, and the code
  multiplies with `big.Int` (`allocation.go:59`), as TLA+ does.
* `BudgetPublication`: one budget. Two budgets meet only in the SHARE lock of the
  units, which is compatible with itself, and the proofs of section 5 cover any
  number. Three sessions are what a lock cycle through a third party takes
  (publication, unit write, edit). Two expenses make a lost update visible in the sum.
* `BudgetLedger`: the amounts only matter where a sum changes, which one cent does; larger
  ones are in `LedgerHistories` and in the proofs. `MaxWrites` lets a payment be created and then changed or deleted
  under an open preview; two entries let one be reversed. Cotisations of a budget
  share its lock and nothing else, so one is enough; the proofs cover more.
* `LedgerHistories`: three entries reach an entry, its reversal and an attempt at a
  second one, or one of each kind.
* `AccountAdministration`: two requests are two administrators, two sign-ins or one of
  each, which is every pair of lock holders (the advisory lock admits one form). Two
  accounts and two tokens let a sign-in replace a session of another account. A
  deletion needs no version, and one update per account makes a form stale. The
  proofs cover any number.
* `EmailPage`: two messages and pages of one row give a second page, an empty page after
  a deletion, and a selection of more than one. `MaxSettings` bounds how many controls
  differ from where they start at once, not how often they move; the page starts with the
  smaller size. The empty campaign is the one whose answers differ in everything.
* `BudgetPages`: `MaxWrites` = 2 is a write before and one after what the window was told;
  one operation is enough for a name sent twice, in time and late. Two uploads of size 2
  fit the limit of 3 one by one and not together. Rows of values are an optional one and a
  root that rows leave alone. One row of a list that is created, deleted by somebody else
  and created again shows a form sent twice; two loads in flight show one overtaking.
* `OfficePages`: one address, its role and any subscribers to start with give an addition,
  a removal and a move from one list to the other, which takes one call of each kind. `MaxSyncs` = 2: the
  tasks of the first synchronisation, of the page or of another administrator, are what
  the second may not meet, and its late calls may come while the second runs. Two
  attempts, two requests and two subjects with one address are every pair of transactions of
  `SignIn`; its proof covers any number. `MaxAccess` and `MaxGrants` are one
  change of rights under each page. Two versions of the tour are the two that a rolling
  update serves together.
* `MCBound` of `MCBudgetPages`, `MCOfficePages`, `MCEmailPage` and `MCAccountAdministration`
  is a CONSTRAINT that leaves out what two bounded things do at the same time without
  meeting: each module says which. The proofs have no such bound. A constraint cuts the states
  that TLC goes on from and adds none, so it can hide a violation and never an answer; the two
  runs that check liveness under one (`OperationsEnd`, `RequestsEnd` of the accounts) say
  nothing of the behaviours it cuts.
* Symmetry: the values of an operation, the files, the subjects and the requests are only compared.
* `MaxLoads`, `MaxCalls`, `MaxRetries`, `MaxTableLoads` bound what is in flight at once:
  two where order matters.

### Fairness

* `EmailDelivery`: weak fairness of the deadlines only (one minute around reading and
  SMTP, five seconds around both UPDATEs, `emails.go:369`, `398`). Nothing is
  assumed of the SMTP server or the database, so `DeliveryEnds` says that a worker
  is gone in the end, with or without a recorded outcome.
* `BudgetPublication`: strong fairness of `Proceed` for every session. A handler
  waits for nothing but locks, and PostgreSQL serves the waiters of a lock in
  order, so a session that can go on again and again does go on. `Rollback` and the
  arrival of requests have no fairness: no request ends because another was kind
  enough to fail.
* `AccountAdministration`: strong fairness of what follows the advisory lock and of
  each sign-in, for the same reason, and weak fairness of PostgreSQL's deadlock
  detector: a sign-in deletes the old session row and then needs the account, a
  revocation holds the account and then needs the row (`oidc_login.go:140`,
  `server/auth/auth.go:306`). Without the detector the two wait for ever, which is what
  the run shows of its mutant. A form that is open, or waits for the advisory lock, has no fairness.
* `EmailPage`: weak fairness of `Serve` (an HTTP request ends with an answer or an error: the
  server ends a delivery by its deadlines, and a browser reports a lost connection) and of
  `SendNext` (`concatMap` subscribes to the next message by itself). The user, the timers and
  the other administrators have none: `OperationsEnd` holds of a user who never touches the
  page again.
* The other runs of pages and the safety runs of the ledger assume none.

`CHECK_DEADLOCK FALSE` appears where the system may stop: a message that was deleted
or read offers no further step, an allocation is over once computed, and a page
whose bounded writes are used up, with nothing under way, may rest.

## 4. Findings

1. **A fallback can mark somebody else's reservation**
   (`controllers/emails.go:405`). When the outcome UPDATE commits but its answer is
   lost, the worker runs the fallback UPDATE, whose condition is `state = SENDING`.
   Meanwhile an operator may have reset the message, or it was recorded ERROR, and another worker may
   have reserved it: its reservation becomes UNKNOWN although its delivery runs,
   and after a reset a third worker delivers beside it. The repository's README says
   (line 97) "Deux demandes concurrentes ne peuvent pas obtenir la même
   réservation". `EmailDelivery` keeps this step apart: `Spec` is the
   system without it and has all the properties, `SpecUnreported` adds
   `SaveUnreported`. A condition on the reservation itself (a token, or
   the update time) would close the gap.
2. **Payments of a cotisation whose unit was deleted**
   (`server/handlers/budget.go:553`). `DeleteUnit` looks at no cotisation; afterwards
   `CreatePayment` logs `cotisation.Unit.Number` with a nil `Unit`, before its
   commit: the handler panics and the payment is rolled back, for ever. The
   repository's README says of a published budget (line 216) "Le libellé et les
   paiements restent modifiables". `controllers/budgets.go:294` has the same
   dereference for the e-mails of a budget.

The models also show something that no document speaks of. `refresh()` of the directory
(`member-list.component.ts:342`) returns at once while a load is under way, and nothing
remembers that it was asked. A member written or deleted meanwhile is announced as done, and
the list may stay as it was read before the write until it is loaded again. `ListFollowsWrites` says
that this is the only way (`unshown` marks it, with the writes whose answer was lost):
otherwise a list at rest shows every write.

## 5. Proofs

Every safety property of a passing run, invariant, action property or refinement, is a
theorem for arbitrary constants, under the named assumptions of the modules
(`EmailDeliveryAssumption`, `AllocationAssumption`, `BudgetPublicationAssumption`,
`LedgerAssumption`, `BudgetLedgerAssumption`, `AccountAdministrationAssumption`,
`CotisationDialogAssumption`, `BudgetPageAssumption`, `SignInAssumption`,
`EmailPageAssumption`, `TemplatesAssumption`, `EditorAssumption`): fresh null values, positive bounds,
finite sets of units, payments, messages, uploads and names, a strict order of the units, a
cotisation of a budget there is, a smallest page size, files that are not empty, and values of
an editor that are objects over its names. TLC evaluates them on each run.

* **`EmailDelivery_proofs`.** The invariants of the run are not inductive: that a
  claimable message is undelivered depends on what the workers are about to record.
  `IInv` adds that a busy worker's message is SENDING and live (`HolderIsLocked`),
  that it has one worker (`OneHolder`), and what each phase knows of the deliveries
  made (`WorkersKnow`: before `wait` none, an outcome ERROR means none, SENT exactly
  one with the body to record). One lemma per action. From `IInv` follow the type
  invariant, five safety invariants and the refinement of `AtMostOncePermit`
  (`DeliveryImplementsPermit`).
* **`BudgetPublication_proofs`.** The refinement needs that what a transaction read
  is still true when it commits. `IInv`: a holder of a row lock holds a live draft,
  alone (`RowHolders`); the amount read is the sum of the expenses (`AmountsCurrent`);
  the inserted cotisations are the allocation of the present amount over the present
  shares (`AllocationsCurrent`, which needs the SHARE lock). `PublicationIsAtomic`
  states that each commit is one step of `AtomicBudget`, `PublishedStaysFrozen`
  the action property.
  The arithmetic is proved too. `AllocationIsExact`: of any amount over any number of units
  with any shares, the parts add up to the amount and none exceeds it. Multiplied by the
  total of the shares, the rounded parts and the remainders add up to the amount times that total
  (`SumScaled`, `SumOfSums`), so what is left over is between none and one cent per unit
  (`LeftoverFits`); the order of the remainders is strict and total (`AheadIsOrder`), so the
  first n ranks are those of exactly n units (`RanksAreTaken`), and as many cents are handed out
  as are left. `AllocationsAreExact` and `AllocationsFollowRemainders` are the two properties of
  the run, `CotisationsStayExact` says it of the budgets that were published, among other
  requests, and `BudgetTypeOK` that no amount called leaves its bounds.
* **`BudgetLedger_proofs`.** One holder of the budget row (`SingleHolder`), and the
  checks made after taking the lock still hold at the commit (`EntriesChecked`,
  `PaymentsChecked`). Steps of other sessions disturb them only if they write the
  ledger, which needs the lock. `LedgerIsAtomic` and `PreviewsAreHonoured` follow; in them
  the rules (`Permitted`, sums) stay unexpanded.
  The rules are then proved right of the promise. `Books`: the identifiers of the entries are
  distinct and the entries finite (`EntriesKept`), a reversal and what it reverses cancel
  (`ReversalsCancel`, which needs that nothing is reversed twice), refunds stay within
  the payments and what is called is not negative (`Balanced`). So
  `HistoriesNeverNegative` and `HistoriesSumStandingEntries` hold of histories of any length,
  `LedgerNeverNegative` of the concurrent requests by the refinement, and `LedgerTypeOK` needs
  the books as well, as the sums shown are integers only because the entries are finite.
* **`SumTheorems`.** The sums of the community modules take elements away in an order of their
  own (`CHOOSE`). Induction with a predicate as parameter is out of the prover's reach, so a fact
  holds of every subset because it holds of the smallest one it might fail for
  (`SmallestFailure`, from the well-founded order of the subsets of a finite set). From that:
  the recursion is well defined (`AddsExists`) and does not depend on the order (`SumWith`,
  `SumJoined`, `SumSplit`), one changed value (`SumChanged`), factors, bounds and counts
  (`SumScaled`, `SumBounded`, `SumOfOnes`, `SumNotNegative`, `PartOfSum`).

* **`AccountAdministration_proofs`.** That an administrator remains is not inductive: a
  commit relies on a count made earlier. `IInv` adds that one form writes at a
  time, by somebody who is still an administrator (`Serialised`), that what it has checked still
  holds (`FormsHold`), that a sign-in which has inserted its session keeps forms away
  from the account (`KeyShared`), and that the rows being deleted by a revocation are
  exactly the sessions of the account (`RevokesAll`, `RevokesOnly`, from
  `RemovalsPending`). The four safety properties and the refinement follow
  (`AdministratorKept`, `RequestsAnswered`, `DecisionsInformed`, `AccountsAreAtomic`).

* **`OfficePages_proofs`.** Each page first, as a specification of its own, then the whole:
  a behaviour of the application is one of each page, so the theorems carry over.
  - Sign-in. That an attempt serves once, and that accounts are never joined by
    their address, depend on what a request read a step earlier. `SignInIInv`: what a
    request has read under its locks still holds (`RowSound`), and two requests never share
    an attempt, the lock of an identity or that of an account row (`RowsApart`). The lock of
    the identity keeps a subject without account until it is linked, the row lock keeps an
    account without identity, and the unique name keeps a second insertion out.
  - Mailing lists. Lists are read in four calls, so "verified" is about four
    instants. `ReadIsTrue`: a list whose tasks were read as empty has had no task since, so its
    subscribers, read after them, are still those; `CallsKnown`: the calls left are those of the
    confirmed plan, and the tasks there are, unless a call timed out, are those of the calls made
    since it was read. This is why the tasks are read first, and the mutant that reverses the
    reads breaks it.
  - Tour. `TourIInv`: one question and one visit at the most, and a visit that is under way
    agrees with the state its page knows (`VisitOf`: it stays within its chapters, what it has
    passed was seen, and it saves the chapter it shows). A tour that is loaded again, because
    it was not there or because a chapter could not be saved (a newer version answers 409), keeps what was
    loaded until the answer, and begins the visit anew, so nothing of it is known meanwhile. Any step of the server only raises
    the progress (`ProgressGrows`). `TourStaysCurrent`
    and `TourKeepsProgress` follow.
  - Directory and accounts. The two requests of a load end together (`LoadIsPaired`), those
    under way turn the units of a member into the chosen ones (`LeadsToChoice`), and a form that
    heard of everything did exactly what it was asked (`FormIsExact`); a list that a write has
    overtaken is asked for anew, unless the write was not heard or the load was dropped
    (`LoadIsOwed`); an answer about accounts
    is of the filter that is on (`AskedAsFiltered`). With
    them `OfficePagesStayCoherent`.
  - A preview that is current is one of the form as it is (`PreviewsCurrent`), and a version of
    an account is never given to another state (`AccountsKnown`), whence `OfficeActsAsConfirmed`.
* **`EmailPage_proofs`.** `EmailIInv`: one flight at the most carries what the page asks for
  (`FlightsAreCurrent`), rows that do not move are its answer (`RowsAreAnswered`), what is ticked
  is among them (`SelectionIsOfRows`), and a dialog that is still current was opened on them
  (`DialogIsCurrent`). `SelectionStaysOnPage`, `OperationsAreAsConfirmed` and the refinement of
  `LatestAnswer` (`PageAnswersTheLatest`).
* **`BudgetPages_proofs`.** The page of a budget: `OperationsNamed` (one name from the start of
  an operation to its entry, and the preview shown is of the form), `HistoryFollows` (a load that
  will be shown is not older than what the window was told) and `ReaderFollows` (one load is in
  flight, for what the route says), which the server, the window and the page keep
  separately. From them `RecordedOnceAtMost`, `PageStaysCoherent` and the refinement of
  `LatestAnswer` (`PageAnswersLatest`). The other pages, each apart:
  - lists: a load that began alone will bring every write the page was told of
    (`ListFollows`), a form makes one row unless its answer was lost (`FormMakesOne`);
  - templates: the window that waits for an answer is the one that is open (`WindowsWait`), a
    trial that is not out of date is one of the data on the page (`TrialAgrees`), a subject is one
    line in the form, on its way and where it is kept (`SubjectsAreLines`), and the files stay
    under the limit because one addition holds the row and what it measured is not exceeded
    (`QuotaKept`, with `SumChanged`);
  - editor: what the editor holds is what its rows stand for, unless they are refused
    (`EditorAgrees`), and `SetToSeq` lists a set whole (`InSomeOrder`);
  - dashboard: a module answers the address of the moment, and the choices are those it
    leaves (`DashboardFits`).

  `PagesHold` puts them together, as one page takes a step and the others rest:
  `BudgetPagesStayCoherent` and `StepsActAsShown`.

Only model-checked: `DeliveryEnds`, `RequestsEnd` (twice) and `OperationsEnd`, which are liveness under
fairness and need ENABLED. Two properties are violated by the code, which section 4 tells.

## 6. Not modelled

* Schema migrations (`pkg/db/migrations.go`): a migration or a baseline is one transaction
  that takes one advisory lock first and reads the history under it. The database undoes all of it
  or none, so the model would be one atomic step; what could be wrong, the DDL and the
  comparison with the frozen schema, is data.
* Rendering of messages (MIME, templates, Markdown), configuration, routing, chart,
  fixtures: pure functions, or read once.
* `CreateBudget` and `CreateEmailCampaign` on the server: inserts of rows nobody else knows
  yet. `TableLists` and `BudgetEmails` ask for them.
* The list of campaigns (a paged source and a confirmed deletion, as in `EmailPage`), the
  details of one message, the sorting and filtering of rows already loaded.
* Permissions in the pages, except where a change of rights meets something under way
  (`MailingLists`, `GuidedTour`, `Dashboard`): they hide a button, and the server
  asks again. On the server they test the caller without effect on the order of things.
* Links that select a member or unit that is not there, and writes of other
  administrators to the directory. In `MemberDirectory` one write of a member is under way at
  a time, and no form is opened during a navigation or a deletion.
* The plain source under a list promises no order of its answers: its loads overlap in
  `EmailTemplates`, `TableLists` and `CotisationDialog`, and `LatestAnswer` is claimed of the paged
  source and of the page of a budget only.
* The year, the search and the figures of the dashboard; the return path and the messages of
  `auth.service.ts`; the examples of the tour; the theme, the menu and the notifications.
* Names and single permissions of an account; old rows with fractions of a cent, UTF-8,
  dates.
* Expiry of sessions and attempts, which a deletion stands for.

One thing the model shows and no run states: a visit of the tour that ends while rights
are being granted may say that it is over although the account may now see a new chapter.
The chapter is offered at the next visit (`TourIsCurrent` says so with `w.stamp = grants`).

## 7. Keeping it

A change of a function listed in `PROJECT.json` takes its definition with it; the map
gives the lines. A proof follows from the actions, one lemma each, so a new action needs a
lemma and a case. The mutants of `PROJECT.json` say for each property which plausible bug it
catches. What could follow: the list of campaigns on `PagedSource`.
