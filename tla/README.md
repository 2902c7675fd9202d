# cgGuide in TLA+

cgGuide is an ASP.NET MVC 4 "guide" application: a back office that lists and
edits routes, user accounts over SimpleMembership with external logins, a proof
of concept of product search over Solr, and the plumbing these need (Entity
Framework repositories, Autofac, log4net, SignalR). This directory holds
TLA+ modules for its parts, TLC configurations that check them on small
instances, and proofs that TLAPS checks for instances of every size.
`PROJECT.json` says which lines of the source every definition stands for.

## The system

| Component | State | Operations | Module |
|---|---|---|---|
| Routes back office, edit form | rows of table Route; the Edit page in each browser tab (form, spinner image, alert) | GET Edit, POST Edit (sleeps, attaches, saves), success and error callbacks, goInicio | `RouteEditing` |
| Accounts | UserProfile, webpages_Membership, webpages_OAuthMembership; one cookie per browser | Register, Login, LogOff, ExternalLoginCallback, ExternalLoginConfirmation, Disassociate, Manage | `Accounts` |
| Routes back office, list | DataTables grid: search, sorting, page, length, number of the newest request, rows shown | jQueryDataTablesHandler; search, click on a heading, pager, length; answers of the server | `RoutesGrid` |
| Ajax requests (jQuery) | state of each request, its callback lists, the loops over them, `jQuery.active` | ajax, abort, answer, timeout; done, fail, always, complete | `AjaxRequest`, `OneAnswer` |
| Unit of work and repositories | EF change tracker, table | Insert, Update, Delete, GetByID, List, Save, Dispose | `UnitOfWork`, `AtomicTable` |
| Membership initialisation | lazy initialiser of each application domain; role and user of the administrator | OnActionExecuting, SimpleMembershipInitializer | `MembershipInit` |
| Forms membership service | users, roles, assignments (role provider) | CreateUser, UpdateUser, DeleteUser, GetUserRole, ResetRoles | none: nothing calls it |
| Request pipeline | the outcome of one request | AuthorizeAttribute, RoleAuthorize, HandleAndLogError, Application_Error | none: keeps no state; its outcomes are cases of `RoutesGrid` and `RouteEditing` |
| Business rules | rules and validation errors of an entity | Validate of each rule | `BusinessRules` |
| Week days | seven flags, one byte | AllDays get and set | none: nothing calls it |
| Solr product search | the index with its uncommitted work; the page's product list; the address of the search page | AddProduct, Remove, RemoveAll, GetAllProducts, Index | `ProductList`, `FacetSearch` |
| Notification hub | none | Send (broadcast) | none: no step reads the notice |
| Container, logging, database scripts, view helpers, samples | none at run time | | none |

How they interact. The pages of the back office talk to `RoutesController` over
`jQuery.ajax`, whose promise to a page (`OneAnswer`) is what `RouteEditing`,
`RoutesGrid` and `ProductList` take a callback for; the controller calls `DefaultRoutesService`, which calls the routes
repository and the unit of work of the same request; requests only share the
tables. `AccountController` calls SimpleMembership, whose every call is a
statement (or two) on the three account tables, and sets the cookie that later
requests carry; its filter initialises SimpleMembership first. The only lock of the
application itself is the one of that filter: what interleaves are requests,
over the database or the Solr index, with the browser's callbacks on one end
and the end of a worker process on the other. The two Solr pages share the
index; nothing else of them is shared. Entities would validate themselves with
the business rules, but no class adds one yet.

What is hard here:

* POST Edit sleeps two seconds before it writes, the submit button stays
  enabled, and no concurrency token exists. A connection that breaks does not
  stop the server, so a POST the page has given up may still write.
* A key or a click in the list sends a request at once, so that requests overlap
  and are answered in any order; the handler throws for some rows and columns.
* Handlers of an ajax call register further ones, abort it, or throw, while the
  loop that calls them is under way; a timer races the answer.
* Update writes every column of an entity that was bound from the fields of a
  form; what has no field gets its default.
* The account operations are sequences of separately committed statements.
  Only Disassociate opens a transaction, after its first check.
* Both ends of an ajax call may be lost; a worker process may be recycled
  between two statements.
* A change of the Solr index and its commit are two calls, and a commit makes
  visible what anybody has left uncommitted.
* The change tracker keeps what a failed save has not written.
* The administrator is created by check-then-create, in application domains
  that share only the database.
* The links of the search page are made of the raw address, the page itself of
  the parameters bound from it, and the two read an address in two ways.

The full list, line by line, is under `hazards` in `PROJECT.json`.

## RouteEditing

State and code:

| Variable | Stands for |
|---|---|
| `table` | table Route, by ID |
| `tabs` | the Edit page in a tab: its form as rendered, spinner image, alert |
| `content`, `stage` | the POSTs: what each carries, and how far `RoutesController.Edit(int, Route)` is with it |
| `heard` | which callback of `jQuery.ajax` ran |
| `writer`, and `base`, `answered` of a POST | history, read by properties only |

`OpenForm` is GET Edit with its rendering, `Submit` the submit handler and
`DoAjaxPost`, `Save`/`Reject`/`Drop` what becomes of the action after its
sleep, `Answer`/`Break` the success and error callbacks, `CloseAlert` and
`Leave` the user. `Render` and `Bind` are the conversions: the spinner plugin
clamps what the server rendered, `ToShortDateString` drops the time, the
checkbox is never rendered checked, and the binder gives every property
without a posted value its default. The binder never converts what a ticked
box posts, since the value attribute is dropped for `false` and reads "value"
for `true`, and the action does not look at `ModelState`.

`Storable` is what EF validation and the datetime column refuse; `Reject` is
also enabled for a row that is storable, because any save can fail. The text
fields are one field `name`; the columns without a field are one column
`createdBy`. The select of customers posts a value the binder cannot make a
Customer of, and EF attaches null: no state changes.

| Run | Instance | What it shows |
|---|---|---|
| `routes_edits` | 2 tabs, 2 POSTs, 1 row that is live, deleted or missing; every field has a value to type; the seeded distance lies beyond the spinner | `RowIsOneForm`, `AnsweredEditNeverResurfaces`, `UntouchedFormIsHarmless`, and `EverySubmitSettles` under fairness; `TypeOK` says that no row gets a distance from beyond the spinner |

An edit resurfaces when an answered POST is written again after a later one,
which two POSTs show; a form goes stale when another tab saves, which two tabs
show. The proofs hold for any number of rows, tabs and POSTs.

Fairness: `Serve(p)` (the sleep ends or the process does) and `Return(p)` (a
connection delivers or breaks) are weakly fair. Nothing is assumed of the user.

One finding needs no run of its own: the comment at `RoutesController.cs:164`
says that the Route object maps every field literally, and `Edit.cshtml` has a
box for Deleted. In every run a user who ticks the box and saves deletes nothing,
since `Bind` gives `isDeleted` its default; that this is so is what `Bind` says
and no property. The finding is recorded with `RowIsOneForm`, which says of
every edited row that it is `Bind` of one form.

The 3000 of the spinner is `MaxDistance`, 3 in the runs; the proofs hold for
any natural number.

## RoutesGrid

| Variable | Stands for |
|---|---|
| `table` | table Route, each row on the list, on it without a `CreatedBy`, or not on it |
| `language` | the text file of the grid, which is built when it arrives and not without it |
| `controls` | search box, `aaSorting`, `_iDisplayStart`, `_iDisplayLength` |
| `clicked` | clicks on headings whose sorting waits for its timer |
| `iDraw`, `processing`, `shown` | the number of the newest request, the notice, the answer whose rows are shown |
| `sent`, `answers`, `failed` | requests and answers under way, and the requests that failed |

`Serve` is `jQueryDataTablesHandler` as a whole: `Found` its search, `Ordered`
its order (the order of `RoutesRepository.GetAll` below the first column of
`aaSorting`, the only one it reads), `Page` its `Skip` and `Take`, `Throws` the
two ways it throws, `Total` the count it takes before the search. The other
actions are the grid's: `Search`, `Click` and `SortBy`, `TurnPage`,
`ChangeLength`, each of which sends a request (`Draw`), and `Deliver`, which
drops an answer older than the newest request (`Stale`). `Lose` is a request
that fails: the action has no error filter of its own, so that an exception
ends in `Application_Error` and an error page, and an ended session in a login
page that does not parse; the grid does nothing in either case. `Others` are
the other requests of the back office, `RouteEditing` among them, whose saves
leave `CreatedBy` NULL.

Left out: the text of the cells; the window of five page numbers (every page is
offered, which takes several clicks in the browser); a rename, which is one
route that goes and one that comes. `Index.cshtml` refers to `model.Updated`
and `model.UpdatedBy`, which `Route` does not have: views are not compiled by
the build, and as it stands the page fails when it is opened. The grid is
modelled as its script describes it, with these two columns among `Missing`.

| Run | Instance | What it shows |
|---|---|---|
| `routes_grid` | 2 routes, 1 column and 1 missing one, 1 search, pages of one or two rows, 3 requests | `QuietGridAnswersControls`, and `EveryDrawSettles` under fairness: three requests overtake each other in every order, two rows are a page beyond the first, a search result smaller than the count, and a row that throws beside one that does not |

Fairness: timers go off, and every request is served and its answer delivered,
or breaks. Nothing is assumed of users, nor that the text file arrives.
`QuietGridAnswersControls` includes that every row found is on one of the pages
offered, and on one only (`EachMatchHasAPage`): `iTotalDisplayRecords` is the
count before the search, which offers pages that turn out empty but must never
offer too few.
`EveryDrawSettles` is weak where the code is: after a request that failed the
notice stays, with the rows of an earlier query under it.

## AjaxRequest and OneAnswer

jQuery 1.7.1 is vendored, but every page that does anything does it in one of
its callbacks, and how these are called is the hard part of all of them.

| Variable | Stands for |
|---|---|
| `state` | `state` of each jqXHR: not sent, open, done |
| `list` | the callback lists `done`, `fail` and `complete` of each request: who is registered and was not called |
| `fired`, `firing` | the lists that have a memory, and those whose flag `firing` is up |
| `stack` | the loops of `fire` under way: a handler may start another one |
| `active` | `jQuery.active` |
| `place`, `told`, `broken` | history: where each handler was registered, where it was called from, which requests a handler threw out of |

`Send` is `ajax` up to `transport.send`, `SendDone` an `ajax` that is done
before it returns (an answer from the cache, an exception, a `beforeSend` that
returns false), `Respond`, `Expire` and `Abort` the three ways to `done`,
which starts the loop over `done` or `fail`; `Call`, `Return` and `EndLoop` are
its steps, the last going on to `complete` and to the counter. `Register` is
`done`, `fail`, `always` or `complete`; on a list that was fired and is not at
work it starts a loop of its own. `Throw` ends all loops down to a handler that
catches, or to the event loop. Page code runs inside handlers and as tasks of
its own, so that every action of the page may occur inside every handler.

`OneAnswer` is what a page counts on: one answer for each request, and each
handler called at most once, with it. `Promise` is its specification under
`Answer` and `Heard`.

Left out: `statusCode` maps, global events, synchronous requests, `progress`,
`pipe` and `when`, the script transport, removing a handler, and a `beforeSend`
that throws (`jQuery.active`, raised at line 7488, then never comes down for a
request that is never sent); no page of the application uses them. The edit form and the list load version 1.7 from
another file, whose deferreds and `ajax` are the same code minified.

| Run | Instance | What it shows |
|---|---|---|
| `ajax_requests` | 2 requests, one with a timeout; 3 handlers | `Promise`, `ActiveCounts`, `NobodyIsForgotten`, `CompleteComesLast`, and `TimedRequestsSettle` under fairness: two requests nest, and three handlers are one that runs, one that it adds and one after both |

Fairness: the engine goes on with a loop, a handler comes to an end, and a
timer goes off. Nothing is assumed of the server or of the page.

The two conditions in the properties are what the code does not promise: after
an exception in a handler of a request, `jQuery.active` never comes down
(`broken` in `Counted`), and a handler that is added to the list it was thrown
out of is never called (`Broken` in `NobodyIsForgotten`).

## Accounts

| Variable | Stands for |
|---|---|
| `profiles`, `local`, `owner` | UserProfile, webpages_Membership, webpages_OAuthMembership |
| `cookie` | the forms authentication cookie of each browser, which holds a name |
| `confirming` | the pages that ask a new external user for a name |
| `req` | a request: operation, next statement, user, login, what its last lookup found |
| `hurt` | history: users an accident may have cost their credentials |

A request is a sequence of phases, one per database statement, and requests
interleave between any two. `InsertProfile` is the insert of the name that
Register (inside `CreateUserAndAccount`) and ExternalLoginConfirmation share,
`InsertAccount` the insert of a password, `LinkLookup` and `Link` the two
statements of `CreateOrUpdateAccount`, `OwnerCheck`, `Begin` and `Delete` the
three parts of Disassociate. `Fail` ends a request at any point.

Locks. The reads of Disassociate are serializable: they keep range locks until
the commit. The lookup by user name in webpages_OAuthMembership has no index
and locks the table, so while a request without a local password is between
`Begin` and `Delete` nobody else writes that table (`LoginsFree`), and nobody
gives its user a password (`LocalFree`). Two such requests wait for each other;
`DeadlockVictim` is SQL Server's answer.

Assumptions about the library and the schema, which are outside the
repository: `UserProfile.UserName` is unique, as it is in the table that
`InitializeDatabaseConnection(..., autoCreateTables: true)` creates (the
database exists before the application's first request, so that
`CreateDatabase` of `InitializeSimpleMembershipAttribute.cs:38` does not run);
`CreateOrUpdateAccount` looks up, then inserts or updates, and throws when no
row is affected. User names are model values: two spellings of one name, which
the database takes for the same and `ownerAccount == User.Identity.Name` does
not, are not modelled. Left out as well: passwords, anti-forgery tokens, model
validation, and pages without effect.

| Run | Instance | What it shows |
|---|---|---|
| `accounts_tabs` | 2 users, 2 logins, 1 browser, 2 requests at once | `OwnRemovalKeepsCredential` (two tabs removing two logins), `RegistrationNeverAdopts`, `StrandedOnlyByAccident` |
| `accounts_ends` | 1 user, 2 logins, 1 browser, 2 requests | `EveryRequestEnds`, through the deadlock |
| `accounts_owner` | 2 users, 1 login, 2 browsers, 2 requests | counterexample: the owner check of Disassociate is stale when the delete runs, against the comment at `AccountController.cs:112` |

Every race of this code is one of two requests, which is what the instances
allow; a second browser adds nothing to the invariants but a second cookie,
and the proofs hold for any number of browsers. Slots are reused without
limit, so that behaviours of any length occur.

Fairness: a request under way goes on (`SF` of `Work(k)`: the database grants
queued locks in order, so a request that is enabled again and again gets its
turn), and the deadlock monitor acts (`WF`). Neither users nor failures are
fair.

`hurt` names the three accidents the code allows: a registration that dies
between the profile and the first credential, a login that
`CreateOrUpdateAccount` moves to another user, and a removal that took its
owner check too early. `StrandedOnlyByAccident` says that there is no fourth.

## ProductList

| Variable | Stands for |
|---|---|
| `working`, `committed` | the Solr index with and without what nobody has committed yet |
| `call` | the ajax calls: kind, page, what they are about, how far `SolrController` is |
| `awaited` | the calls whose callback may still run |
| `rows` | `self.products` of each page: objects with the call that brought them and the id they show now |
| `last`, `stale` | history: the last change of each product; pages something was done behind the back of |

`Open`, `AddProduct`, `RemoveProduct` and `EditId` are the page and its user
(the id of a row is bound to a text box, and a removal sends the id of the
moment). `Read`, `Add`, `Delete`, `DeleteAll` and `Commit` are the calls to the
index, each a step of its own; `Fail` is an exception at either or the end of
the process. `Push`, `Drop`, `Alert` and `Break` are the callbacks. `AddProduct`
of the controller takes the first number of a generator seeded by the clock:
any id, a used one included. Names and prices are left out: the price range of
`GetAllProducts` holds for every product the page adds.

| Run | Instance | What it shows |
|---|---|---|
| `products_list` | 2 ids, 1 page, 4 calls, an empty index | `LastWordCounts`: the last finished change of a product decides whether a query sees it. `QuietPageShowsIndex`: without an accident (repeated or edited id, failure halfway, another page, an addition overtaking the list) the page shows the index |

Four calls are a list, an addition, a removal of it and one more that
overtakes them. `stale` lists the accidents that make a page wrong; that the
page is right otherwise is the property. Safety only, so no fairness.

## UnitOfWork and AtomicTable

| Variable | Stands for |
|---|---|
| `table` | table Route |
| `tracked`, `added` | the change tracker of the context of each unit: entities with state, value and original value; entities in state Added |
| `disposed` | the units whose request is over |
| `last`, `failed` | history: the last call; the routes of failed calls and touched entities |

The actions are the methods of `DefaultRoutesService` (`Update` and `Delete`
are the same code), `Dispose`, `Create`, and `Touch`, a caller that changes an
entity it was given. Each call is one step: one thread runs it, and it reaches
the database only in its query or in `Save`, one transaction. `Save` sends
everything pending; it may fail for reasons outside the model, before the
commit or after it (`Fails`). `DetectChanges`, `AcceptAllChanges` and the
IDENTITY column are Entity Framework and the database, modelled as external.
Any sequence of calls is allowed, which is what the interface offers; today's
controllers make one changing call per unit.

`AtomicTable` is what a unit promises: of all that was handed over, a call
writes everything at once or nothing, and forgets nothing before it is written
or disposed of. `WritesAreAtomic` is its specification, with what the tracker
has in state Modified (`Handed`) and Added for what was handed over.

| Run | Instance | What it shows |
|---|---|---|
| `unit_calls` | 2 units, 2 rows, three contents, one of them refused; 1 new entity | `OnlyFailuresLinger`, `OnlyAskedRowsChange`, `LostRowBlocksItsUnit`, and `WritesAreAtomic`: two units are what a stale read needs, two rows a call about one that writes another |

`MaxLeftovers` bounds the run, not the model: TLC goes on from the states in
which at most one route is left over from a failed call or a touched entity.
One leftover is what a later call can write, lose or be blocked by, and a call
after it has two things to write at once; the proofs have no such bound.

## FacetSearch

| Variable | Stands for |
|---|---|
| `index` | what a query sees |
| `url` | the address of the page: for q, page, pageSize and one f_... per field the texts it gives, each with whether a raw '?' or '=' is in it (`raw`) and whether it stands after a second '?' (`beyond`) |
| `page` | what `SolrController.Index` and its view made of the address |
| `fresh` | history: the index has not changed since |

An address is read twice, and not in the same way. `Bind` is
`SearchParametersBinder` with `TryParse`, over `Request.QueryString`
(`QueryString`), which keeps every text whole and joins duplicates with commas.
The links are made of what `ParseQueryString` makes of the raw address: it loses
what stands after a second '?' (`Before`, `beyond`) or after a second '=' of a
parameter, and keeps the last of duplicates. `DictToQuerystring` encodes what it
writes. `SetFacet` and `RemoveFacetUrl` are the two helpers, the second with its
two rounds through both.

`Start` is the product of `Index`, in the arithmetic of an `int` (`Wrap`);
`Matching`, `Refused` and `Count` are what Solr answers. `Index` ends in results,
in the page of `QueryError` (only `InvalidFieldException` is caught), or in an
error page; Solr may fail at any time. `Follow` and `RemoveFacet` are the links,
`Search` the form, which replaces the whole query string, `Visit` any typed
address of a bounded set.

The code does not promise that its links go on with the search of the page:
from `?q=a?b` they go on with `q=a`. So the two properties of the links speak of
the addresses that both readings agree on (`ReadAlike`), and
`OnlyTypedAreMisread` says how little is left out: no link and no form makes a
misread address, whatever the address it started from and whatever the texts,
a facet value with a '?' in it included. The finding at
`UrlHelperExtensions.cs:34` is about the rest.

Left out: the order of the results (an order that cannot be parsed is
`VisitGarbled`, as is a parameter without '='), a facet given without a text,
keys of two spellings, and the limit Solr puts on the number of facet values.
Two pairs of duplicates join to the same text (`Joined`), which no search finds.

| Run | Instance | What it shows |
|---|---|---|
| `facet_search` | 3 products, 2 facet fields, a field Product lacks and one Solr lacks; 94 typed addresses, 24 of them with raw marks, parameters beyond a second '?' and duplicates; integers from -8 to 7 | `OnlyTypedAreMisread`, `FacetLinkKeepsItsPromise`, `RemovalOnlyWidens`: pages beyond the end, start values that overflow to negative and to positive ones, selections that find nothing, links made from misread addresses and followed further |

## MembershipInit

| Variable | Stands for |
|---|---|
| `role`, `profile`, `password` | the role Admin, the UserProfile and the webpages_Membership of the administrator |
| `initialized`, `lock` | `_isInitialized` and `_initializerLock` of each application domain |
| `connected` | WebSecurity of that domain has been initialised |
| `req` | a request to `AccountController`: its domain and its next statement |
| `cut` | history: somebody died between the profile and the password |

`CheckFirst`, `Lock`, `CheckAgain` and `Finish` are `EnsureInitialized`; `Connect`
to `InsertPassword` the constructor, one database statement per step; `Fail` an
exception at any of them, `Recycle` the end of a domain at any time. Assumed of
the library: `CreateRole` refuses a role that exists,
`InitializeDatabaseConnection` works once per domain, `GetUser` looks for the
profile only, and the insert of a profile refuses a name that exists. The
database exists (see Accounts).

| Run | Instance | What it shows |
|---|---|---|
| `init_domains` | 2 domains, 3 requests | `InitializedOnce` (two requests of one domain), `ReadyIsSeeded` and `AdminHasPassword` (two domains), `BrokenTillRecycled`, and `EveryRequestIsAnswered` under fairness |

Fairness: `SF` of `Step(r)`, a thread goes on, and the lock of `LazyInitializer`
is granted in the order of asking, so that a request for which it is free again
and again gets it. Failures and recycling are not fair.

## BusinessRules

`object` holds the properties of an entity, `messages` the `ErrorMessage` of
each rule, `errors` its `ValidationErrors`, and `outcome` what the last
`Validate` did. `Assign` is whoever sets a property, `Validate` runs the rules
in order. `Accepts` has one disjunct per class of rule, each with an operator of
its own (`Present`, `LengthFits`, `MatchesPattern`, `Compare`, `InRange`,
`MayDelete`), `Rejects` is the test in the loop; `RuleThrows` are the two
without a catch block, which end the validation halfway. Values are related by
`Order`, one table per data type, in which a value may not parse or be NaN.

No class of the repository calls `AddRule` yet. The rules come from the
constant `Rules`, as a subclass would add them. The names of its specification
start with `Rules` (`RulesSpec`, `RulesTypeOK`), so that its proofs can share a
module with those of `UnitOfWork`.

| Run | Instance | What it shows |
|---|---|---|
| `rules_validate` | six rules, one of each kind; 192 objects | `ErrorsAreOfThisRun`: whatever was left by earlier validations, thrown ones included. `RulesTypeOK`: no rule is listed twice. `NegationsExclude`: of two opposite comparisons exactly one accepts, for every data type and pair of values |
| `rules_range` | a range of texts | counterexample: `ValidateRange.cs:84` has the operands of the comparison with the lower bound the other way round, against lines 9 and 29 |

A second defect has no run: `ValidateDelete.cs:38` converts the date `Deleted`
to a Boolean, which throws for every date, so that no stored object passes the
rule, and the catch block replaces its message for good.

## Proofs

The eight modules `..._proofs` prove for every value of the constants what the
runs check on small ones, except liveness: every invariant and every action
property of a passing run, and both refinements, are theorems. (`Entities_proofs`
holds the proofs about `UnitOfWork` and those about `BusinessRules`, the two
halves of the model layer.) All follow the same argument: `IInv` is inductive
(`InitInv`, `NextInv`, with one lemma per action or group of actions), and each
property follows from it.

* `RouteEditing!IInv` adds to the properties, `TypeOK` with its bound on the
  distances of rows among them, that a POST that was heard of has
  the stage that was heard (`PostsAreSent`), that answered POSTs are done
  (`AnsweredAreDone`), and that a form read after the last save of its row
  still shows that row (`FreshForms`). The last is what makes an untouched
  form harmless: its proof needs the round trip `Render(Bind(Render(row))) =
  Render(row)` (`RoundTrip`). `EditsAreAtomic` is a refinement no run checks:
  editing implements `AtomicTable`, the abstract specification of the unit of
  work, with the POSTs for units and what a sent form binds to for what was
  handed over. The contents of rows are an infinite set there, since nothing
  bounds a distance, so that the proof is about more than TLC could enumerate.
* `Accounts!IInv` adds which operation is in which phase and for whom
  (`RequestsFit`), that a name under registration is used by no other request
  except one that will find it taken (`NamesUsedOnce`), and that what a
  transaction has read stays true until its delete (`ReadsStand`).
  `ReadsStand` is where the locks enter; `OwnRemoval` is its consequence.
  Two more theorems are the part of `EveryRequestEnds` that needs no fairness:
  `RequestsOnlyAdvance` says that a request moves through its phases in one
  direction (`Left`), so that it ends if it goes on, and
  `LocksNeverStopEverybody` that whoever cannot go on waits while a request in
  "delete" can, or can be rolled back. What remains to TLC is that fairness
  turns the two into an end for every request.
* `ProductList!IInv` adds that the last word on a product stands in what is not
  committed yet (`LastWordStands`): a commit only makes visible what obeys it.
  `QuietPageShowsIndex` needs a second invariant, about the calls under way:
  `PagesInOrder` says of every page nothing was done behind the back of that it
  either waits for its list and for nothing else, or shows each product of the
  index once, up to the additions it has not heard of (`Coming`) and the
  removals it has not heard of (`Going`). What comes is a product no row shows
  and no removal is about; what goes is the product of the row the removal was
  asked for. It is relative to `IInv`, with one lemma per action of the page
  (`...Fresh`) and one for all that happens elsewhere (`Elsewhere`);
  `FreshAndQuiet` turns it into the equality of the two sets and of their sizes.
* `UnitOfWork!IInv` is `TypeOK` and `OnlyFailuresLinger`. The step lemmas say
  how each call of the service ends in `Save`, `StepMaps` that every step is a
  step of `AtomicTable` or a stutter under the mapping `Handed`, and
  `Implements` concludes.
* `FacetSearch!IInv` adds that page and address agree (`PageIsOfUrl`), so that
  a link made of an address that both readings agree on goes on with the search
  of the page. What the links make is read back as it was written (`WrittenIsRead`,
  the round trip through `DictToQuerystring` and both readings), which is
  `LinksAreReadAlike`. The first page starts at zero whatever the width of an
  integer, so that the page behind a link is never refused, and a value that was
  counted is found. `LinksCommute` is about the links alone, from any address:
  where a user gets to does not depend on the order in which facets were chosen
  and removed.
* `MembershipInit!IInv` adds that whoever is inside the constructor holds the
  lock (`HoldersAreInside`) and what it may rely on there (`InsideFacts`).
  `NoPhaseTwice` and `LockIsInGoodHands` are the part of
  `EveryRequestIsAnswered` that needs no fairness: a request only goes forward
  (`Progress`), and who waits for the lock waits for one that is past it.
* `RoutesGrid!IInv` adds that the newest request asks what the controls say and
  that every answer is a page of a state of the table (`RequestsInOrder`), and
  that so is the answer shown (`ShownInOrder`). Three more results are about the
  handler alone: whatever the column, its sorting neither loses nor repeats a
  row (`SortingLosesNoRow`) and puts them in order, the newest first among
  equals (`RowsComeSorted`); and of the pages the pager offers exactly one holds
  a given match (`ShownMatchesHaveAPage`), although the number of pages comes
  from a count taken before the search.
* `BusinessRules` needs no invariant beyond its own properties, but an
  induction: `Failing` is the loop of `Validate`, a function recursive in the
  number of rules tried. `SetOfAllNaturals` is the induction used, a set that
  holds zero and with n also n + 1, derived from the well-foundedness of < on
  the naturals; `LoopRuns` shows with it that there is such a function for any
  number of rules, and `FailingFacts` that after n rules it lists those of the
  first n that are broken, each once and in order.
* `AjaxRequest!IInv` relates three structures: what was fired to the state of
  its request (`RequestsInOrder`), the loops under way to the firing flags
  (`LoopsInOrder`), and where a handler waits to where it was registered
  (`HandlersInOrder`). The last is what makes it impossible to be forgotten or
  called twice, and with it `PromiseKept`, the refinement of `OneAnswer`.
  `HandlersAgree` is what it says to a page: whatever handlers of a request have
  been called, they were told the same, and what they were told still holds.
  `ActiveCounts` is proved on top of it, with one lemma for each kind of step
  on how the set of counted requests grows or shrinks.

The assumptions are the named ASSUMEs of the modules, which TLC evaluates in
every run: the null value is no other value, what users type is of the right
kind, the seeded rows are rows, and sets of fields and products contain one
another; `IdsAssumption` says that there are finitely many product ids: the
numbers of `Random.Next()`, and what users type over them; `RulesAssumption` and
`TextsAssumption` say that the rules are a sequence and that whatever a property
may hold is comparable as a text. The five liveness properties (`EverySubmitSettles`, `EveryDrawSettles`,
`TimedRequestsSettle`, `EveryRequestEnds`, `EveryRequestIsAnswered`) are only
model-checked, being statements about fairness. The counterexamples need no
proof.

## Plan

Done: every module of the table above. What is left, in this order:

1. One composition of `RoutesGrid` and `RouteEditing` over a common table, in
   which `Others` is replaced by the edits themselves.
2. The part of the other three liveness properties that needs no fairness, as
   for `EveryRequestEnds` and `EveryRequestIsAnswered`.
3. The parts of jQuery that a new page might use: `when`, `pipe`, `progress`.

## Not modelled

* Forms membership service and week days: nothing in the application calls
  them. The service resets and assigns roles in two calls
  (`FormsMembershipService.cs:92`), and a failure in between would leave a user
  without a role; with no caller there is no sequence of calls to take from the
  code. Packing seven flags into a byte has no state.
* Request pipeline: one request, no state between requests. One thing is worth
  knowing of it: `HandleAndLogErrorAttribute` logs through
  `Common.Logging.ILog`, while the container registers `log4net.ILog`, so that
  `Logger` is never set and line 58 throws for an ajax request;
  `Application_Error` then handles that exception instead of the first one. The
  action of the list does not carry the attribute.
* Notification hub: lies in App_Data, which is not compiled, and no step of the
  application reads what it sends.
* Container, logging and database scripts, view helpers, the Knockout tutorial
  page, and `Create` of the routes controller, whose POST inserts nothing: no
  state of their own at run time. So is the creation of a missing database,
  which `InitializeSimpleMembershipAttribute.cs:38` does not reach when the
  database exists.
* Vendored scripts and packages: by far the most JavaScript of the repository
  (jQuery UI, TinyMCE, Knockout, plugins and their copies under `packages`).
  Only what the pages' behaviour rests on is modelled, `jQuery.ajax` with its
  deferreds and the server side of DataTables. The insides of the redis and
  Solr servers stay external.
