# A specification of tmpio

tmpio is a publishing server in Go over PostgreSQL: every organization (tenant)
owns a small versioned filesystem of Markdown pages, files, images and a
configuration, which people edit in a browser, over HTTP, through secret links
and through an MCP server. This directory holds TLA+ modules for its core logic,
the configurations that check them with TLC, and proofs checked by TLAPS.

## The system

| Component | State | Operations | Hard behaviour | What makes it correct |
|---|---|---|---|---|
| Versioned filesystem (`models/fs_write.go`, `fs_change.go`, `asset.go`) | `entry`, `revision`, `path_alias`, `asset_blob`, `mutation_receipt` | Write, Mkdir, Move, Delete, Restore, PutAsset | requests that name a stale path or revision; revival of deleted ancestors; retries; quotas | append-only histories, a tree of live entries, one namespace, redirects that neither shadow nor go dead, quotas, at most one effect per request |
| Sharing links (`models/share.go`, `controllers/share.go`) | `share_grant`, `share_grant_asset` | create, refresh, revoke, resolve, write, show an image | token resolved before the write takes its lock; deletion, restoration and moves of the document | a link edits and shows its own document only; revocation is final |
| Browser, REST and MCP requests (`controllers/ops.go`, `api.go`, `mcp/server.go`) | what a client was shown: form, entity tag, revision number | edit, move, delete, restore, share, bulk | the lookup and the operation are two transactions; a document moves between them | a change replaces the revision the client was shown |
| Placement (`models/organize.go`, `platform/ai`) | `ai_call`, the digest in `mutation_receipt` | SuggestPlacement, PriorWritePath, RefileEntry | a path chosen before the lock; a retry beside the first attempt; a budget counted before a call | nothing is overwritten, a retry files nothing twice |
| Readers (`models/fs_read.go`, `controllers/content.go`) | none | Resolve, Read, List, History, Search, Export | four statements under READ COMMITTED; cursors over a changing tree | no document is missed between two places, a tag is of what was shown, a crawl is complete |
| Paths (`models/paths.go`, `entry.go`) | none | ValidatePath, Ancestors, RequestPath | three spellings of one document; reserved names | every entry answers at its own addresses |
| OAuth connections (`models/credentials.go`, `controllers/oauth.go`) | `oauth_client`, `oauth_grant`, `oauth_code`, `oauth_token` | authorize, exchange, rotate, revoke | each call is several transactions | codes and refresh tokens are used once; revocation reaches every token |
| Members and tokens (`models/members.go`, `credentials.go`) | `membership`, `invite`, `api_token` | invite, set role, remove, create and revoke tokens | a guard that counts owners without a lock | an owner remains; a removed member's credentials end |
| Sign-in (`models/user.go`, `session.go`, `controllers/auth.go`) | `user`, `identity`, `session`, `login_state` | SignIn, sessions, DeleteAccount | statements of two requests of one browser interleave; the sign-up link changes meanwhile | one session per browser; an old link admits nobody |
| Start-up and local owner (`cmd/api`, `platform/db`, `models/localauth.go`, `instance.go`) | schema version, advisory lock, runtime role, `local_credential`, `instance_setting` | EnsureRuntimeRole, MigrateUp, EnsureLocalOwner, seeding of the model key | two images start at once; a crash between any two statements | migrations in order; who serves has all it needs; some later boot completes what one left |
| Rate limiter (`platform/ratelimit`) | buckets in memory | Allow | window boundaries, clean-up | a bound on a minute; patient clients pass |

Components interact through the database. Every mutation of the filesystem and
every grant operation runs in `db.WithTenantSerialized`, a transaction that
holds the tenant's advisory lock; the other operations run in plain READ
COMMITTED transactions, several per request, and interleave.

`PROJECT.json` names for each component the modules that model it, for each
definition the lines it stands for, and under `hazards` the places where the
code could go wrong in a way a test would hardly reach, each with the properties
that would notice.

## Modules

```
VersionStore <== Content <-- Requests      browser, REST, MCP tools, links
                         <-- Placement     filing and refiling
                         <-- Readers       addresses and crawls
Addressing, Readers      <-- Site          readers beside the path grammar
RateLimit, SignIn        <-- Admission     sign-in behind the limiter
OAuth    Members    Startup
```

`<==` is implemented by, `<--` is extended by. Each module `M` about which
theorems are proved has them in `MProofs`; `MCM` holds the small instance.
`ReadersProofs` and `MCReaders` are about `Site`, `SignInProofs` and `MCSignIn`
about `Admission`.

**`Content`** is the versioned filesystem of one tenant with its sharing
grants. A table is one function per column, indexed by row id. An action is one
whole operation: its guard is the conjunction of the checks that lead to an
error return, and a refused request, which rolls back, is a stuttering step.
Because the advisory lock is held to the commit, an operation is one atomic
action; what is left of concurrency is in its arguments. `MutationOf` lets a
client ask for any entry with any revision number the entry has had and any
path it has had: everything a request could have read before. `Publish` is
what Write, Mkdir, Move, Restore and PutAsset have in common, `ensureParents`
included: the entry comes to live at a path and the directories missing above
are inserted or revived in the same transaction. `Amend` is an edit in place,
`Bury` the soft delete.

| In the code | In `Content` |
|---|---|
| `entry` row, `deleted_at`, `parent_id`, `size_bytes` | `path`, `live`, `parent`, `bytes` |
| `revision` rows of an entry by `seq` | `hist[e]`, with operation, path, source, link and request key |
| `path_alias` | `alias[p]` |
| the sum `checkRetainedQuota` computes | `retained` |
| `share_grant`, `share_grant_asset` | `grantOf`, `revoked`, `allowed` |
| `mutation_receipt`, its 24 hours | `receipt[k]`: none, live, expired |
| `ValidatePath`, `Ancestors` | the constants `KindOf`, `ParentOf`, `Above`, `RenderedOf` |
| parsers and validators | the constant `Accepted` |
| `RewriteRelativeLinks`, `ExtractLocalImagePaths` | the constants `Relinked`, `Embeds` |

Left out: search text, titles and other metadata, which no guard reads; the
audit log and `tenant.generation`, which are only written; limits on the size
of one document, which `Accepted` stands for. Embedded images are named by
absolute paths, so that a move does not change what a page embeds.

**`VersionStore`** is the abstract store: logs that only grow by legal
operations, and addresses that open documents for good. `Content` implements
it (`StoreImplemented`) with the history as the log and, for an address, the
row that renders there or else the redirect, as the readers look them up.

**`Requests`** puts in front of `Content` what the handlers do before they take
the lock. A client keeps what it was shown (`held`) and sends it back later; the
handler looks something up in a transaction of its own, then calls one
operation: two steps, between which any other request may run (`Others`, or
another client). Where the interfaces differ, so do the actions: a form names a
document by address and revision number and is redirected (`OpEntry`), the
editor resolves and then reads by path (`EditorShown`), an entity tag names the
entry and is compared before the lock (`CheckETagEntry`), a tool passes on what
the caller says (`ToolCall`), a link is resolved again (`SharePut`).

| In the code | In `Requests` |
|---|---|
| a form, a reply, an entity tag, the page a link shows | `held[c]`: document, path, revision, text, link |
| the local variables of a handler between two transactions | `job[c]` |
| the rows ticked in a listing; those `BulkEntry` has left | `chosen[c]`, `todo[c]` |
| an error of any of these, or a lost connection | `Fail` |

**`Placement`** is filing in the same style: `SuggestPlacement` reads a snapshot
of the tree, a model may be asked outside any transaction, and `Write` or `Move`
follows in a third. A client that hears nothing sends the same call again, even
while the first is running. The folder the model or the heuristic prefers is a
free choice; the name in it is `UniquePlacementPath`.

| In the code | In `Placement` |
|---|---|
| the local variables of `tmp_write`, `QuickAdd`, `RefileEntry` | `work[h]` |
| the arguments that go by a request id | `asks[k]` |
| digest and result in `mutation_receipt` | `filed[k]` |
| `ai_call` rows of the last hour | `calls`, by outcome |

**`Readers`** resolves addresses and reads pages of listings, searches and
histories, one action per SQL statement, since under READ COMMITTED each sees
what is committed by then. `steady` and `kept` are history variables: whether an
address has opened a document all along, and which rows of a crawl have been
there unchanged. Any operation of `Content` may be written between two
statements, renames, shares and uploads included (`Write`). **`Addressing`** is the
grammar they rest on: `ValidatePath`, `Ancestors`, the HTML and JSON addresses of
an entry and the order in which `serveContent` tries what an address may mean, as
functions of a spelling made of stems and extensions. The two are put together in
**`Site`**, whose run examines the grammar for every spelling of two segments.

| In the code | In `Readers` |
|---|---|
| the local variables of `Resolve` and of the handler that called it | `view[r]`: statement, address, entry, its path, tag |
| the response: source, revision and `ETag` | `shown[r]` |
| the cursor a client sends back, and the rows it has seen | `crawl[r]` |
| `RenderedToCandidates`, `Entry.HTMLPath`, the order of `List`, `ts_rank` | the constants `PageAt`, `OtherAt`, `AddressOf`, `PlaceOf`, `RankOf` |

**`OAuth`** is the life of connections: consent, the exchange of a code,
rotation, reuse detection, revocation and dynamic registration. Nothing here
takes the tenant lock and a request is several READ COMMITTED transactions, so
each transaction is an action (`IssueTokens`, which reads the grant and inserts
in one, is two), a request is in a phase between them, and `Abandon` ends it in
any phase: a mismatch of client, verifier or resource, a client that hangs up, a
process that dies.

| In the code | In `OAuth` |
|---|---|
| `oauth_grant`, `revoked_at` | `consented`, `grantRevoked` |
| `oauth_code`, `used_at`, five minutes | one per grant: `codeUsed`, `codeExpired` |
| `oauth_token` rows; the access and refresh token of a pair | `lastPair`, `grantOf`, `familyOf`, `rotated`, `revoked`, `expired` |
| `family_id` | the number of the family's first pair |
| `lookup_oauth_code`, `lookup_oauth_token` | what `seen`, `grant`, `pair` keep of the first read |
| the `oauth_client` rows of an address today | `registered` |

**`Members`** is who belongs where: sign-in with the invitations it accepts,
invitations, roles, removal, account deletion, and the API tokens and grants of
a member as far as they outlive the membership. The role of a request is the
one the Session middleware read (`request[r].as`); a guard and the update it
guards are two actions. An account and the one address its provider verified are
the same user; scopes are left out.

| In the code | In `Members` |
|---|---|
| `user`, `tenant`, `membership.role` | `accounts`, `tenants`, `role` |
| `invite`, `accepted_at`, `revoked_at`, `expires_at` | `invite[i]` and its state |
| `api_token`, `oauth_grant` that work | `reaches`, by tenant and user |
| `revision.user_id` | `wrote`, by tenant and user |
| the principal of a request | `request[r]` |
| foreign keys | guards of insertions, `NamedElsewhere` of the deletion |

**`SignIn`** is the browser's side of it: the state of the round trip to the
provider, the session rows that requests touch, replace and end, password
sign-in, and the sign-up link and allowlist that the administrator changes
meanwhile. A statement is an action. The provider redeems a code once; that is
external. **`RateLimit`** is the limiter in front of it (**`Admission`** puts the
two together). Its mutex makes `Allow` one step, so what it admits is a function
of the instants of the calls; the run examines every short sequence of calls.

| In the code | In `SignIn` |
|---|---|
| `session` rows, `last_seen_at`, the cookie | `session[s]`, `cookie[b]`, `holder[s]` |
| `login_state`, `used_at`, the return address | `login[t]` |
| `instance_setting.signup_link` | `link`, 0 when turned off |
| a handler between two statements | `request[r]` |

**`Startup`** is `main()` up to the moment it serves: `EnsureRuntimeRole`, the
advisory lock and the migrations, `EnsureLocalOwner`, the seeding of the model
key; with crashes, `log.Fatal`, and another instance, perhaps of another image,
at any other statement. `SaveKey` is the settings page, `KeyInUse` what the AI
resolver takes.

| In the code | In `Startup` |
|---|---|
| the statement a process executes next | `at[i]` |
| environment variables at the start of the process | `env[i]` |
| goose's version table; the session advisory lock | `version`, `lock` |
| the runtime role, its grants and default privileges | `role`, `usable`, `defaults` |
| the owner's `user`, `local_credential`, `is_instance_admin` | `account`, `credential`, `admin` |
| `instance_setting.ai_api_key` | `key`, with `setBy` as history |

## Runs

| Run | What it shows | Bounds, and why they are enough |
|---|---|---|
| `ContentTree` | the tables stay a consistent versioned tree within its quotas and implement `VersionStore` | `/b.md` and a directory `/b` that render alike; `/a/b/c.md` two directories down, so that one request creates or revives both; 2 pages and 2 directories of quota; 8 rows, 9 revisions: enough to create, move out, delete a directory and revive it |
| `ContentSharing` | links edit and show what the owner shared, revocation is final, a request key takes effect once | one link, a page with an image, a key of the owner and one of the link whose receipts expire; 6 revisions, so that a page is shared, edited through the link, moved, replaced at its old path, deleted and restored |
| `Requests` | what is shown together was together; a change replaces what was shown; a bulk request does not stand in its own way | a page in a folder, two names at the root, one link; one client followed and any number of others; 7 revisions: a document is moved away and another takes its place between lookup and operation |
| `Placement` | one document per request, a retry reaches the first, nothing is overwritten, the budget | two handlers, one request id, an inbox and a folder with two names for the document; a budget of 1, so that two handlers overshoot it |
| `Readers` | no document missed between two statements, tags, complete crawls, an answer for every request; and the path grammar | one reader (readers share nothing), pages of one row, a page and an image that move between the root and a folder, and every operation of `Content` on them; 6 revisions: a document moves away and another takes its place while it is looked up |
| `OAuthConcurrent` | a code issues once; a closed connection is silent; an ended family stays ended | one connection, two requests at any of their transactions, three pairs: one from the code, one from each of two rotations |
| `OAuthOneClient` | one working pair per family; a reuse ends all of them | one request at a time, abandoned anywhere; four pairs |
| `Members` | invitations neither demote nor admit twice; removal ends credentials | two people, two organizations, two requests, one invitation; one of the two people writes |
| `SignIn` | one session per browser; old links admit nobody; the limiter | two browsers, two requests, two sessions, one state, two links; six calls of a client, up to a window apart, with sweeps among them |
| `Startup` | migrations follow one another; who serves is complete; the installation comes up | an image with one migration beside one with two, on a fresh database or an older one; two passwords; three stops at any statements |

Grants of different connections share no row but the client's, so one grant
shows what two requests can do to each other; the theorems are for any number.
The type invariants of the modules other than `Content` are proved, and no run
repeats them.

Deadlock is checked in `Readers`, where a reader can always come. Elsewhere it is
not: clients may stop asking, and under the bounds on rows, pairs, invitations
and stops every sequence of requests ends.

**Fairness.** Two specifications state it. In `ReadersSpec` a handler that has
begun executes its next statement (it is a goroutine of a running process) and a
client that holds a cursor asks for the next page; nothing obliges a writer to
write or a reader to come, and `MaxRevisions` stands for writers that pause:
against one who moves a document for ever, a chain of redirects need not end. In
`Startup` a process that runs goes on to its next statement, and one that stopped
is started again (`docker-compose.yml`, `restart: unless-stopped`), so
`InstallationComesUp` says that no crash leaves a state the boots after it cannot
complete. The other specifications are safety only: no operation in them waits
for another.

**Two runs expect a violation.** They check a sentence of the code's own comments
that the code does not keep (`findings` in `PROJECT.json`).

| Run | It says | The code |
|---|---|---|
| `MembersLastOwner` | the last owner cannot be demoted | two owners demote each other at once: both counts say two |
| `StartupClearedKey` | an empty key turns filing off for the whole installation | while `ANTHROPIC_API_KEY` is set, calls use it, and the next boot stores it again |

## Refinements

`Content` implements `VersionStore` (`StoreImplemented`, with a refinement
mapping): checked in `ContentTree` and proved in `ContentProofs` for every site
and bound. `Requests` and `Placement` implement `Content`: each of their steps is a
step of `Content` or leaves its tables alone. That is proved
(`RequestsImplementContent`, `PlacementImplementsContent`), and with it every
theorem of `ContentProofs` holds of the compositions. `Readers` changes none of
the tables (`ReadersRefine`), so they hold beside it too. It is not
obvious: `MutationOf` promises the paths and revisions an entry has had, and the
handlers send what they were shown, perhaps after the entry moved on.

## Proofs

All theorems are for every value of the constants: every site, any number of
clients, handlers, grants, instances and rows, and every bound. The assumptions
are the named ASSUMEs of each module, which TLC evaluates in the runs: what
`ValidatePath` guarantees of kinds, parents and rendered paths (`Content`), what
the slots of a folder are (`Placement`), that blank values are no members of the
sets they complete, and that bounds are numbers.

**`ContentProofs`.** The inductive invariant is `TreeInv`: `TypeOK`,
`NamespaceUnique`, `RedirectsYield`, `RowFollowsHistory`, `LiveTree` and
`GrantsOpenLivePages` together. None of them is inductive alone: that the parent of a
new directory is found by its path needs the namespace to be unique, that the
redirects survive `Publish` needs to know no row renders where one is removed,
and that a directory can be buried needs the tree. Every action has one of five
shapes (settling, moving, burying, amending, linking); a lemma per action shows
its shape and a lemma per part of the invariant shows that each shape preserves
it. From the shapes follow the quotas (`TreeWithinQuota`: a settling step adds the
rows it was granted and no other becomes live), `RevocationIsFinal`,
`OnlyOwnersApproveAssets` and `LinksEditTheirDocument`. `AtMostOnce` needs that
every key in a history has a receipt, expired or not (`KeysSpent`). `SourcedOnce`,
that a request makes one revision with a source and the others are of directories,
is kept for `Placement`.

The refinement of `VersionStore` adds to `TreeInv` that two redirects never render alike
(`RedirectsApart`); otherwise which of them opens an address would be a choice,
and a choice may change when a third goes. Then `Opened` changes only from
nothing to something or along with a redirect that yields to a new row.

**`RequestsProofs`.** The invariant adds to `TreeInv` that what a client holds is
a revision that exists, with its path and text (`ClientsOK`), and that an entry
whose path is not the one a revision names was moved after that revision
(`PathsKept`). So a form that finds another document at its address finds one that
came there after the first had moved.

**`PlacementProofs`.** `HandlerOK` says of each step what a handler's variables
mean: a decided location expects revision 0, a retry that found a receipt goes to
its path, the text of a document to be refiled is of the revision looked up.
`FiledAsCalled` relates receipts to calls. The budget needs its own invariant
(`Budgeted`): rows and calls under way together stay within the limit plus the
other handlers, which is inductive where the bound on the rows alone is not.

**`OAuthProofs`.** Tokens of a closed grant are silent because the lookup joins
the grant, so it is enough that a closed grant is revoked (`ClosedAreRevoked`),
whatever is inserted later. That a code issues one family needs `IssueInv`: an
issued pair and a request that holds the code both prove the code spent, and a
grant has one such request or some pairs, never both. `EndedFamiliesStayEnded`
follows from the type invariant. `OnePairPerFamily` and `FamiliesEndTogether` are
proved for clients whose requests follow one another (`OneAtATime`), which is
also what the run assumes; two rotations of one token at once break them. Their
invariant `FamilyInv` says that a request that rotates finds every other pair of
the family spent.

**`MembersProofs`.** The invariant adds to `TypeOK` that a request in a phase
names an actor, a tenant and a target of the right sets (`RequestsAct`), without
which a role could be written outside the table, and that an invitation not made
yet is blank (`BlankInvites`), without which making one could overwrite a spent
one. `Earliest` says that the first of some invitations exists, by the
well-foundedness of strict inclusion. `Settled` collects what a step that is no
sign-in leaves alone. `OneChangeAtATimeKeepsAnOwner` is about the property that the
run `MembersLastOwner` refutes: it holds of every behaviour in which no two
requests are at once between asking the guard and acting on it
(`ChangesFollowOneAnother`), where deleting an account counts as well as setting a
role and removing a member; so the overlap is the whole of that defect. Its
invariant `OwnerInv` says that what a request asked is still so when it acts.

**`SignInProofs`.** To `TypeOK` it adds whom a request is for (`Attributed`), what
a callback that came through a replaced link can no longer learn (`Checked`: every
link is a new one, so it is never current again), and which request of a
browser may still replace its session (`Single`): of a browser whose sign-ins
never overlapped one only, the session it will end is the one in the cookie
unless the browser signed out, and once it has ended that one no other is live.

**`StartupProofs`.** `Knows` lists for each statement of a boot what the
statements before it have established for good (`AfterRole`, `AfterSchema`,
`AfterOwner`, ...), and that only the holder of the lock is between reading the
version and applying the next migration.

**`ReadersProofs`.** `LookupsMissNothing` rests on a property of the tables,
`LeadInv`: a redirect leads from the path of a page or an image to a row of that
kind, so one of the two paths of an address has redirects and the other, a
directory, has none. `LookInv` then says of each
statement of a lookup where a document that opened the address all along can
still be: not at a candidate already tried, unless it arrived there, which
`steady` notices. The key step is `LooksWhileWritten`: a write that takes the
document from a place not yet tried leaves a redirect that is tried later, because
the redirects come after both places (`StatementsOf`). `TagInv` says that the tag of a
request that is about to read the body is a revision its document had at the
path the body is read from; histories only grow, so if the tag is still current
the document is still there and is what that read finds. `CrawlInv` relates a
cursor to the rows of the query (`Paging`): whatever was seen has a key up to the
cursor, and whatever was kept and has such a key was seen. `CursorDivides` is the
lemma about one page: its last key separates it from the rest. The grammar is a matter of shapes: `ValidShape` and
`DirectoryShape` say what a valid spelling looks like, `PageAnswers`,
`DirectoryAnswers` and `FileAnswers` what the order of `serveContent` makes of the
addresses of each kind. Their assumption `GrammarAssumption` is what the code
fixes: no extension is both a text and a binary one, none of them is the page
suffix, and `search` is reserved.

**`TheLimiterKeepsItsLimits`** (in `SignInProofs`) is about every sequence of calls,
by induction on its length: `LimitInv` says that a bucket counts the calls of
its window (`BucketFits`) and that recorded windows of one client are at least a
minute apart; a sweep only removes buckets whose window is over (`SweptFits`). Two windows touch a minute, so
twice the limit passes (`LimitsTwice`); a refused call is one of more than
`PerMinute` calls of one window, all within a minute (`LimitsPatient`). The
induction is over a set of numbers (`StepByStep`, from the well-foundedness of
strict inclusion), since the library's schema takes an operator; `LimitersExist` shows that
the recursive function `After` is defined for every sequence.

**Only model-checked.** Liveness (`RequestsEnd`, `InstallationComesUp`), which is
outside the prover's reach: every invariant and every action property of the
passing runs is stated by a theorem.

## Also seen while modelling

Places where the code and its documentation differ, or where a step is not what
a reader expects, with no run of their own.

- Move and Delete retain one more copy and call no `checkRetainedQuota`
  (`fs_change.go:104,186`, `docs/SETUP.md:104`); Restore of an asset asks no asset
  quota (`fs_change.go:292`); Move sets the size of an asset to 0
  (`fs_change.go:109`, `docs/SETUP.md:103`); an upload is counted in its blob and
  again in its revision (`asset.go:173`). `TreeWithinQuota` is therefore about
  pages and directories only.
- A new entry takes a path left by a move, and the redirect goes
  (`docs/FORMAT.md:178`).
- Two refreshes of one token at once both rotate it (`credentials.go:513,532`,
  `docs/MCP.md:45`), and a family revoked between the two transactions of a
  rotation still receives a pair (`credentials.go:541`). Registrations that count
  together exceed the daily limit (`docs/MCP.md:196`).
- An owner who deletes the account after another owner's guard counted two leaves
  the organization without one when that guard's update follows
  (`members.go:238`, `user.go:401`): not only two demotions overlap.
- A request of a member who is removed meanwhile keeps the token it creates
  (`credentials.go:215`). An account with revisions in another organization
  cannot be deleted (`user.go:416`, `docs/RUNBOOK.md:74`). Two first sign-ins of an
  account without a site both found one (`user.go:180`).
- An identical retry of `tmp_write` that named a revision, where tmp decided the
  location, is refused as a mismatch (`docs/MCP.md:54,80`): the antecedent of
  `RetriesReachTheFirst` leaves it out. `docs/API.md:91` calls the path of a
  suggestion always free; `organize.go:435` compares source paths, not rendered
  ones. A model call that is cut off with its request leaves no row.
- Resolve runs several statements, so a document moved away and back meanwhile
  may be missed; `LookupsMissNothing` leaves out addresses at which a document
  arrives during the lookup. A page read right after a move is resolved at one
  path and read at another and answers 404 (`docs/API.md:51`). The cursor of a
  history is a path and a number, and after a move may go on in another document.
- `/search.json` is a valid path that the search answers (`content.go:117`), and a
  file `/x.json` stands before the JSON form of `/x.md` (`docs/API.md:41`).
- The sign-up link is checked a statement before the account is made
  (`instance.go:73`). The login state is read and then marked; that it is used
  once is the provider's doing.
- `main.go:103` says the environment wins over the stored model key, the resolver
  that the stored one does. A slow old instance that still boots may set the
  previous password again.
- The limiter admits up to twice its limit in a minute across two windows.

## Not modelled

- Rendering, link rewriting and front matter (`platform/render`): pure text
  processing over a Markdown library; `Content` takes what it needs of them as
  constants.
- Values and site configuration (`siteconfig.go`, encodings): validation of one
  value at a time; which sources pass is the constant `Accepted`.
- Row-level security, HTTP headers, metrics, logging, configuration parsing,
  templates and the public site: no state of their own. PostgreSQL, goose, the
  identity provider and the model provider are external and appear as the steps
  the code sees of them.
- Export and the comparison of revisions, which read once and keep nothing;
  scopes and kinds of principals, which no modelled property tells apart; the
  name of an organization and its own choice whether a model may file, which only
  widen or narrow choices that `Placement` leaves free.

## Plan

Done: everything above. What would extend it, in order of worth: scopes of
principals in `Members`; Export beside writers in `Readers`; DeleteAccount beside
writes and token requests of the same organization, in one composition of
`Content`, `OAuth` and `Members`; in `Startup`, a proof that each boot has a next
statement, the safety half of `InstallationComesUp`.
