# AI Data Access Gateway: a verification project

TLA+ models of the gateway (access decisions, the runtime requests that use them
while administrators edit the control plane, the authentication limiter in memory
and in Redis, the engine cache, the user directory with its organization tree and
imports, the scanned catalog, the pulls from third-party directories), TLC runs over
small instances, and theorems checked by TLAPS for every value of the constants.
Paths below are under `src/adg/` of the repository unless they say otherwise.

## 1. Inventory

The gateway stands between AI agents and databases. An agent holds an API key;
each tool call is authenticated, checked against the policies of the control
plane, run through a connector, masked, audited and answered. An admin console
edits the control plane at the same time. Handlers are synchronous and run in
the worker threads of one process, each with a database session of its own.
PROJECT.json lists every component with its status and every hazard with its
line.

| Component | State | Operations | Talks to | What makes it correct |
|---|---|---|---|---|
| Runtime policy decisions, `policy/runtime.py` | none; reads policies, tags, parents | `check_resource_access`, its batch form, `check_decrypt_access`, field checks, `load_runtime_identity_for_user` | control-plane rows | both read paths agree; default deny; the most specific rule decides; denials only take, decryption never exceeds reading |
| Gateway runtime, `gateway_runtime/tools.py`, `mcp_api/` | locals of a request, one session | `execute_query`, `preview_resource`, `describe_resource`, `list_resources`, `list_datasources`, `list_tags`, `list_resources_by_tag` | policy, SQL guard, masking, connectors, audit | what is served was granted, enabled, masked and on record, whatever is edited meanwhile |
| Masking and decryption, `masking/service.py`, `internal_api/decrypt.py` | decrypt contexts | `projection_rejection`, `apply_to_result`, `/runtime/decrypt` | policy, runtime | a masked cell never leaves in the clear; a marker opens only for its user, in time |
| Policy administration, `admin_api/console.py` | resource, field and masking policies | create, batch, update, group sync, delete | catalog rows (validation) | an edit changes access in the direction it says |
| Catalog administration, `admin_api/console.py`, `datasource_service.py` | datasources, resources, fields, tags, bindings | status changes, annotations, deletions, bind, unbind | policies (cascades), scans | deletion leaves nothing that decides wrongly; rows hang together |
| Metadata scan, `metadata_scan_service.py`, `admin_api/datasources.py` | resource tree of a datasource | `replace_snapshot` | connectors, policies | the catalog is the snapshot, each path once; annotations survive |
| User directory, `directory_service.py` | users, roles, links | create, update, delete | runtime identity | no link outlives its ends |
| API keys, `api_key_service.py` | keys | create, reset, update, revoke | users, authentication | one active runtime key; a reset ends the keys before it |
| Organization tree, `directory_service.py` | nodes with parent, path, depth | create, move, rename, delete | directory | it is a tree, paths follow parents, the root stays |
| Excel import, `control_plane/imports/pipeline.py` | rows under preview | preview, import | directory, organization tree | the import does what the preview said, and touches only what it saw |
| Directory importers, `control_plane/imports/connectors/` | departments and users fetched so far | pull | three platforms, import | nobody is missed, paths are real, the pull ends |
| Authentication limiter, `app/auth_rate_limit.py`, `app/dependencies.py` | a bounded LRU of failure buckets in memory, or a counter and a block per fingerprint in Redis | check, record failure, record success | key lookup | blocks are earned and end; a valid key is never blocked |
| Engine cache, `connectors/runtime_engine_cache.py` | bounded LRU of engines | `get_engine`, `dispose_all` | connectors, shutdown | bounded; no pool is leaked; idle and cold engines go first |
| Connectors, `connectors/` | none | `scan_metadata`, `execute_query` | external databases, engine cache | a snapshot is one; failures are reported |
| SQL guard, `sql_guard/guard.py` | none | `check` | runtime | one read-only statement; all tables and columns found |
| Audit log, secrets, wiring, console, connectors | events, files, settings | record, load, start | all | see PROJECT.json |

What is hard in it: a request reads identity, statuses, rules, parents, tags and
masks in separate statements, so that an admin's commit can fall between any two of
them; masks are read twice, around the execution; the event and the decrypt context
become durable only at the end of the request; the limiter and the cache read the
clock before they wait for their lock; both tables are bounded and evict; the
limiter's other storage is a Redis that several processes share, whose answers are
late or lost; a tag binding is checked and then inserted with nothing in between.
The directory and the catalog have no locks either: what an endpoint checked,
another may have changed by the time it writes, foreign keys are not enforced, and a
scan holds what it read through a long conversation with the database it scans. The
tree of organizations is kept twice, as parents and as paths. A pull reads a
platform page by page while it changes.

## 2. Modules

| Module | Models |
|---|---|
| `RuntimePolicy` | the decisions of `policy/runtime.py`, as operators over rows a caller has read |
| `Governance` | the control-plane rows (`gov`) and the admin endpoints that change them, one action each; EXTENDS `RuntimePolicy` |
| `PolicyDecisions` | properties of decisions under edits; EXTENDS `Governance` |
| `GatewayRuntime` | requests, one action per SELECT, beside the edits of `Governance` |
| `GatewayProperties` | properties of requests, and `PermittedQuery`, the reference of what one content of the control plane permits |
| `AuthLimiter` | `authenticate_api_key_value` in several threads over the in-memory limiter |
| `RedisLimiter` | the same in several processes over the limiter's Redis storage |
| `FailureLimiter` | what a limiter promises per fingerprint; `AuthLimiter` and `RedisLimiter` implement it |
| `EngineCache` | the runtime engine cache |
| `DirectoryTables` | the directory's tables as one value, how a session's objects are flushed to them, and the preview and the import as operators |
| `Directory` | the directory endpoints as requests of several admins; EXTENDS `DirectoryTables` |
| `DirectoryProperties` | what they keep |
| `Catalog` | scans of datasources, deletions and annotations as requests of several admins, and their properties |
| `ImporterPull` | a pull from a third-party directory that changes, and its properties |
| `Maps` | tables and requests as functions, with the `@@` of TLC as `++`, which the provers can expand |
| `GatewayProofs` (with the theorems about `PolicyDecisions`), `EngineCacheProofs`, `RedisLimiterProofs`, `AuthLimiterProofs`, `CatalogProofs`, `DirectoryProofs`, `DirectoryTreeProofs`, `ImporterPullProofs` | theorems |
| `MC*` | instances for TLC |

Operators whose name ends in `_Something` with a comment that starts with
"Mutant:" are plausible bugs of the definition below them. No specification
uses them; they show that a property would notice.

### Correspondence

*RuntimePolicy.* A policy row is a record; identifiers of all tables are
distinct model values, so the one non-null scope column is the value itself and
`Global` stands for none. A policy whose status is not active, or whose action
is not "read", is absent, since the service selects on both columns.
`MostSpecific` is `_matching_resource_policies`, `Level`
`_resource_policy_specificity`; `ScopeChain` is the parent walk, which stops at
the first parent that is gone. `check_resource_access` answers "error" when the
single-resource path raises on a pair bound twice; the batch path does not.

*Governance.* Each endpoint is one transaction and one action, with the
validation it does as its guard; a call that answers 404 or 422 changes nothing
and is no step. `bind_resource_tag` is two actions of an admin session, because
nothing protects the pair between the check and the insert. `update_status`
stands for the update endpoints of resources, fields, datasources and roles;
names and descriptions are left out. Two rows of a table with equal columns are
one member of its set (tag bindings have an identifier, because there it
matters). Creation of users, roles, resources and tags is left to the initial
contents.

*GatewayRuntime.* `pc[q]` names the read or write request q does next, `mem[q]`
holds its locals. Objects a handler already holds are not read again, as in the
session's identity map: `dsStatus` and `held` are such objects, and
`DatasourceStatus` says when the old one is used. Reads the code does one after the
other for the same purpose are one step where an edit between them would give the
outcome of an edit before or after all of them or where the mixture is already
covered by other steps: the ancestors of a resource, the per-field policies of
preview and describe. The declared resources are checked in any order. A SQL text is
reduced to the resources and columns it names and to one of five shapes. A column
has several spellings (`Spelling`), of which the database, which ignores case, takes
each for the column `ColumnOf` gives, and the catalog has one (`Field`). The checks
of field statuses and field policies look a name up as the statement wrote it
(`guard.py:361`, `tools.py:730`, `policy/runtime.py:224`), so that another spelling
finds nothing, neither a status nor a rule; masking casefolds
(`masking/service.py:127`). Resources have one spelling, because a path that matches
none exactly is rejected (`tools.py:582-611`). `connector_execute_query` succeeds,
fails with an audited error, or raises a configuration error. `commit` writes the
event and the decrypt context together. An exception drops the locals; only `ran`,
that the statement was executed, stays, for the properties. `window[q]` is a history
variable: the contents of the control plane committed from the request's start to
its reply.

*AuthLimiter.* Each limiter call is `read_clock` followed, at most `MaxDelay` later,
by the step that holds the lock. `bucket` and the relation `older` are the
OrderedDict, `everBad` and `calm` are history, as is `late`, which counts the
look-ups of a key during one block of it. A bucket whose end its reading has reached
is dead, for windows and for blocks.

*RedisLimiter.* A worker is a process that handles one attempt at a time. A command,
the script included, is one step of the server (`execute`); its answer is in `reply`
until the worker acts on it, so that everything may happen in between. When the
answer is lost (`reply` unchanged) the command may run again, which stands for the
retries of the client library, or `fail` ends the attempt, which stands for an
exception of the library, which `authenticate_api_key_value` does not catch, and for
the death of the process. A key that Redis has expired keeps its value with an end
that has passed. `late` and `everBad` are history.

*EngineCache.* `entry`, `used` and the relation `older` are the OrderedDict; the
order is a relation, not a sequence, so that it can be proved about. `closing`
holds the engines `dispose_all` has taken out under the lock and not disposed of
yet; `touched` is history.

*DirectoryTables and Directory.* A request is a list of steps. The default
database is SQLite: SELECTs before the first INSERT, UPDATE or DELETE of a session
take no lock, so that each is a step of its own, and from the first write to the
commit the session holds the write lock, so that all of that is one step,
together with the SELECTs in between. `sess[a]` is the session: the arguments and
the objects it has loaded, which the identity map does not load again. At a flush
only the columns that changed since the load are written (`Flushed`), a dirty row
that is gone raises (`Stale`), and so does a broken unique constraint (`Unique`);
the request then fails and leaves nothing. Ids are handed out by one counter. A
path is the sequence of its segments: "/" joins them, which the console always
uses and an import by default; `Alike` is what LIKE does with names that hold
wildcards or differ in case. Left out are names, e-mails, descriptions, the code
and status of nodes, and depth, which changes with the path; the status of roles
is in `Governance`. `select_parent` inserts a missing root, from where the
request is one write. `walk` is one turn of `_is_descendant`. A parent that
vanished after the 404 check makes a node without parent, as in the code. `past`
is history: which rows went while requests overlapped (`raced`), which users had
two resets at once (`clashes`), what happened to the tree that its upkeep does
not allow for (`upset`).

*Catalog.* The same steps, with `live` as the scanned databases, which their own
users change. The relational connector reads relations, then the columns of
each, and fails for one that is gone; Doris reads both lists by a query each, and
a relation dropped in between has no columns. `replace_snapshot` writes all in
one step from the rows loaded before; a loaded row keeps what the scan does not
write. Kinds, names, data types and the descriptions of fields are left out (the
last work as those of resources do), and nodes of the schema level are paths like
any other. `rules` are the resources that have a policy, a mask or a tag. The
databases to start from are ones the endpoints leave (`SeedsAssumption`): ids
handed out upwards, and each resource under the row of the path above, which
`replace_snapshot` sees to by writing databases before schemas and relations; the
snapshot it walks holds the databases and schemas of its relations
(`SchemaAssumption`).

*ImporterPull.* One action per HTTP request, with `remote` as the platform. A
department or a person is a number, by which the platforms list them; a page of
Feishu continues after the last item given, one of DingTalk at an offset, WeCom
has no pages. A department has a number of letters (`Letters`), so that the path a
user is given is the longest as a string (`Width`, `dingtalk.py:252`,
`feishu.py:321`), which need not have the most segments; which of several equally
long ones is taken is left open. The recursion of
`build_path` has a value only if the recorded parents have no cycle, which
`Cycles` decides before. Roles, malformed rows and blank ids are left out, and so
is a payload given in the configuration in place of a pull. `seen` is history:
which departments were above the root when the pull began (the root among them),
who was where all along, which departments moved, whether somebody left.

## 3. Runs

| Run | Instance | Shows |
|---|---|---|
| `policy_decisions` | database, schema and table, one user with a role, one tag, six rules at all levels and with all three kinds of effect, or five field rules on one column for a user, a role and everyone; every one, and every one left out, of either as the start; two edits, two admins | the listing agrees with the single-resource path; decryption implies reading; adding denials and removing allow rules never grants; less specific rules never move a decided verdict; a column opens to a caller only by an allow rule for him, the end of a deny rule for him or the end of all rules on it |
| `gateway` | schema, table and view, one column, one user with a role, five contents, thirteen requests of all kinds (one names the column in another case), one edit at any moment, one tick, the process stopping anywhere | whatever is served was granted (`ServedOnlyWithGrant`), not denied (`StandingDenyHolds`), not disabled, field rules hold for columns named as the catalog does, masks in every case, replies are on record, undisturbed queries are exact, decryption is in time |
| `auth_limiter` | two threads, two keys, one client address or none, a table of two buckets, two failures to block, four attempts, two ticks, one key change | a valid key passes; a block lets through at most one look-up, of the other thread; a live client is not evicted by its keys; the refinement of `FailureLimiter` |
| `redis_limiter` | two processes, two keys, one client address or none, two failures to block, a block longer than a window, three attempts, two ticks, one key change | the refinement of `FailureLimiter`, with no delay of the clock and room for every fingerprint; a block lets through at most one look-up per other process; a key that was valid all along is not refused, whatever its peers do |
| `engine_cache` | two threads, three datasources, a cache of two, four engines, three ticks | bound, ownership of pools, idle expiry, choice of the evicted entry |
| `directory` | two admins, three requests; the root and a node, a user with a role and a key, two role names, two references, two batches; or a root with two children and a grandchild, names of which LIKE takes one for another, moves and renames, an import | keys that are reset end; a second runtime key or a dangling reference needs two requests that overlap; imports do what the preview said and leave alone what changed under them; a forest whose paths follow the parents, and the end of every walk |
| `catalog` | two admins, four requests, two datasources, one of them Doris, one change of a database, an empty and a scanned catalog | the catalog is the snapshot; annotations survive scans; which races leave rows without their owner |
| `importer_pull` | three platforms, four departments with names of two and of seven letters, as three different trees (one a chain, so that there is something above the root), three configured roots, three persons, pages of one, two changes | nobody who stayed is missed, but for one membership for each who left DingTalk meanwhile; everybody is placed at one of his departments and never above another of them, and their recursion ends unless the root or what is above it was moved; the pull ends |
| `upper_denial` | as `policy_decisions` | violation, below |
| `gateway_audit` | schema and table, one query, masking policies that can be written | violation, below |
| `one_runtime_key` | as `directory`, two requests | violation, below |
| `root_is_fixed` | as `directory`, nodes that were imported, two requests | violation, below |

Because a request reads at different moments, nothing relates its outcome to one
content of the control plane: a request that starts under one policy set and
ends under another may mix them. The properties of requests therefore speak of
the window. What is served was allowed by a rule, to a role, over an ancestor
and a tag that were each in force at some moment of the request (the safe side
of default deny); what was denied, disabled or masked during all of it never
comes through; and with no edit during a query its checks decide exactly what
`PermittedQuery` says, in both directions.

**A limit of the field checks.** `SELECT EMAIL` on a column `email` that is denied
or disabled passes the checks of the gateway and reads the column, wherever the
database ignores the case of column names. The model does this too: the call with `F`
in the `gateway` run is allowed by rules that deny `f`. `StandingFieldRuleHolds`
therefore speaks of columns named as the catalog does, and `QuietQueriesAreExact`
judges what was let through by the rules on those names only; without this
limit TLC finds both violated. What was refused is judged by the columns the names
stand for. `StandingMaskHolds` needs no such limit: its mutant looks a mask up as
the statement wrote the name, which the code does not.

**Bounds.** One request slot is enough for the properties of requests: requests
share only the audit table and the decrypt contexts, each writes its own row once,
and no property relates two of them; a decrypt request uses a context of an earlier
one (`old`). One edit between any two reads already separates every pair of reads.
The starts of `policy_decisions` leave out sets of other sizes, which two edits, one
of which may be a batch, reach. `edits`, the clock and the attempts are bounded,
after which the models stop, so that the runs do not check for deadlock; no action
of the code waits for another except for a mutex that it holds within one step. A
table of two buckets with two keys and a client overflows at once. Trees have three
levels because the scan builds no others; `TreeDepth` states it. Two processes over
Redis are one that sets a block and one that is past its check; with two failures to
block, a counter never grows past one, and its window is that of its only failure:
for more failures there is the proof. With two failures to block, a block and a late
look-up take three attempts in two threads; the fourth is the one that a laxer check
would let through as well. Admin sessions in `policy_decisions`, threads, processes
and keys in the limiters and in `engine_cache`, and engines are symmetric; no
symmetry is used with the temporal formulas except action formulas and the
refinement, which are invariant under it.

Two admins and three requests in the directory are enough for every race of two
requests with a third before or after them, whose effect the properties would
see (a reset during a reset and an import after both; a move during a move and a
walk after both). Each of the two directories is asked only what concerns it
(`MCAsks`), and the first idle admin makes the next request, since admins are
interchangeable. The catalog has a fourth, for a scan before and after two that
race. A pull is one request, and the platform changes only while it runs: earlier
changes are other platforms to start from. Two changes are enough for somebody to
leave a page that was read and for a department to move twice. Where a property
has exceptions ("unless two resets overlapped"), each was checked to be needed:
without it, TLC finds the property violated.

**Fairness.** A handler runs in a thread of its own, and nothing it waits for
depends on another request, so that a directory request that has begun takes its
next turn of the ancestor walk (`WF` of `walk`), and a pull its next request (`WF`
of `Pulling`; every call has a timeout). Nobody has to make a request, change a
platform or write. `WalksEnd` shows the end of the one loop of the directory, the
ancestor walk, as long as the committed nodes are a forest, and `PullEnds` that of
the paging and the walk of departments, under a platform whose answers are true: a
service that promises more after an empty page would keep DingTalk's loop going. The
gateway's handlers have neither wait nor loop, and no liveness is stated of them.

**Violations.**

* `upper_denial`:
  `docs/superpowers/specs/2026-04-23-ai-data-access-gateway-v1-design.md:459` says
  that upper-level denial cannot be overridden by lower-level allow rules.
  `_matching_resource_policies` keeps the most specific rules only, so that an allow
  on a table overrides a deny on its datasource. `SpecificRuleShields` is what the
  code guarantees instead.
* `gateway_audit`: `docs/superpowers/memory/modules/milestone-3-mcp-runtime.md:30`
  asks for an audit event for every execution. `apply_to_result` raises on a
  masking policy whose strategy no code implements, which the admin API accepts,
  after the statement has run and before the event is recorded.

* `one_runtime_key`:
  `docs/superpowers/specs/2026-04-26-user-directory-runtime-identity-redesign.md:135`
  says that a user may have only one active runtime key at a time. Two resets of
  one user's key that overlap both revoke the old key and each leave a new one.
  `OneKeyUnlessResetsMeet` says that nothing else does.
* `root_is_fixed`: `tests/integration/test_admin_directory_api.py:454` expects that
  the root of the organization tree cannot be deleted. An edit of its status alone
  passes the guard of `update_org_node`, which then gives it a path of its name,
  and `delete_org_node` takes it for an ordinary node (imports leave top-level
  nodes without parent, so that it has no children).

`docs/superpowers/memory/modules/milestone-3-mcp-runtime.md:50` still describes a
gateway that is open while no policy exists; the code denies, and the models
follow the code.

## 4. Proofs

TLAPS checks the following for every set of resources, users, rules, requests,
threads, admins and so on. The assumptions are the named ones of the modules:
`ResourceTree`, `NamesAreDistinct`, `TreeDepth`, `RowsAreRows`,
`GatewayConstants`, `CacheSettings`, `LimiterSettings`, `RedisSettings`,
`CatalogAssumption`, `SchemaAssumption`, `SeedsAssumption`, `DirectoryAssumption`,
`PullAssumption`.
They say that the
constants are of their kinds, that settings are what their validators admit, and
that the initial contents are ones the program can have made. TLC evaluates each
of them in a run, and it checked every inductive invariant below on an instance
before it was proved.

**Decisions.** `GatewayProofs` begins with the properties of `policy_decisions`. The
lemma `BatchVerdict` reduces the batch path to the rules that apply (tags no
policy names cannot matter), the lemmas on `MostSpecific` say what an added or a
removed rule does to the deciding ones: adding a denial can only raise the level
or add a denial to it; removing an allow rule that hid coarser rules leaves a
resource readable only if it was. `GovernanceTyped`: every edit keeps rows in
their tables.

**Requests.** `GatewayProofs` proves all properties of `GatewayProperties`, from
invariants each of which contains the one before.

* Types. `TypeOK` alone is not inductive: that a
  committed event names a decision rests on every path to "commit" having
  recorded one. `Typed` adds that conjunct. The runs leave out this `TypeOK` and
  that of `EngineCache`, which are proved; TLC agreed with both before.
* What is reached. `GrantInv` follows a request: what its locals hold comes
  from some content of the window, and includes whatever has been there all along
  (`Seen`); which kinds of request reach which place (`Routed`); that nothing ran
  or was answered early (`Unanswered`); and that all declared resources but those
  still on the list have a grant and no standing objection (`Checked`). An
  allowing verdict on what was seen is a grant (`ReadGrants`, `DecryptGrants`),
  and a grant is never lost, since windows only grow (`GrantedGrows`), so that
  the edits of others disturb nothing: `OnlyGrantedIsServed`. A deny rule that
  stood throughout is in every read of the rules, and so are the role, parent and
  tag it applies through; being no less specific than what else was read, it is
  among the deciding rules: `StandingDenyIsFinal`. `StandingDisableIsFinal` is
  the same of statuses.
* What is shown and recorded. `OutcomeInv` adds what the checks so far have
  established of the columns (`Placed`): none that is disabled or denied all along
  is left once the fields were checked, and once the projections were, each can
  carry a mask that is in force all along, in whatever case it is written; what the
  result shows (`Outcome`); and what is committed of it before the reply
  (`OnRecord`). `StandingFieldRuleIsFinal`, `StandingMaskIsApplied`,
  `EveryReplyIsOnRecord` and `DecryptionIsInTime` follow. Of a column in another
  spelling the field checks establish nothing (`UnknownNameOpen`), which is why
  `StandingFieldRuleIsFinal` speaks of `Field` only. For
  `QuietQueriesDecideExactly`, `ExactInv` compares every local of a query whose
  window is one content with what `PermittedQuery` computes from that content, at
  each place; a query with two contents in its window owes nothing.

**The tables with a lock.**

* `EngineCacheProofs`. `TypeOK` (the order stays a strict total order of the
  cached keys), `CacheBounded` and `NoPoolForgotten`, from one invariant; the
  bound needs that exactly one key is the oldest of a non-empty finite order
  (`FirstExists`, from the library's theorem that strict inclusion of finite
  sets is well-founded). `OnlyIdleEnginesExpire` and `ColdestIsEvicted` are about
  steps and need `Timely` as well: the entries are ordered by when they were
  asked for (`touched`), which `last_used_at` lags behind by a thread's wait at
  most, and no reading of the clock is from the future.
* `AuthLimiterProofs`. `LimiterInv` says that the buckets are totally ordered and
  within the capacity (`LimiterInOrder`), and where in an attempt a thread can be.
  `MemoryImplementsLimiter` maps a bucket to the state `FailureLimiter` keeps of
  its fingerprint; an eviction is a step of the abstract limiter too, that of
  forgetting, and all else that happens to other buckets is a stutter of them.
  `ValidCredentialIsAccepted` rests on `Trusted`: no bucket is ever kept for a key
  that was valid all along, whatever is counted against its client. A thread's
  reading may be older than the block it meets, and the block holds all the same.
  A thread that passed its check before can still look the key up:
  `LateLookupsAreBounded` says how often, from `LateInv`, a count as below: while a
  key is blocked, the look-ups made and the attempts past their check are together
  fewer than the threads. `ClientOutlivesItsKeys` rests on `Undisturbed`:
  between the two records of one attempt the client's bucket is the last in the
  order, so that the first, which is evicted, is another as soon as there are two.
* `RedisLimiterProofs`. All three properties of `RedisLimiter`. The refinement
  rests on `RedisInv`: a fingerprint that has a counter is not blocked
  (`OneOrTheOther`), which the script sees to by deleting the counter when it sets
  the block, in one command; so the mapping may read a fingerprint's state from
  whichever of its two keys exists. The bound on look-ups needs a count
  (`LateInv`): while a key is blocked, the look-ups made and the processes that
  are past its check are together fewer than the processes, because the one whose
  failure set the block is past no check then, and nobody gets past it later.
  That valid keys pass needs that all that is held against a key, by the store, by
  a process or by an answer on its way, is held against one that was invalid at
  some moment (`BlameInv`).

**The catalog.** `CatalogProofs` proves all three properties of `Catalog`. A scan
writes from rows it loaded some commits ago, so that the invariant (`CatalogInv`)
has to say what may have become of them: `LoadedOK` (a loaded row that is still
there has its path and its datasource, and its parent if that is still the row of
the path above; ids of rows that are gone are not handed out again), which holds
after the SELECT and survives every commit of another request, because commits
only do what `Evolves` allows. `Scanned` is what a scan leaves then: the ids of
the snapshot are different ones (`SeenIdsAreIds`), a path keeps its row, what is
not in the snapshot goes with its fields, and every parent that is there is the
row of the path above. Hence `ScansLeaveTheSnapshot`, with two scans of one
datasource at once; `NothingElseDangles`; and, of the step itself,
`ScansAreCareful`.

**The directory.** `DirectoryProofs` proves `TypeOK`, `RetiredKeysStayRetired`,
`OneKeyUnlessResetsMeet`, `ReferencesHold` and `ImportTouchesOnlyWhatItSaw`, for
any number of admins and requests and any files. The invariant (`DirectoryInv`)
has a part for every request in progress: what it was asked for (`AskedOK`: a
row it names exists, or went while requests overlapped), and, by the steps it has
done, what it knows (`Found`). The subtle one is the reset of a key, whose write
retires the keys it has loaded: they are all that is left of those of its
beginning, and all there are unless a second reset of the user was under way;
what others committed since can only have taken keys away (`KeysOnlyFade`), or
added some to users that are new. Reads need only that a step adds to what the
request knows. Commits are reduced to what they do to the tables (`Changes`), and
`CommitKeeps` shows once that such a change keeps what every other request knows.
The write steps then show that theirs are such changes. An import folds over the
rows of its file, the segments of their paths and their roles, as recursive
functions in `DirectoryTables`; the proof is an induction over how many of them
are done (`NatInduct`, stated with sets): after each, the tables, and the rows the
pass has seen or made, refer only to rows that are there or went in a race
(`PassOK`), and only users seen disabled have been enabled (`StatusOK`).

**Preview and import.** `ImportsAreAsPreviewed` compares two operators and two
passes over a file, for every file and on all tables that requests can leave. The
invariant of a first pass (`PassMade`) says after i rows what those rows have made:
the paths, names and references in the tables are those from before and those of
the rows, the nodes and roles reported are the difference, an action is an update if
the reference was there or came earlier in the file, and a user is as the last row
with his reference says (`Said`). The preview, which looks at the tables only, is the
same difference (`PreviewNodesAre`, `PreviewRolesAre`, `PreviewActionsAre`). After
such a pass all that any row names is there (`Familiar`), so that a second pass makes
nothing and changes only users of the rows done (`PassAgain`); when it ends they are
as their last rows say, which they had been before, because paths, role names and
references are unique (`AgainSame`).

**The organization tree.** `DirectoryTreeProofs` proves `MovesKeepForest` and
`PathsFollowParents`, for trees of any size. The invariant (`TreeInv`) says that
the tree is sound as far as what happened to it allows (`Sound`, which includes
that no node but the root and those next to it is without a parent), and that
while requests on nodes have not overlapped, each of them knows the tree as it is
(`UpToDate`). For a move the subtle part is the walk from the new parent up: in
every set of nodes that the new parent is in, and whose members other than the
moved node all have their parents in it too, the walk is still inside
(`Walking`); when it has come to a node without a parent, there is no such set,
and those are what a cycle through the moved node would make (`NoLoop`,
`MoveForest`). What is rewritten below the moved node is the same subtree whether
it is found by parents or by paths (`UnderChild`), and swapping the first segments
of two paths keeps one the other's child (`SwappedChild`, `MovePaths`). That LIKE
takes every name for itself, which `DirectoryAssumption` states, is what makes
sure that none below is missed; those it finds besides are the exception
"alike". Insertions and deletions of one node (`GrowSound`, `PruneSound`) are the
rest, and an import is an induction over insertions (`TreePass`).

**The pull.** `ImporterPullProofs` proves `MembersFound` and `PathsAreReal`, for any
number of departments, persons and changes, and any page size. The paths of a tree
are values of recursive functions, about which nothing can be proved by induction
over the tree; the proofs use sets that are closed under taking the parent instead
(a department is below the root exactly if every such set with the department has
the root in it), and that every nonempty set of departments of a tree has one whose
parent is outside. The invariant (`PullInv`) says that recorded parents lead to the
root (`Recorded`), what of the tree has been recorded, visited and queued
(`Walked`), whom the lists of users have had (`Met`: of those who stayed, no more
are passed over in lists already read than have left DingTalk, since one who leaves
shifts the rest of a list by at most one, and ranks in a list differ), and, while
nothing has changed, with which departments (`Unchanged`). Pages are reduced to what
they have had up to a continuation (`Before`): a page adds to it all that stayed,
for Feishu whatever came or went in between, for DingTalk as long as nobody left
(`Continues`). A path is a string of `Width` letters; a proper prefix of it has
fewer, so that the longest of a person's paths is above none of the others.

This attempt refuted an earlier form of `PathsAreReal`, which excepted only that the
configured root itself is moved. A department below the root can be recorded, then
be moved out, and then one above the root be moved under it: the chain of parents
recorded at different moments closes, and `build_path` recurs for ever though the
root kept its parent. The small instance had nothing above a root, so that TLC could
not meet it; the property now names what was above the root (`seen.above`), and the
instance has a third tree.

Only model-checked:

* Liveness, `WalksEnd` and `PullEnds`: fairness and `ENABLED` are out of the
  provers' reach.
* The four violations, which are what TLC finds.

## 5. Not modelled

* The settings switch between the limiter's storages, and the admin scope checks.
* A Redis that loses its data or fails over to a replica, and a command that
  reaches it after its client has given up.
* A database that minds the case of column names: where two columns differ in case
  only they are two columns to the checks too; where not, the other spelling is an
  error. Field policies stored in another spelling than the catalog's, which the
  admin API does not compare with the catalog.
* The text produced by mask strategies (a partial mask with `suffix` 0 keeps the
  whole text, `masking/service.py:158`, which `StandingMaskHolds` counts as masked),
  the encryption of markers, SQL parsing, URL building and name resolution of
  connectors.
* Ambiguous table paths, `list_datasources`, `list_tags`,
  `list_resources_by_tag`.
* Row values that are null or malformed JSON; creation of datasources and tags.
* Decryption looks at no statuses in the code, so `StandingDisableHolds` leaves
  it out; a preview or describe is answered for its one resource.
* Service keys, which have no user; validation of raw import rows; delimiters
  other than "/"; `list_org_nodes`, which makes a missing root in a session it
  never commits.
* Databases other than SQLite with foreign keys off (the default of
  `control_plane/db.py`): with PostgreSQL the writes of two requests could overlap
  statement by statement, and a foreign key would refuse some of them.
* What the preview announces of a reference that a file names twice, where it
  counts a creation for each.
* The path of a WeCom user in several departments, which joins all their paths
  into one; no document says what it should be.
* Whatever PROJECT.json lists as not modelled, with the reason.

## 6. Plan

In order of importance; the first eleven are done.

1. `RuntimePolicy`, `Governance`, `PolicyDecisions`: decisions and edits. Done,
   with proofs.
2. `GatewayRuntime`, `GatewayProperties`: requests under edits. Done, with all
   properties proved.
3. `AuthLimiter` implementing `FailureLimiter`. Done, with its properties and the
   refinement proved.
4. `EngineCache`. Done, with its properties proved.
5. The two disagreements with the documents. Done.
6. `Directory` with `DirectoryTables`: users, roles, keys, the organization tree
   and imports, by several admins at once. Done, with all proved but liveness.
7. `Catalog`: scans against each other and against edits. Done, with its
   properties proved.
8. `ImporterPull`: pulls from the three platforms. Done, with its safety properties
   proved.
9. `RedisLimiter` implementing `FailureLimiter`. Done, with its properties proved.
10. The outcome of requests: standing rules, records, exact decisions. Done.
11. Proofs about the organization tree. Done.
12. The remaining tools of the runtime, and mask strategies over bounded texts.
