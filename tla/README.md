# A TLA+ model of ALTRepo API

ALTRepo API is a Flask service over a ClickHouse database of packages, tasks,
errata and vulnerabilities.  Most of its endpoints turn one SQL query into JSON
and keep no state.  What is worth a model is

- the **token storage**: a JSON file guarded by a lock file, or Redis, shared by
  all workers;
- the **authentication** built on it: refresh sessions, the blacklist of access
  tokens, the cache of user roles;
- the **management** endpoints, which read, check and then change the database or
  call the Errata Server, by several statements that other workers come between;
- the **requests that compute** an answer: the state of a branch as a task found
  it, the packages a build or a backport needs, the vulnerabilities of a package,
  build orders, file conflicts, pages.

All four are modelled and checked here. Every invariant and every action property
that a passing run checks is proved, too, for all values of the constants.

Paths below are relative to `src/altrepo_api/`.

## Inventory

| Component | State it keeps | Operations | What is hard about it |
|---|---|---|---|
| `FileLock` (`api/auth/token/file_storage.py`) | the lock file; per process the flag `_is_locked` and the descriptor `fd` | `_acquire`, `_release`, `__enter__`, `__exit__` | several processes, threads that share the object, killed processes, a timeout |
| `StorageHandler` (same file) | the JSON file; per process `self.storage` | constructor, `get`, `set`, `delete`, each with `_load_file`, `_remove_expired`, `_save_file` | a save truncates before it fills; two saves in one call; records cached in memory; failing saves |
| `FileStorage`, `RedisStorage` (`file_storage.py`, `redis.py`) | mappings with an expiration time | `delete`, `map_get`, `map_getall`, `map_set`, `map_delete` | two storage operations in one method, other workers in between |
| login (`api/auth/endpoints/auth_login.py`) | refresh sessions of a user | `post` for LDAP and Keycloak | count, wipe and add are three storage calls |
| logout (`auth_logout.py`) | sessions, blacklist, Keycloak's sessions | `post` | decides at its end on what it read at its beginning; Keycloak may fail in the middle |
| refresh (`refresh_token.py`) | sessions, blacklist, Keycloak's sessions | `check_params`, `post` | the old token dies before the new one is there |
| token check (`decorators.py`, `token/token.py`, `token/user_roles.py`) | blacklist, cached roles | `token_required`, `AccessTokenBlacklist`, `UserRolesCache` | marks and caches with expiration times of their own |
| credentials (`api/auth/auth.py`, `keycloak.py`) | none | `check_auth_*`, `find_max_ranked_group*` | external services |
| database connection (`database/connection.py`) | `connection_status`, the client | `_connect`, `send_request` | reconnects with pauses; a statement is sent once |
| worker base (`api/base.py`) | status and error of the last statement | `run_worker`, `store_error`, `send_sql_request` | an error left over from an earlier statement |
| vulnerability status (`api/management/endpoints/vuln_status.py`) | versions of a status in the database | `get` (which stores too), `post` | read, check, insert by several workers |
| default reasons (`default_reasons.py`) | reasons in the database | `post`, `put`, `delete` | look up, then insert |
| comments (`comments.py`, `common/comments_transaction.py`) | comments and change records | `post`, `put`, `delete` | two inserts that are not one; reply chains |
| SA errata (`sa.py`, `libs/errata_server/errata_sa_service.py`) | errata in the Errata Server | `post`, `put`, `delete` | list, check for overlaps, create: two remote calls |
| errata, CPE, PNC (`errata.py`, `cpe.py`, `pnc.py`) | none of their own | one remote call each | lost answers |
| Errata Server client (`libs/errata_server`) | an HTTP session | `get`, `post`, `put`, the serializer, `Result` | lost answers; a call is sent once |
| errata refresh (`errata_refresh.py`) | none | `revert_patch`, `classify` | calls one after the other |
| repository state of a task (`api/task/endpoints/task_repo.py`) | none; reads tables that others fill | `build_task_repo`, `build_repo_state` | the chain of tasks, the snapshot below it and the plans are read one after the other |
| task history (`api/vulnerabilities/endpoints/common.py`, `api/errata/endpoints/oval.py`) | none | `_get_task_history`, `_branch_tasks_history` | branches forked from branches, lists cut and compared |
| build dependency set (`libs/package_dependencies.py`) | temporary tables, the sets so far | `build_set` level by level | one level for all source packages, several providers, cycles |
| backport helper (`api/dependencies/endpoints/backport_helper.py`) | temporary tables, the names so far | `get` level by level | names looked up once, cycles |
| vulnerability fixes (`api/vulnerabilities/endpoints/common.py`) | none | `matcher`, `get_vulnerability_fix_errata` | records that take the place of others |
| build order (`libs/dependency_sorting.py`, `api/package/endpoints/pkg_build_dependency.py`) | none | `SortList`, `Graph` | cycles; a dictionary that is changed and used again |
| file conflicts (`api/package/endpoints/misconflict_packages.py`, `libs/conflict_filter.py`) | none | `find_conflicts`, `ConflictFilter` | rows changed while they are gone through |
| pagination (`libs/pagination.py`), sorting (`libs/sorting.py`) | none | `Paginator`, `rich_sort` | boundaries |
| read-only endpoints (`api/*`) | none | SQL to JSON | nothing a state machine would show |

How they interact: `bin/altrepo-api` starts gunicorn with `WORKER_PROCESSES`
synchronous workers, one thread each, and `--timeout WORKER_TIMEOUT` (30 s by
default); the arbiter kills a worker that misses it and forks another one.  The
module `token.py` makes one storage object for the program.  Every protected
endpoint is wrapped in `token_required`; login, logout and refresh call the
same storage.  `python -m altrepo_api` runs Flask's own server instead, whose
requests are threads of one process.

## Modules

    FileLock ------------------.
                               +--> StorageHandler --> MCStorageHandler
    StorageRecords ----.-------'        |  implements
                       '--> RecordStore <
    MapStorage --.--> MapClients ----> MCMapClients
                 '--> AuthSessions --> MCAuthSessions
    Requests --> VulnStatus, DefaultReasons, Comments, SaErrata
                      '--> Management --> MCManagement
    TaskRepo, TaskHistory, PackageDependencies, BackportHelper, VulnFixes,
    DependencySort, Misconflict, Pagination --> Queries --> MCQueries

    proofs: StorageHandlerProofs (with FileLock), MapClientsProofs,
            AuthSessionsProofs --> AuthTokensProofs (AuthSessions),
            ManagementProofs,
            TaskRepoProofs, LevelsProofs (PackageDependencies, BackportHelper)
                --> QueriesProofs (Queries and the other requests)

| Module | Models | State and code |
|---|---|---|
| `FileLock` | class `FileLock` | `lockfile` is the file, `isLocked[p]` and `fdOpen[p]` the attributes of the object of process `p`, `lpc[t]` the place of thread `t` in the code, `waited[t]` its polls; `creator`, the thread that created the lock file, is a history variable. One action per system call or access to a shared attribute: `Enter`, `OpenLockFile`, `Poll`, `TimeOut`, `SetLocked`, `Exit`, `Close`, `Unlink`, `ClearLocked`; `Kill` and `Fork` are gunicorn's. |
| `StorageRecords` | the records and what the methods do to them in memory | `Create`, `Update`, `RemoveExpired`, `DeleteRecord` are `_create`, `_update`, `_remove_expired`, `_delete` without the save. |
| `RecordStore` | what callers of the handler rely on | an abstract store: every call takes effect at one instant between call and return, or fails without effect; expired records may vanish at any time. |
| `StorageHandler` | class `StorageHandler` over `FileLock` | `disk` says whether the file is missing, torn or whole, `file` what it holds, `memory[p]` is `self.storage`. A save is two steps, `Truncate` and `Write`; a kill may come between them. |
| `MapStorage` | `FileStorage` and `RedisStorage` | `store[n]` is a mapping with its time of update and expiration; a method with two storage operations stops between them (`mpc`, `arg`, `snap`). `raced` records that the second operation found changed what the first relied on. |
| `MapClients` | callers that use the storage in any order | `kept` and `removed` are what the returned calls have promised; `overlap` excuses calls that were concurrent on the same field. |
| `AuthSessions` | login, logout, refresh and the token check over `MapStorage` | `apc[w]` is the place of worker `w` in its request, one step per storage operation or call of Keycloak; `token[a]` is the payload of an access token, `keycloak` the sessions open there; `revoked`, `loggedIn` (the refresh tokens that logins have answered with) and `loggedOut` are history variables for the properties. |
| `Requests` | `APIWorker`, `run_worker` and the database connection | `place[w]` is the statement worker `w` is about to send, `request[w]` what it works on, `seen[w]` what it has read; `overtaken[w]` records that another worker has stored since. A statement is one step; `Fail` is one that fails or finds no connection, after which the request has an error for an answer. |
| `VulnStatus` | `vuln_status.py` | `versions[v]` are the rows of a vulnerability, the newest one counts. GET stores a row when there is none. |
| `DefaultReasons` | `default_reasons.py` | `reasons[r]` are the flags of the newest row of a reason: listed as active or inactive, or deleted. |
| `Comments` | `comments.py` and its transaction | `comments` and `history` are the rows of the two tables; an id is the second it was made in and a random number. |
| `SaErrata` | `sa.py` and the Errata Server as it is called | `errata[i]` are the server's records; the overlap check and the create are two calls. |
| `Management` | the four together | `endpoint` says which one a behaviour is about: they share workers but no tables. |
| `TaskRepo` | `TaskRepoState` and `LastRepoStateFromTask` | `contents[k]` is the branch after `k` tasks, `plans[k]` what task `k` added and deleted; `early[k]` are the times, as numbers of tasks done, of the rows of earlier states of the task of snapshot `k`, all of which the statements join with it; `step`, `chain`, `base` and `built` are the request between its statements, while `TaskDone` and `StoreSnapshot` go on. |
| `TaskHistory` | `_get_task_history` for a package, and `_branch_tasks_history` | functions from tasks, each with its branch and the one before it, to the tasks whose errata count. `Walk` is what a loop from task to task meets, as the least set that is closed under its step. |
| `PackageDependencies` | the class of this name | `frontier` is a level, `todo` what of it is to be looked at, `excluded` what the level leaves out, `dependencies[s]` what is collected. One action per query and per package of a level. |
| `BackportHelper` | `BackportHelper.get` | `lookups` are the names of the next level, `memory` those looked up, `levels` the packages found; `listed` is the answer. |
| `VulnFixes` | `matcher`, `match_versions`, `_get_erratas`'s filter, `get_vulnerability_fix_errata` | functions from the ranges and errata of a package to its records. |
| `DependencySort` | `SortList`, `Graph` and the part a leaf needs | `calls` are the vertices whose calls of `_topological_sort_util` are going on, `visited` and `stack` are the variables of the sort. One action begins a call from the loop over all vertices, one from the loop over the neighbours, one ends a call. |
| `Misconflict` | `find_conflicts` and `ConflictFilter` | functions from the rows of files in common to the reported pairs. |
| `Pagination` | `Paginator` | functions on lists and limits. |
| `Queries` | the requests that compute something, one at a time | `kind` says which. Four of them are the state machines above; of the others `question` is what the tables and arguments are and `answer` the reply. |

`MapStorage` takes `get`, `set` and `delete` of the file backend as atomic.  That
is what `RecordStore` promises and what the run `storage` shows `StorageHandler`
to keep, for the deployment with one thread per process.

Time is in whole seconds, as the code stores it.  The clock of the program has
fractions: once it is past the beginning of second `s`, `now > s` holds for the
code, so `Expired` compares with `>=`.  `created` and `type` of a record are left
out (the first is never later than `updated`, the second is always `"dict"`).
Names, tokens, fingerprints and mappings' values are model values.

In `AuthSessions` a worker can be killed (`Abort`) between any two storage
operations; a kill inside one is the subject of `StorageHandler`, where it closes
the storage for good. A session of Keycloak may end at any time
(`CloseKeycloakSession`); the model lets it end only when a request is about to ask
for it, which no request can tell from an earlier end.

Every statement of the management endpoints is a step of its own, and so is
every call of the Errata Server.  The answer to a call may be lost after the server
has done what it was asked (`Fail` after a create): the user sees an error and tries
again, which is another request here.  `libs/errata_server/base.py:109` mounts
its retries under the prefix `http`, which is shorter than the prefixes `requests`
mounts by itself, so that a call is sent once.

`overtaken` is the only history variable of the management modules: a property with
"unless overtaken" says that what a check is for holds for each request that ran
between two stores of others, in any order of requests.

The tables `TaskRepo` reads are filled by other programs. Girar's tasks are modelled
as `task_repo.py` takes them: a task changes the branch by the packages of its plan
that are not there yet or are there, and is DONE in the order of the branch.

## Runs

| Run | Configuration | What it shows |
|---|---|---|
| `storage` | `MCStorageHandler.cfg` | Two workers, killed and forked anew at any step, calls of every kind, a record left from an earlier run that expires. One call at a time is in the block (`MutualExclusion`), a torn file is never loaded (`NeverLoadsTornFile`), no call works on old records (`NoStaleMemory`), nobody removes a lock file another one has created, not after a timeout nor by a flag left over (`OnlyCreatorUnlocks`), a stale lock file closes the storage for good (`StaleIsPermanent`), and the whole implements the atomic store (`ImplementsRecordStore`). |
| `storage_faults` | `MCStorageFaults.cfg` | Saves may fail half-way. Every call returns (`CallsReturn`, under fairness); a file torn by a failed save is torn for good, since no call makes it anew (`TornIsPermanent`). |
| `storage_threads` | `MCStorageThreads.cfg` | **Violated**: two threads of one process are in the block together (finding 1). |
| `map_clients` | `MCMapClients.cfg` | Both backends. What was set is found, what was deleted is gone, expiration times survive, as long as no second storage operation finds the mapping changed (`...UnlessRaced`). |
| `lost_update` | `MCLostUpdate.cfg` | **Violated**: without that condition a saved mapping is lost (finding 2). |
| `auth_sessions` | `MCAuthSessions.cfg` | Four requests of login, refresh and logout on two workers, both providers and backends. Concurrent logins exceed the limit of sessions by no more than the number of other workers (`SessionsBounded`); after a confirmed logout the refresh token is useless (`LoggedOutIsRefused`). |
| `auth_tokens` | `MCAuthTokens.cfg` | One login, then requests and refreshes over the whole life of its tokens, with roles that Keycloak may change when it renews a token, and tokens of Keycloak that live longer than the mark of a dead token. No request is let in with a token that was declared dead while its mark must be there (`RevokedIsRefused`), and cached roles do not outlive their token (`CachedRolesExpire`). |
| `auth_lasting` | `MCAuthLasting.cfg` | Two logins, by either provider, and a third request that removes or renews, with lifetimes that differ. A session that was answered is not lost before the shorter lifetime is over (`SessionsLast`). |
| `management` | `MCManagement.cfg` | Three requests on two workers, of one management endpoint at a time. A comment and its parent are in one tree on one entity (`RepliesFormTrees`), and it begins another tree only if it was overtaken (`OneTreeUnlessOvertaken`); no change is recorded of a comment that is not there (`RecordsHaveComments`); a status goes back to "new" (`BackToNewOnlyIfOvertaken`), replacing a reason changes the length of the list (`PutKeepsLength`), a replaced reason comes back by a request to disable it (`ReplacedStaysAway`), or active errata contradict each other (`NoContradictionUnlessOvertaken`) only if another request came in between. |
| `queries` | `MCQueries.cfg` | All requests that compute something, over all small tables. The state of a branch has everything the branch had that no task up to the snapshot deleted (`NothingMissing`) and is exact if no task deleted what another one added (`ExactUnlessReplaced`), both if the snapshot is not older than the start of the chain; a dependency set has what is required (`RequirementsMetUnlessOverruled`) and nothing else (`NothingUnrelated`); a backport list is complete (`ListIsComplete`); both end, and so does the sort (`LoopsEnd`); a package is fixed only by an erratum that counts (`FixedOnlyByErratum`) and an affected one is never lost (`AffectedNeverLost`); the tasks a branch has come from count (`AncestryCounts`); build orders (`BuildOrder`), differing files (`MisconflictsReported`), pages (`PagesShowAll`). |
| `task_chain` | `MCTaskChain.cfg` | **Violated**: the state built for a task is not the branch as the task found it (finding 3). |
| `task_base` | `MCTaskBase.cfg` | **Violated**: a task is put on top of a snapshot that has its changes already (finding 4). |

### Bounds

- Two processes suffice for every interleaving of a holder, a waiter and a
  process forked after a kill; the lock and the file make no difference between
  the second and the third waiter, and the proofs below cover any number.
- `LockTimeout = 1` poll: giving up after no poll and after one both happen.
  `MaxTime = 2` with expiration times of 1 second lets a record be written, expire
  and be removed while another call is in progress.
- Two names of records: one that is called for, one bystander that expires. The
  bystander makes the purge in the middle of another call's work visible.
- `MapClients`: two workers, one mapping with two keys. A field set by one
  worker and lost to the other needs two keys; `MaxTime = 4` is two lives of a
  mapping and the seconds around them.
- `AuthSessions`: 2 workers; the limit of sessions is 1 instead of 2 (2 in `auth_lasting`) so that it is
  passed with few requests. `MaxRequests` bounds the history: four requests hold
  a login, a login or a refresh at the same time, a logout and a use of what was
  logged out; in the run over time three hold a login, a revocation and a
  later use, and in the run on lasting sessions two logins of different ages and
  lifetimes and a removal between or after them. Lifetimes of 1 (access) and 2 or 3 (refresh) keep the order of the real
  300 and 43200; Keycloak's are longer (access, `auth_tokens`) or shorter (refresh, `auth_lasting`). `WorkerTimeout = 1` is the time a request can take before gunicorn
  kills it (`Tick` waits for it, `Abort` is the kill).
- `Management`: three requests are a state of the table, a request and the one that
  overtakes it. Three reasons let one be replaced by a second one while a third one is
  listed; two entities let a reply go astray; one vulnerability with four
  statuses and two authors is all the status endpoint relates. `LowCount = 2` makes ids
  of one second come in either order. The errata are one advisory for two
  branches and one for one of them, each kind of exclusion, and one for another
  vulnerability.
- `TaskRepo`: tasks and snapshots treat each package by itself, so that one
  package shows everything; three tasks (`MaxTasks`) hold an addition, a deletion and the
  task that is asked for, on top of a snapshot that is stored before, between or after
  them. One row of an earlier state (`MaxRows`) dates the snapshot of the asked
  task, or of a later one, before the asked task was done.
- `PackageDependencies`: two source packages whose levels meet, three binary
  packages that may require each other, and a fourth name with up to three
  providers.
- `BackportHelper`: packages of two source packages, names provided by two of them, a
  requirement met by the other branch with any and with another architecture only.
- `VulnFixes`: packages are looked up by their names and there is one version of each
  in a branch, so that one package with two versions, two vulnerabilities and two
  errata in every state is enough.
- `TaskHistory`: five tasks on four branches, each forked from the one before it,
  at any task; `DependencySort`: all graphs of four packages, which have cycles of
  every length up to four; `Misconflict`: all tables of two rows; `Pagination`: lists up
  to 5, limits from -1 to 6, pages 1 to 6.
- Symmetry is used only in runs without liveness properties. The `VIEW` of `storage`
  hides records in memory that the next call overwrites before it reads them.
- `CHECK_DEADLOCK FALSE`: all runs bound the clock or the number of requests,
  after which the system stops.

### Fairness

`FairSpec` of `StorageHandler` has weak fairness of the steps of a call that was made, per
thread: the operating system schedules a process that is not killed, and every wait
in the code (`time.sleep(1)`) ends by itself. No fairness is assumed of new calls,
kills, forks or the clock. Under it `CallsReturn` rests on the timeout of the
lock alone, for the lock file may be stale.

`QueriesSpec` has weak fairness of the steps of `PackageDependencies`, `BackportHelper` and
`DependencySort`: they are plain loops and calls of one thread without a wait, so that
`LoopsEnd` says that they terminate. Nothing else is assumed to go on.

## Findings

1. *Threads share the lock* (`file_storage.py:323`). The flag that makes the lock
   skip a second acquisition belongs to the process. Under `app.run()` two
   threads are in the block together, and the first to leave unlinks for both.
2. *Lost updates* (`file_storage.py:117`). `map_set` and `map_delete` read and write
   under two acquisitions of the lock.
3. *A chain of tasks is not applied task by task* (`task_repo.py:276`, against line 166).
   What all tasks of the chain delete is deleted before what they add is added: a
   package that one of them added and a later one deleted is in the state again.
4. *The snapshot below a task may be the one after it* (`task/sql.py:332`, against
   `task_repo.py:181`). The statement joins a snapshot with all the rows of its task's states,
   of which those from before the task was done are older than it. What the asked
   task deletes is then missing from the state it was built upon, and what it adds is there.

Remarks of the model, for which no document of the repository says otherwise, or that a
reader of the code sees without a run:

- *The check for an existing session never finds one* (`auth_login.py:210`, against its
  docstring, line 208): it reads the mapping named `self._token`, which is `""`, so that
  each login of a client adds a session.
- The sessions of a user are one mapping, and each login sets the expiration of all to the lifetime
  of its own session (`auth_login.py:227`), which Keycloak chooses: a session of LDAP may be stored for
  less than `EXPIRES_REFRESH_TOKEN` (`settings.py:138`, "refresh token storage time in seconds").
- *Input and conflict package change places* (`misconflict_packages.py:289`, against
  line 380). A tuple that is made anew for a pair with some equal files gets its last
  two members in the other order; `MisconflictsReported` allows for it.
- The limit of sessions is passed by concurrent logins (`SessionsBounded` allows for
  it); with the file backend a wipe that is lost to a concurrent write can add to it.
- A logout that removes the last session it has read deletes the whole mapping,
  with sessions that were added since (`auth_logout.py:82-83`).
- Keycloak's logout raises if the session is closed there already: the local
  session stays and the token is not blacklisted (`auth_logout.py:73`).
- `refresh_token.py:107` says a token is blacklisted "if it hasn't expired yet"; it
  is blacklisted always, for `EXPIRES_ACCESS_TOKEN` seconds. With Keycloak tokens
  that live longer than that, the mark may lapse before the token does, but by no more than
  the difference: that is what `RevokedIsRefused` says (`RefusedUntil`).
- A refresh blacklists the old token before it asks Keycloak for the new one; if
  that fails the client has neither.
- With Redis, `UserRolesCache.add` stores a list, which the client of Redis refuses
  (`StoreRolesFails`): no role is ever cached there, and the request fails.
- With Redis, a worker killed between `hset` and `expire` leaves a mapping that never
  expires; with the file, so does a `map_delete` that loses a race with a wipe.
- If the first snapshot of a branch is stored between the statement that reads the chain and
  the one that reads the snapshot, the chain is empty and the state that of the snapshot
  alone: the case that `chain.from <= base` leaves out of the properties of `TaskRepo`.
- Requests of the management API: a GET that stores 'new' may follow a POST that
  has just stored another status; two POSTs check their transitions against one old
  row (`vuln_status.py:147-154, 201`). "No changes" (`:217`) compares the payload with a stored
  row, whose subscribers have its author appended, and so lets unchanged payloads through;
  subscribers are appended twice. "No reason for status returning back" (`:241`) looks
  for a status that is "", which there never is, and refuses nothing.
- `comments.py` lets PUT and DELETE carry the action "create" and makes a comment then
  (`:188-202`). Ids of one second are in no order, so that the "last" comment need not be
  the last one. A failure between the two inserts leaves a comment without a history.
- An update of an advisory or exclusion is not checked for overlaps (`sa.py:237`). The check is
  not the same in both orders: an exclusion of a package or a CPE can follow no advisory
  (`sa.py:117-120`), an advisory can follow it (`:107-109`).
- Concurrent renames of one default reason leave both new ones listed; a request to disable a reason that
  is overtaken by its replacement brings it back.
- `app.py:69-76`: when `Connection()` raises in `before_request`, `g.connection` is not set and
  the teardown raises an `AttributeError` of its own. The five attempts to connect with
  pauses of five seconds (`connection.py:100`) come close to `WORKER_TIMEOUT`; calls of the Errata
  Server have no timeout at all.
- `libs/sorting.py`: "-" before a field of strings, or a column with both None and strings, is
  a `TypeError`.
- `misconflict_packages.py:61-64`: the default architectures are replaced, not extended, when
  "noarch" is given.
- A range of affected versions with a start and no end never matches (`common.py:301-319`), so
  that a package may be affected and have no record that says so. Errata of two parent
  branches may give one package two records that contradict each other.
- `package_dependencies.py`: a package that loses against another provider is left out
  of everything its level finds, and may leave another requirement unmet, where the
  docstring (303-305) says "until all related packages are collected". Which one is met
  depends on the order of the levels.
- `SortList` changes the dictionary it is given: the filter for a leaf then sees no
  circular requirements (`pkg_build_dependency.py:484-494`).
- `errata_refresh.py`: `getattr(e, "status_code") or 500` raises when there is no such attribute.
- `task_repo.py` mentions POSTPONED tasks, but the check before it refuses them.
- `backport_helper.py`: the depths in the answer are counted anew in the order of a
  dictionary and are not those of `serializers.py:147, 159` ("dependency depth"); `max_depth`
  is computed and not used. A package without any requirement is never found; a
  requirement of an architecture is not met by a noarch package; `packages_names` are said
  to be source packages and are looked up among what packages provide.
- `oval.py:94` drops the first task of all, which has none before it. Were a branch forked
  from one that is not the nearest in its list of `lut.branch_inheritance`, the tasks
  of its real ancestors would be left out; the instances fork from the nearest.

## Proofs

`tlapm` checks them for all values of the constants, under the assumptions named in
the modules. `OneThreadPerProcess` (no two threads have the same process) is the
deployment under gunicorn; run `storage_threads` shows that it cannot be dropped.

Each proof follows one pattern. What is to be proved is seldom inductive: it is one part of an
invariant whose other parts say what the code relies on between its steps. Effects of
single operations are lemmas, and a step of the proof is an action of the module.

`StorageHandlerProofs`, the lock: `LockTypeCorrect`; `LockExcludes` (mutual exclusion);
`LockNotBroken` (only the thread that created the lock file unlinks it, if every process has one
thread: a thread that skips the acquisition by a shared flag would unlink another's);
`StaleLockStays`. Mutual exclusion is not inductive: the invariant `LockInv` adds that a holder
implies the lock file exists, and ties the flag and the descriptor of a process to the
place of its one thread, so that a thread that finds the flag set is impossible
and each release finds an open descriptor.

`StorageHandlerProofs`, the handler: `HandlerImplementsLock` shows that each step of it is
a step of the lock or leaves the lock's variables alone; `StorageExcludes`,
`StorageLockNotBroken` and `StorageStaysClosed` then follow from the theorems of the
lock. `HandlerTypeCorrect`, `TornFileNeverLoaded` and `MemoryNeverStale` come from the
invariant `HandlerInv`: the type invariant, the lock's invariant, `PlacesAgree` (the place
of a thread in the handler and its place in the lock fit together), `TornIsGuarded` (if
the file is torn then a thread is in the middle of a save, or the lock file is
there and stale) and `NoStaleMemory` itself. `TornIsGuarded` is why the torn file is never
loaded: whoever is in the body of the lock at `load` is the only holder, and a
stale lock file would have kept it out. `TornFileStaysTorn` says of failing saves that no call
makes the file anew: a call that is past its load holds the lock, and the file it loaded was
not torn.

`HandlerImplementsRecords` is the refinement: every step of the handler is a step of
`RecordStore`, or leaves what callers see alone. The abstract call takes effect where the
save of the concrete one begins, or where it has nothing to save; its records in memory
are then those of the file with its own change, because nobody else was in the block since
they were loaded (`WorkInv`), and the save before it, of what was left when expired records were removed,
is a purge of the abstract store. It assumes `OneThreadPerProcess` and `~DiskFaults`: the call
whose save fails half-way has changed the file and returns an error, where a call of the
abstract store that fails has changed nothing.

`MapClientsProofs`: `ClientsTypeCorrect`, `SavedFieldsAreFound`, `DeletedFieldsAreGone` and
`MappingsExpire`, with both backends. The invariant `ClientsInv` adds to the three promises
that a method between its two operations has read what it is going to write (`CallFits`), that
of two calls in progress on one field each is known to overlap the other (`OverlapsKnown`), and
that nothing a call in progress is about to delete is promised to be there, nor the
contrary (`PromisesFree`).

`AuthSessionsProofs` and `AuthTokensProofs` are about `AuthSessions` with both
backends, any number of workers, users, tokens and requests and any lifetimes, a worker being
killed at any place. The invariant `Fit` says of each worker, by its place, what request it is in and
what the storage method it is in the middle of will write, and of each stored mapping that
it is of the kind its name asks for, with sessions that a login has made:
`AuthTypeCorrect` follows. `RevokedNeverReturns` adds that every token declared
dead has a mark that lives at least as long as it does (or, for tokens of Keycloak that
outlive `EXPIRES_ACCESS_TOKEN`, until the difference is left: `RefusedUntil`), and that a request whose token was dead
when it came is refused or stopped before it is let in; `CacheFollowsTokens` that roles which are cached or
are about to be come from a token whose expiration time bounds theirs. `SessionsAreKept`
carries `Lasting`, for both backends and any lifetimes: what is stored, read or about to be written
back was created no later than now, and a record that expires is given at least
`LeastRefresh`, counted from a time that is not before the login of any session in it that is
settled. With Redis a new session is not settled between the command that adds it and the one that sets the
expiration, which is why the property speaks of sessions that were answered; that no
other request knows the token of a session in between is the invariant `Kept` of the next theorem.
`LoggedOutStaysOut` proves `LoggedOutIsRefused` by the invariant `Kept`: a refresh token is met
with one user only (`OneOwner`), wherever it is met (among the sessions, in the request of its
login, in what a logout has found or a method is to write back); nobody meets it before its login
has added it (`Unseen`); and while no write has raced, the token of a logout that is over is among
no sessions (`OutGone`), so that a refresh with it gets no further than the search for its session
(`LateRefused`). Without `OneOwner`, a logout that empties the mapping of its own user would
say nothing about the others.

`LoginsKeepSessionsBounded` is a count: the sessions of a user and the logins that have passed
the check and are still to add theirs are together no more than the limit and the
number of workers less one (`Room`), as long as no write has raced. A login that passes the check found room for one more; each of the
other workers has at most one session on its way. It assumes that there are finitely many workers and
that the limit is at least 1 (`SessionsAssumption`).

`ManagementProofs`: `ManagementTypeCorrect` and seven theorems about any number of workers and
requests, of any tables. What the four invariants have in common is that what a request has
read still holds where it goes on to store, unless it was overtaken: the check for overlaps
would pass again (`ErrataAreConsistent`), the row it read is the newest one
(`StatusStaysKnown`), the flags of the reasons are those it looked up (`PutsKeepLength`,
`ReplacedReasonsStayAway`). Of comments it adds that an id belongs to one comment, stored or about
to be, and that a comment about to be stored continues the tree of a stored one:
`CommentsFormTrees`, `ChangesHaveComments`, and, with the ids being linearly ordered so that
an entity with comments has a last one, `OneTreeOnEachEntity`.

`TaskRepoProofs`: `TaskRepoTypeCorrect`, `NothingIsMissing` and `ExactWithoutReplacements`. The
plans of a chain are joined and forgotten, so that the invariant (`History`) says of
any two states of the branch which packages the plans between them must have added
and deleted; it is kept by each task, and what the request has read are numbers of
such states: whichever snapshot the statements pick, before the task or after it.

`LevelsProofs`, build dependency sets: `DependenciesTypeCorrect`, `RequirementsAreMet` and
`NothingUnrelatedIsCollected`. A collected package whose requirements are not met is pending,
in this level or the next one; when nothing is pending, all is met. That a choice
among providers exists takes the well-founded order of names. Backports:
`BackportTypeCorrect` and `NothingLeftBehind`. The levels are the rows of
the names looked up, and what their packages lack was looked up or is about to be.

`QueriesProofs` is about the program of all requests: its invariant `QueriesInv` is that of each
state machine, and that an answer is the function of its question.

- `BuildOrderIsRight`: the calls that are going on are a path along requirements, so that the
  oldest comes to be needed by the newest; and whoever requires a package that has ended
  has ended before it, and is further down the stack, or its call is still going on
  and it is needed in turn (`SortInv`). An edge that the removal of circular requirements
  took away joins packages that need each other, and adds to what neither comes to need. For
  a leaf, what is kept of the list has the requirements of each of its members.
- `AncestorsAreCounted`: walks are least closed sets, so that a set which is shown to be closed
  contains them. A branch occurs once in its lineage, since the lineages in it get
  shorter; each ancestor of a task is therefore on a branch the history knows, and the walk from the
  nearest branch with tasks passes through it.
- `FixesNeedErrata`, `NoAffectedIsLost` and `DifferencesAreReported` follow a record through the
  filters and replacements of its function; `PagesAreComplete` is arithmetic of quotients,
  for all limits, negative ones and zero included.
- `QueriesTypeCorrect`, and `StatementsKeepPromises`: the promises of the repository state, the
  dependency set and the backport list in the program of all requests.

Assumptions on constants are named where the constants are declared, and TLC evaluates each
of them in a run. Those that are about data say what the code relies on: there are finitely
many packages, numbered in the order of their names; lineages nest; a history is one of
forks (`IsHistory`); expiration times of mappings are positive.

Only model-checked: the liveness properties `CallsReturn` and `LoopsEnd`, which need fairness and
`ENABLED`. The four violations are shown by TLC, too.

## Not modelled

Most of the code by lines is the text of SQL statements, serializers, argument parsers, and
endpoints that reshape the rows of one query (`api/*/sql.py`, `api/*/serializers.py`,
`api/*/parsers.py`, the read-only endpoints): it has no state and no steps a model
could get into an order, and the map leaves it out. The components with status
`not_modelled` in `PROJECT.json` say why for each part. The management of errata,
CPE and PNC records passes one call on to the Errata Server; the refresh of errata
makes several without a check between them.

Within the modelled parts: directory creation and permissions (`get_workdir`), `OSError`s other
than those of a lost race and of a failed save, `FileLock.__del__`, corrupt JSON other than
a torn save, passwords and signatures, `auth_required`, the insert of the user into
the database, and the attributes `token` and `exp` that `token_required` sets on a
function object shared by threads (`decorators.py:109-110`); the reconnect loop of `Connection`; the
dry runs and lists of `sa.py`; comparing versions, which is librpm's; the levels of source packages that
`build_dependencies` collects by SQL; the third walk along tasks, in `fixes.py`.

## Plan

Done: all modules above. What is left, in this order:

1. `decorators.py:109-110`: the attributes on a function shared by threads, a small model of
   two threads under `app.run()`.
2. The ranking of groups of `api/auth/auth.py` and `keycloak.py` as operators; `revert_patch` and the
   classification of discarded vulnerabilities; the filters of
   `pkg_build_dependency.py`.
3. Proofs about what these add; `SessionsBounded` without the assumption that no
   transactions race, with the number of lost wipes as a bound.
