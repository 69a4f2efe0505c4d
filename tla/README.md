# NetForgeUI: a TLA+ model of the program and what holds of it

NetForgeUI is a web front end for planning a network of AOS-CX switches: people
share projects, edit each switch's `host_vars` in a browser, take addresses from
pools, generate configs with Ansible in a container, and push configs or install
firmware on live switches.  One gunicorn process with eight request threads
serves it (`Dockerfile:50-64`); generations, pushes and upgrades run in threads
of their own in that process.  State is in files (per project: `config.json`,
`allocations.json`, `hosts.ini`, `host_vars/`, `generated_configs/`), in SQLite
(users, shares, audit log) and in memory (job stores, throttles), and the last
is lost at a restart.

This directory models the parts of it in which several people, threads or files
have to agree, checks the models with TLC on small instances, and proves what
matters most with TLAPS for instances of any size.  Line numbers are those of
the repository at the commit modelled.

- [The system](#the-system): the inventory.
- [The modules](#the-modules): how each one corresponds to the code.
- [The runs](#the-runs): what is checked, with which bounds.
- [Assumptions](#assumptions) and [fairness](#fairness).
- [The proofs](#the-proofs).
- [Where code and documentation part](#where-code-and-documentation-part).
- [What is not modelled](#what-is-not-modelled) and [the plan](#the-plan).

## The system

| Component | State | Operations | Talks to | What is hard | What makes it correct |
|---|---|---|---|---|---|
| **Project store and lock** `project.py:40-113, 146-209`, `sharing.py:185-222` | two JSON documents, a lock file beside each project, a thread-local count of held locks | `project_lock`, `_locked`, `_write_json_atomic`, create, delete, transfer | everything that changes a project | eight threads; a lock file that is removed; locked functions that call each other | the lock excludes, no saved change is lost, every request is answered |
| **Point-to-point pools** `project.py:992-1138, 1403-1648` | `allocations.json/point_to_point`: per address a holder or a reservation, and the other end | claim and release from the editor at once; `sync_allocations` when a switch is saved | store, editor | two switches own one /31 and change it by two routes in any order | both ends agree; a save records exactly what the switch carries and takes nothing else |
| **Unique pools** `project.py:893-985, 1460-1480, 1587-1614` | `allocations.json/unique`: holder, interface, and a second holder of a shared VTEP | claim, release, sync | store, editor | half releases and re-saves by two members of a pair | at most two holders, each with its interface; saves and releases spare the other |
| **Pools, supernets and blocks** `project.py:244-582, 649-886, 1145-1270` | `config.json/pools`, `allocations.json/vlan_supernet` and `/svi` | add, delegate, resize, convert, remove a pool; carve, assign, release, remove a block | Resources page, unique and point-to-point pools | a tree of blocks derived from addresses, kept with statuses and with the pools' ranges in another file; stops between two writes | ranges apart, no address allocated twice, pools and blocks agree, blocks in use are leaves |
| **Config generation** `projects.py:597-742`, `docker_runner.py`, `audit.py:161-182` | a job, `generated_configs/`, `generated_from` in `config.json`, an audit entry | request, worker, container, mirror, record | store, Docker, editor saves, `checks.py` | saves and deletions during a run; failures and restarts at every point; a run's tail beside the next one | one run at a time, no config taken for newer than it is, every run ends, and its entry unless the log fails |
| **Deploy and firmware jobs** `deploy_routes.py`, `firmware_routes.py`, `jobs.py`, `audit.py` | two in-memory job stores, audit entries with hashes and results | dry run, push, upgrade; busy check; push state on the Deploy page | Ansible, generation, transfer | checks and insertions in separate critical sections, transfers, restarts, files replaced before they are read | one job at a switch, a push state as truthful as the log, no switch busy for ever |
| **Editing a switch** `projects.py:472-568`, `utils.py:100-214`, `hostvars.py`, `editor.js` | `host_vars/<switch>/`, `host_saves`, the page's form and fingerprint | load, save, conflict, remove, add, reconcile | store, pools' sync | loading without a lock; removal and reconciliation without a lock | nobody's saved edit is overwritten unseen |
| **Inventory and deploy mapping** `utils.py:83-149`, `projects.py:361-450`, `bulk_hosts.py`, `deploy_routes.py:39-57, 306-389` | `hosts.ini`, the directories in `host_vars/`, `generated_configs/`, `deploy_mapping.yml` | add one switch or many, remove one, save addresses or the mapping, fill the mapping in | store lock, generation, editor | files written in place and read without a lock; a name looked up before the lock is taken; removals and the mapping without a lock | no switch lost, listed twice, or left without files; addresses kept |
| **Audit log** `audit.py` | SQLite table | start, finish, event, trim, interrupt | all jobs | entries of runs that never end | every entry is settled, by a restart at the latest |
| **Sharing and transfer** `sharing.py`, `projects.py:90-145, 300-326, 780-811`, `admin.py:45-159`, `transfer.py:263-326` | `project_shares`, project folders, names in `users` | share, unshare, level check, create, import, delete, transfer; add, delete and link away an account | accounts, store | shares are kept by name; folders and tables are changed one after the other; stops in between | nobody inherits, keeps or gains access by it |
| **Accounts and single sign-on** `models.py`, `sso.py`, `auth.py`, `admin.py` | `users`, session cookies with a version and an age | sign in by password or SSO, change password, link, unlink, move an identity, delete | the provider, sharing | identities that move between accounts; sign-ins of several transactions; sessions that outlive a change | one identity, one account; a session ends with what it rests on |
| **Login throttle** `security.py:201-244` | failure times by address and name | blocked, failure, success | login | separate critical sections; a sliding window | the limit holds and ends |
| **Job output** `jobs.py:70-97` | text and dropped count | add, flush | jobs | size and time limits | nothing shown twice, an end that is always shown |
| **Export and import** `transfer.py`; **firmware images** `firmware_images.py` | archives; files and a table | export, import; upload, delete | store | partial imports; uploads in parallel | all or nothing |
| **Checks, search, cabling, reading switches** | none kept | pure computation, network reads | | | |

### How they interact

A save of a switch (`save_all_hostvars`) takes the project lock, compares
fingerprints, writes files, records the save and calls `sync_allocations`, which
rebuilds that switch's share of all pools.  The editor has by then allocated
most of those addresses one by one.  Pools are delegated from supernets, so a
pool's range is a block of another pool's tree.  Generation copies the project
out, and copies configs back over those that pushes read; a push records hashes
of them for the Deploy page to compare with.  A transfer moves the project
directory, and with it the lock file's path and the key that jobs are filed
under.

## The modules

| Module | Lines of TLA+ | Models |
|---|---|---|
| `AtomicStore` | 26 | what the locked store promises: a change is applied in one step |
| `ProjectLock` | 297 | the flock with its path and inode apart; updates, delete, transfer, create |
| `PtpPool` | 246 | one point-to-point pool: editor calls and the sync of a switch |
| `UniquePool` | 208 | one unique pool with shared addresses, the same way |
| `SupernetPools` | 489 | pool definitions, the block tree, VLAN assignments and their interfaces' addresses, two files |
| `GenerateJobs` | 341 | requests, workers, container output, records, restarts |
| `SwitchJobs` | 353 | pushes, dry runs, upgrades, stores, audit entries, push state |
| `EditorSave` | 260 | several pages, one switch, removal, addition, reconciliation |
| `Inventory` | 60 | what the inventory promises: switches and addresses change in one step |
| `HostsFile` | 362 | `hosts.ini`, directories, configs and `deploy_mapping.yml`, written in place; generations working on a copy |
| `AccessTable` | 84 | what sharing promises: a table of rights that changes in one step |
| `Sharing` | 339 | shares, folders and accounts; the access check; every route that changes them |
| `Accounts` | 446 | accounts, sessions, single sign-on, passwords, links between accounts |
| `MC*` | | instances for TLC |
| `ProjectLockProofs` | | theorems about `ProjectLock`, and about `EditorSave` as its instance `Page` |
| `PtpPoolProofs` | | theorems about `PtpPool`, and about `UniquePool` as its instance `Unique` |
| `SupernetPoolsProofs`, `GenerateJobsProofs`, `SwitchJobsProofs`, `HostsFileProofs`, `SharingProofs`, `AccountsProofs` | | theorems about the module so named |

Conventions.  A thread is a `pc` with the labels its module names; a step is a
critical section, or what happens between two reads or writes that others can
see.  An operation that runs wholly under the project lock is one step in the
modules other than `ProjectLock`, which shows that this is sound
(`StoreSpec`).  Each definition that models code is mapped to its lines in
`PROJECT.json`.  Definitions under a comment that starts with *Mutation* are
plausible bugs of the code: each is put in the place of the definition that
follows it, and the property paired with it must then fail.

**ProjectLock.**  `lockFile[o]` is the path and `flock[i]` the inode, because
`project_lock` (`project.py:62`) opens the path and then blocks on whatever inode
it got, while `delete_project` (`:193`) and `transfer` remove the path.
`depth` is the thread-local count at `:69`; `Nest` and `Unnest` are a locked
function that calls another.  `Load` and `Save` are `_load_config` and
`_save_config`; a save replaces the document whole, from what was loaded.
`os.replace` makes the write atomic, so a crash leaves the old document or the
new one and is not a step of its own.

**PtpPool, UniquePool.**  The document in the file is `alloc`; a sync works on
`mem` and saves last.  `SyncRelease`, `SyncUnreserve` and `SyncClaim` are the
loops of `sync_allocations` in order.  The order of the interfaces a file yields
is an input (`Scans`).

**SupernetPools.**  A network is a set of addresses in which any two are nested
or disjoint.  `blocks[q][n]` is the entry of block `n` with its status;
`Enclosing`, `Children` and `Depth` are computed from addresses as in the code.
Operations on `config.json` and `allocations.json` have a `Stop` branch after
each write but the last.  `held` abstracts the two allocation modules to the
set of addresses allocated; `Hold` records any address for any pool id, as the
allocating routes do, unless `Ranged`.  `RemoveBlock` takes a VLAN's block as
well, which the page of a supernet with VLANs and pools offers
(`project_resources.html:381`).  `svi` holds the addresses of VLAN interfaces:
those that `assign_vlan_subnet` derives and those `register_svi` finds when a
switch is saved (`RecordSvi`, after `FindPool` has found no pool for them).  `stray` is the
history of those that were recorded where no VLAN had a block, and of those left
behind when their block was removed.

**GenerateJobs.**  A version number stands for a switch's settings and for the
config made from them.  `Request` is the one critical section on `_jobs_lock`;
`Prepare` reads configs and fingerprints and opens the entry; `Archive` is the
copy into the container, where saves that come later are not seen; `Mirror`
replaces one file at a time; `MarkFinished`, `FinishLog` and `Record` are in the
worker's order, so the next request may come between them.  `NoOutput` is any
failure inside the worker, `PrepareFails` one before it starts; `FinishLogFails` is a log
that cannot be written at the end, which the worker passes over (`projects.py:691`) and
which leaves the entry open (`unlogged`); `RecordFails` is a fingerprint that cannot
be recorded.  Switches do not
influence each other, so one switch is enough: a run's limit may leave it out
and its failure may be elsewhere.

**SwitchJobs.**  `CheckPushes` and `CheckUpgrades` are two critical sections on
two stores (`deploy_routes.py:217-232`) and `Insert` is a third.  A push opens
its audit entry (with hashes) before it is in the store, an upgrade after.
`Read` is Ansible opening the config file, `Confirm` the switch confirming it.
`took[r]` is who has confirmed, `results[r]` what the job knows of that when it ends
(`Finish`): a playbook killed at its deadline, a result that cannot be parsed and an
exception in the worker lose some or all of it (`jobs.py:166-194`,
`deploy_routes.py:199-203`).  `FinishLogFails` is the end that cannot be logged
(`deploy_routes.py:208`, `firmware_routes.py:308`).
`Same` is what `push_states` shows as *Same as last push*.

**EditorSave.**  The content of a file is the set of edits in it, so that an
overwritten edit can be seen.  `Parse` reads one file; `TakeBase` computes the
fingerprint afterwards, as `get_state` does.  `Begin` compares and submits under
the lock, `Write` writes one file in place.  `Unlist` and `Rmtree` are the two
steps of `remove_project_host`; `Reconcile` and `CreateMissing` those of
`reconcile_host_vars`.

**HostsFile.**  `ini[g]` is a section of `hosts.ini`; a write is `Truncate`
(or `Unlist`, or `TruncateMap`) and then `Fill` (`Refill`, `FillMap`), because
`open(path, 'w')` empties the file first, and anyone who reads in between sees it
so.  `BeginAdd` is the look at the list before `add_project_hosts` takes the lock
(`utils.py:113`), `Enter` the lock and the read under it.  `BeginRemove` is the read of
`remove_project_host`, which takes no lock, and `Rmtree` and `RemoveConfigs` are its last
two steps.  `mem[t]` is the new text.  A generation takes in `hosts.ini` and then the configs
there are (`BeginGenerate`, `Archive`), and later replaces configs with what came
out of its copy (`Mirror`), whoever was removed meanwhile; `caught` is the history
of the configs that a removal deleted while a generation had a copy.  `Key` gives two spellings of a name the
same key.  The refinement to `Inventory` takes a file that is being rewritten
for what is about to be in it.

**Sharing.**  One project name stands for all.  `has[o]` is the folder,
`shares[o]` the rows for owner `o`, `accounts` the users; `Begin...` is a
request with the checks it starts with (`Admitted` is the check before every
project route, `LevelFor` is `level_for`), and the actions after it are its
changes, one table or folder at a time, as in the code: `Rmtree` then
`ForgetProject`; `Move`, `MoveRows`, `KeepEdit`; `Wipe`, `ForgetUser`,
`DeleteUser`; `Absorb` then `WipeAbsorbed`.  A `Stop` may come between any two.  The
refinement to `AccessTable` reads the rows of a project that is moving as the
new owner's, and those of a project that is not there as none.

**Accounts.**  A person is a subject id at the provider.  A sign-in is the
transactions of `sign_in` and `callback` one by one: `Begin` (the groups and
`get_by_sub`), `FindByLink` (`get_by_link_email`, or a free name), `CreateSso`, `Record`,
`Enter` (`login_user`).  A cookie holds what Flask keeps: the account's id and
session version, and whether and when it came from SSO; `Loads` is
`from_session_id` and `Overdue` is `_expire_sso_session`.  `by`, `ended`, `cut`
and `left` are histories for the properties: `ended` has the browsers whose session
a change of password ended, which `Reissue` takes its own out of, and `cut` those
whose session an unlinking, a move or a deletion ended, which only a new sign-in
leaves.

## The runs

| Run | Bounds | Shows |
|---|---|---|
| `project_lock_updates` | 3 updates, 2 owners, 3 inodes | the document is an atomic store (`StoreSpec`, refinement to `AtomicStore`), which the lock's exclusion is for, and every request ends (`EveryRequestEnds`) |
| `project_lock_mixed` | the same with deletions, transfers, creations | two are inside one project only after a deletion or transfer of it has removed its lock file (`OverlapOnlyAfterUnlink`), and no saved change of a project is lost that stays where it is (`SavedChangeKept`) |
| `ptp_pool` | 2 /31s, 3 switches, 2 interfaces, files of up to 2 | `PairsConsistent`; a save is exact and spares others (`SyncIsExact`), and repeated changes nothing (`ResaveIsNoOp`) |
| `unique_pool` | 2 addresses, 3 switches, 2 interfaces | two holders at most (in `TypeOK`); a save is exact and spares sharers (`SyncIsExact`), and repeated keeps holdings (`ResaveKeepsHoldings`) |
| `supernet_pools` | 3 pools; a range, two parts and a part of a part; depth 2; one stop | ranges apart (`PoolsApart`) and no address allocated from two pools while each is of its pool's range (`HeldOnce`), both also after a stop; until one, pools and blocks agree (`DelegationsMatch`), the tree of blocks is one (`BlockTreeSound`), VLAN interfaces' addresses and pools keep apart (`GatewaysInVlans`), and assignments last (`AssignmentsKept`) |
| `generate_jobs` | 2 runs, 2 saves, 1 restart, deletions at will | `RecordedNotNewer`, `ConfigNeverOlder`, and every started worker ends and settles its entry, unless the log cannot be written (`RunSettles`) |
| `switch_jobs` | 2 requests of any kind, 2 owners, 1 transfer, 1 restart, 2 versions of the config | `ExclusiveSwitch`; `SameIsOnSwitch` whatever results are lost or cannot be logged; every started job frees its switches, and settles its entry unless the log cannot be written (`JobSettles`) |
| `editor_save` | 2 pages, 2 files, 2 saves each, a removal, a reconciliation | `NothingOverwritten` |
| `hosts_file` | 3 spellings of 2 switches, 2 groups, 3 requests at a time, 4 in all, 1 generation at a time, 1 stop or failure | the files are an inventory that changes in one step (`InventorySpec`, refinement to `Inventory`), no name is listed twice (`NamesDistinct`), directories and configs follow the list, but for configs that a generation had a copy of when they were deleted (`FilesFollowListing`) |
| `sharing` | 3 users, all admins, 1 group, 2 requests at a time, 1 stop | folders, rows and accounts are a table of rights that changes in one step (`AccessSpec`, refinement to `AccessTable`); no owner has a row for their own project (in `TypeOK`) |
| `sharing_link` | the same, accounts linked away at any time | `SharesNameAccounts` **fails** |
| `accounts` | 2 people, 2 browsers, 3 accounts, a change of each account's version or one of groups, 1 hour | `OneAccountEach`, `SessionsFollowIdentity`, `EndedStayEnded`, `GroupsTakeEffect` |

A module's type invariant is checked in one run of it.  `supernet_pools` has a VIEW (`Seen`): it takes states
for one that differ in stray addresses only, which decide no step and which no property
reads.

**Why the bounds are enough.**  Three requests are a holder, a waiter on its
inode and a newcomer, which is what the lock can get wrong; inodes are reused
when free.  Three switches on two /31s give a third party at each end of each
link.  Three switches on a shared address are the pair and one too many.  Three
pools are a supernet and two delegations, or a delegation and a newcomer, and
the four networks contain every relation of two networks: nested twice,
disjoint, equal.  `MaxDepth` is 2 instead of 3 so that the networks go one level
deeper than allowed.  Two generations overlap in the tail of one, and two saves
make an old, a present and a newer version.  With two jobs, a first and a second push
or upgrade meet in every order, and two versions tell equal hashes from others; two requests about
two switches, and three about one, were checked for safety without a transfer as well
(12 and 11 million states up to symmetry).  Two pages with two files
distinguish a file both change from one only one changes.

In `hosts_file` two of three requests may be the same switch in two spellings
and the third another switch's, so that one waits for the lock while another
writes; four requests are an addition, a removal, an addition back and one more.  A
generation may have its copy from before the removal, and the one after it takes up
what it left.  In
`sharing` every user is an admin, which lets more through, and `Level` is one
level: rows are only ever inserted, moved and dropped whole.  (With all three
levels and two users it was checked as well.)  Two requests at a time are enough for
every pair of routes, and a stop leaves a request of each kind half done.  In
`accounts` two accounts are made by sign-ins beside the local one, which is what
it takes for two first sign-ins to compete for a name.  One change of an
account's version separates a session from its account; a second one, between a
change of a password and the session it reissues, was checked as well (6.7
million states), and is why `Prompt` covers password changes.  An hour is the
whole session (`Hours = 1`).  The theorems hold for every bound.

In `supernet_pools` pool ids are
not used again (they are random in the code), so a behaviour ends when they are
used up, and in `hosts_file` requests are; those two runs do not check for
deadlock.

## Assumptions

Each is a constant, and with the other value TLC finds the counterexample that
the list under [where code and documentation part](#where-code-and-documentation-part)
tells.

- `Serial` (SwitchJobs): pushes and upgrades of one switch are requested one at a
  time, that is, one is answered before the next arrives.  The code does not ensure
  it.  Requests for other switches, dry runs and transfers overlap freely.
- `Quiet` (EditorSave): nothing changes a switch's files while a page loads them
  or while a reconciliation runs.
- `Quiet` (HostsFile): two additions at a time have different names, and none
  looks at the list while it is being written; nothing else is at the inventory
  during a removal; one request at a time is at the mapping.  Additions of
  different switches overlap freely, which is what the lock is for, and so do the inventory
  and the mapping; generations overlap with everything.  `NamesDistinct`, `FilesFollowListing` and `InventorySpec` fail
  without it.
- `Orderly` (Sharing): two requests at a time are about different users, or both
  share or unshare, or one unshares beside a transfer; nobody shares a project
  that is not there; and no project comes to where a stop has left rows behind.
- `Unshared` (Sharing): an account that is linked away had nothing shared with
  it; `sharing_link` is that.
- `Prompt` (Accounts): links are not changed while someone signs in by SSO or
  changes their password.  `SessionsFollowIdentity` and `EndedStayEnded` fail without it.
- `Parameters` (EditorSave) and the other modules' assumptions say no more than that
  bounds are numbers, that sets of names are apart, and that the symbol for nothing is none of
  the things it stands beside; networks are finite sets of which any two are nested or disjoint, and
  there is room for one account and for one level of blocks.
- `Narrowing` (SupernetPools): a delegation's new range lies in its old one, which
  is what `update_pool` says it is for (`project.py:462`).
- `Ranged` (SupernetPools): an address is allocated from a pool that is there and in
  whose range it is.  The editor's list of a pool has such addresses only; the
  routes check neither, so one typed, or listed before the pool was narrowed or
  removed, is recorded all the same (`projects.py:1132-1164`).  `HeldOnce` fails without it;
  nothing else needs it.
- `Careful` (SupernetPools): a request about a block is one that an up-to-date page
  offers.  A stale request assigns a container or a block delegated meanwhile, or
  releases a delegated block as if it were a VLAN's; `DelegationsMatch`,
  `BlockTreeSound` and `GatewaysInVlans` fail then.
  `PoolsApart` and `HeldOnce` do not need it, as the proofs show.
- Scans without a repeated interface (`DistinctScans`; `DistinctInterfaces` in
  the proofs): `PairsConsistent` fails with `Scans` equal to `ScansUpTo(2)`.
- Scans of a unique pool without a repeated interface and without an address that is both a
  loopback's and the VTEP's (`SwitchScans`; `Unambiguous` in the proofs): `SyncIsExact` fails
  otherwise.
- `MaxCrashes`, `MaxRestarts`, `MaxTransfers`, `MaxVersion`, `MaxSaves`,
  `MaxRemovals`, `MaxReconciles`, `MaxRequests`, `MaxFaults`, `MaxStops`, `MaxId`,
  `MaxTime`, `MaxRegroups` only bound how often something happens.

## Fairness

Only threads that have begun are fair.  A request thread of gunicorn keeps
running once it has a request, and the kernel hands a released flock to a
waiter (`ProjectLock`: weak fairness of each request's steps; a request that
arrives is not obliged to).  A worker thread keeps running
until it ends, and what it waits for ends: the container is killed at
`GENERATE_TIMEOUT_SECS` (`docker_runner.py:332`) and a playbook at its timeout
(`jobs.py:164-182`).  In `GenerateJobs` and `SwitchJobs` weak fairness is over
all steps of one request and its worker together, so nothing says that a
container succeeds, that a switch confirms, or that anything is saved.  Weak fairness is
enough everywhere because only those steps disable one another, except for the lock,
where the holder always leaves.  The other modules
claim no liveness: nothing in them waits but for the lock, of which `ProjectLock`
shows that it comes.

## The proofs

All theorems hold for every value of the constants that satisfies the modules'
named assumptions: any number of people, switches, files, pools and networks, and
any bounds on what may happen how often.  Where a theorem assumes one of the
constants under [assumptions](#assumptions), its statement says so; all others
hold whatever requests arrive.  Every invariant, action property and refinement that
a passing run checks is a theorem, and TLC checked each inductive invariant on
the run's instance before it was proved.

| Property | Theorem | Assumes |
|---|---|---|
| `StoreSpec` | `LockRefinesStore` | `UpdatesOnly` |
| `OverlapOnlyAfterUnlink`, `SavedChangeKept` | `OverlapNeedsUnlink`, `NothingLost` | |
| `NothingOverwritten` | `NoEditOverwritten` | `Quiet` |
| `PairsConsistent`, `SyncIsExact`, `ResaveIsNoOp` (point-to-point) | `AlwaysConsistent`, `SavedExactly`, `ResaveChangesNothing` | `DistinctInterfaces` |
| `SyncIsExact`, `ResaveKeepsHoldings` (unique) | `UniqueSavedExactly`, `UniqueResaveKeeps` | `Unambiguous` |
| `PoolsApart` | `RangesApart` | `Narrowing` |
| `HeldOnce` | `NeverHandedOutTwice` | `Narrowing`, `Ranged` |
| `DelegationsMatch`, `BlockTreeSound`, `GatewaysInVlans`, `AssignmentsKept` | `PoolsHaveTheirBlocks`, `TreeOfBlocks`, `NoPoolHandsOutGateways`, `VlansKeepTheirBlocks` | `Narrowing`, `Careful` |
| `RecordedNotNewer`, `ConfigNeverOlder` | `NeverRecordedNewer`, `NeverMirroredOlder` | |
| `ExclusiveSwitch`, `SameIsOnSwitch` | `SwitchesExclusive`, `SameMeansRunning` | `Serial` |
| `NamesDistinct`, `FilesFollowListing`, `InventorySpec` | `NoNameTwice`, `FilesFollow`, `RefinesInventory` | `Quiet` |
| `AccessSpec` | `RefinesTable` | `Orderly`, `Unshared` |
| `OneAccountEach` | `OneAccountPerPerson` | |
| `EndedStayEnded`, `SessionsFollowIdentity`, `GroupsTakeEffect` | `EndedSessionsStayEnded`, `SessionsStayWithIdentity`, `LeavingTakesEffect` | `Prompt` |
| every `TypeOK` | `TypeCorrect`, `EditorTypeCorrect`, `UniqueTypeCorrect` | |

**The lock (ProjectLockProofs).**  `IInv` is the type invariant, what a request past its
arrival has (`Begun`), who holds what (`Held`: a request inside holds the flock of
the file it has open, and nobody else holds any), and that the file it has open is
the one the path names unless a deletion or transfer of the project has removed
that (`NamedOrRemoved`).  Since a flock has one holder, two requests inside one
project have two files open, so one was removed (`OverlapNeedsUnlink`).  `Held` in its
other direction is `LockGivenBack`: every flock is held by a request inside, so no
request waits for one that waits, however locked functions call each other.  A loaded
document is still the one on disk when it is written, unless the project was
created, deleted or moved meanwhile (the operator `Serial`), hence `NothingLost`; none of this
assumes anything about the requests.  Among updates only (`UpdatesOnly`) nothing is
removed, which leaves `Exclusive`, and each `Save` is then a step of `AtomicStore`,
every other step a stutter (`LockRefinesStore`).

**The editor (ProjectLockProofs, second part).**  That a written edit stays is not
inductive: a page may be about to write what it has.  `Forms` says what a form
shows at every stage: while it is parsed, what was in the files parsed so
far; once open, what is in its base; while it is written, what is in the files,
which is what the check of the fingerprint is for.  The first stage needs
`LoadingAlone` and the creation of missing files needs `ReconcilingAlone`,
both of which `Quiet` provides, and a removal `NoFiles`.  The parameters of
`EditorSave` are named (`Parameters`), since assumptions of a module do not hold in
its instances by themselves; the theorems have them as hypotheses.

**Point-to-point pools (PtpPoolProofs).**  Types are kept by the operators whatever
a switch lists (`TypeCorrect`, with no assumption).  `Consistent` is kept by claims, by releases and, with distinct
interfaces, by the clean-up before a claim, each a lemma about the operator
alone.  The invariant carries it for the file and for the document in memory, together with
what each phase of a sync has achieved: while scanning, the switch holds exactly
the claims before `next`.  From that: `AlwaysConsistent`,
`SavedExactly` (which addresses a save records, and what it leaves to other
switches), `ResaveChangesNothing`.  That one call of the editor changes the owner of one
end only (`EditorSparesOthers`) needs neither the invariant nor distinct interfaces.

**Unique pools (PtpPoolProofs, second part).**  `WellRecorded` (a second holder only on
a shared address, another switch, with its interface) is kept by every claim and
release, whatever is claimed, so that `TypeOK` needs no assumption.  `SavesExactly`
adds what a sync has achieved: the switch is named first on what it has claimed
(`HoldsClaims`), and others gain nothing and lose only what it claimed for
itself or as the third (`SharersKept`).  It needs `Unambiguous`: no interface is scanned
twice, which would make the second claim drop the first, and no address is
both a loopback's and the VTEP's, since the loopback takes the address from the
other member before the VTEP shares it.

**Supernets (SupernetPoolsProofs).**  `PoolsApart` is not inductive by itself: a delegation is
excused from the overlap with its parent only, so one must know that parents
are there and are supernets (`ParentsThere`), and that addresses are held in
their pool's range only (`HeldInRange`).  With both, `RangesApart` needs
`NewPool` (a pool that clashes with none but its parent) and `NewRange` (a leaf
whose new range meets only what the old one met), which every operation on pools
reduces to; stops between writes need no more, since ranges are in one
file.  `NeverHandedOutTwice` follows with `Ranged`, which is what keeps `HeldInRange` when an
address is allocated: pools that overlap are a leaf and a
supernet, and a supernet holds no addresses.  Resizing, removing and delegating keep it by
what they refuse.

The other four are one invariant, `Settled`, that every operation restores when the server
does not stop within it: blocks are in their supernet's range (`Placed`), each
tree is `Sound` (the containers are the blocks that hold others, and none is too
deep) and has no delegation without a name (`Trees`), pools and blocks name
each other (`Agree`), and VLAN interfaces' addresses that are not stray are in
VLANs' blocks and in no pool (`Gateways`).  None of the parts is inductive alone: that a delegation can be moved within the tree
rests on the ranges being apart, and that a released block leaves no gateway behind on
the tree.
The lemmas say what each change does to a tree by itself: carving, dropping, giving
back, moving a delegation, carving a whole grid, and that repairing a sound tree
changes nothing (`CarvedTree`, `DroppedTree`, `ReturnedTree`, `MovedTree`,
`PrecarvedTree`, `NothingToRepair`).  They need networks to be finite, so that the
blocks around one have a smallest, its parent.

**Config generation (GenerateJobsProofs).**  The invariant follows a version through a run:
one run is unfinished at a time (`OneRun`), so no other mirrors meanwhile; what is in
the files, or about to be mirrored into them, is no newer than the settings
(`FilesNotAhead`), and what is about to be mirrored no older than what it replaces
(`PendingNotOlder`); the versions a run starts from were read before the copy
(`StartedBefore`), so a config it did not find there is at least that new
(`NewSinceStart`), whoever made it, and so is everything that a run may record
(`RecordableIsNew`), also in its tail, when the next run is mirroring.  `OneRun` is
what the refusal of a second generation promises, and a theorem by itself
(`OneRunAtATime`).

**Pushes and upgrades (SwitchJobsProofs).**  `IInv` ties ids, stages and what was sent to the
stores and the log (`Ids`, `Stages`, `Sends`), whatever overlaps; `NothingLeftBusy` follows,
which is the safety half of `JobSettles`: whatever keeps a switch busy or an entry
open is in the hands of a thread that will end it, but for an upgrade whose entry could
not be opened and an entry whose end could not be written.  With `Serial` no two requests that would change
one switch are between their checks and their insertions (`OneHandling`), so that what each
has checked still holds when it inserts (`Checked`), wherever else jobs start and finish, and
across a transfer; the jobs at work are then disjoint (`Disjoint`), which is
`ExclusiveSwitch`; a push at work has a later entry than all pushes that were at its
switches before (`Ordered`), and so the last entry that a switch confirmed tells what it
runs (`LastConfirmer`), which is what `SameIsOnSwitch` rests on.  `LastConfirmer` speaks of
who confirmed (`took`), not of what is known of it: `Lost` is where the two differ
for a later entry, and the page cannot tell.

**The inventory (HostsFileProofs).**  `Memory` types what requests hold.  With `Quiet`, removals
and mapping requests are alone, and the names being added differ from those
listed and about to be (`Apart`, `Fresh`), so that what a request has read is still
current when it writes (`Current`, `CurrentMap`); `Emptied` says that a file being
rewritten is empty to everyone else, and `Followed` how far directories and configs are
behind the list at each stage; of a config of a switch that is not listed it says
that a generation had a copy of it when it was deleted, for which every copy has
to be of names listed, being removed, or caught (`Held`).  `RefinesInventory` maps each `Fill`, `Refill` and `FillMap` to
no step at all and each truncation to the step of `Inventory`, because the mapping takes
a file that is being rewritten for what is about to be in it.

**Sharing (SharingProofs).**  `Shape` types requests by what they do.  With `Orderly` and `Unshared`
the requests at work are about different users (`AllApart`), so what each has found out
stays true until it acts on it (`AllFound`), and rows without a folder belong to a
project that is being removed or moved (`NoStray`).  `RefinesTable` maps the removal of a folder to the end of its rights
and the move of a folder to the transfer with all its rows; the changes to rows that
follow are stutters, because the mapping has read the rows so already.
`SharesAreOfAccounts` proves with `Unshared` what `sharing_link` refutes without it.

**Accounts (AccountsProofs).**  Ids are never reused (`Ids`), the bounds leave room for
what requests under way may still do (`Room`), requests and links keep what they need
(`Requests`, `Links`), and a cookie is never newer than its account (`Versions`), which is why an ended
session cannot come back.  What an unlinking, a move or a deletion ended stays ended until the
browser signs in anew (`Cut`): with `Prompt` there is no password change under way then
that would renew it.  With `Prompt`, a sign-in writes to and enters
its person's account (`Found`) with the groups it asked for (`Asked`), and
`Sessions` says of every session that loads, or that a password change will renew, whose
it is and since when.  That a free name is found (`username_for`) is a
counting argument, with the library's facts on cardinality.

`LockKept`, `LockGivenBack`, `Exclusive`, `EditorSparesOthers`, `OneRunAtATime`,
`NothingLeftBusy` and `SharesAreOfAccounts` state properties that no passing run lists:
they are steps towards others that runs do check, or follow from them, and the last is what
`sharing_link` refutes without its assumption.

Only model-checked: the liveness properties (`EveryRequestEnds`, `RunSettles`,
`JobSettles`), because fairness and ENABLED are beyond the prover.  No module declares a
recursive operator, so nothing is out of reach for that reason.

## Where code and documentation part

One is kept as a run that fails and as a finding in `PROJECT.json`:
`link_sso` moves an SSO account's identity and deletes the account
(`admin.py:153-156`), but unlike `delete_user` it never calls `forget_user`, so
what was shared with that account's name is whoever's is given the name next,
against `sharing.py:171` ("A deleted user's shares in other people's projects go
with them").

These were found the same way, by setting the constant named to its other value:

- One interface name twice in a switch's `host_vars` orphans the other end of a
  link (`project.py:1526` and the comment at `:1600`; `Scans`).
- Two pushes or upgrades of one switch are both let in when both look before
  either is in the store (`deploy_routes.py:497`, `README.md:320`; `Serial`).
- A save between a page's parsing and its fingerprint is overwritten by that
  page (`projects.py:485`, and the docstring of `save_all_hostvars`; `Quiet`).
- `update_pool` lets a delegated pool take its sibling's exact range, or a range
  around it (`project.py:526`, and the docstring of `add_pool`; `Narrowing`).
- Two additions of one switch in different cases both pass the look at the list
  before either is in it, and an addition that looks while the file is being
  rewritten sees none (`projects.py:377`, `utils.py:122`; `Quiet` of HostsFile).
- A removal overlapping an addition, or another removal, puts back the list it
  read; two requests at the mapping lose one's change (`utils.py:134`,
  `deploy_routes.py:331`; the same).
- An account deleted while a project of it is being shared takes that project
  with it (`admin.py:91-101`); an owner may share a project that is not there, and
  whoever creates it later has it shared (`projects.py:780`); a stop between the removal of a
  folder and of its rows leaves them to the next project of the name
  (`projects.py:316-326`), and rows left so at a destination make a transfer
  fail half way (`sharing.py:214`; `Orderly`).
- A sign-in that found its account before an unlinking links it again
  (`sso.py:335`), and a password change that meets an unlinking reissues the
  session the unlinking had ended, for it renews whatever is in the browser's cookie
  (`auth.py:118`; `Prompt`), against "Sessions end" in `unlink_sso`.
- Allocating an address looks neither for the pool nor at its range
  (`projects.py:1132-1164`, `project.py:893-935`, `964-977`, `1123-1130`).  An
  address typed, allocated by the editor's bulk addition (`editor.js:520-549`), or taken from
  a list from before the pool was narrowed is recorded, and another pool may hand it out
  too, against the comment at `project.py:268`
  ("the same address can be handed out twice"; `Ranged`).

Others are so in the models as in the code, and the properties leave
them out:

- An end that cannot be logged (a full disk, a locked database) is passed over, and
  the entry says "running" until a restart (`projects.py:691`,
  `deploy_routes.py:208`, `firmware_routes.py:308`); hence the exception in
  `RunSettles`, `JobSettles` and `NothingLeftBusy`.
- A playbook that is killed at its deadline, or whose result cannot be parsed, loses what
  switches have confirmed (`jobs.py:166-194`), as does an exception in the worker
  (`deploy_routes.py:199-203`).  The switch then runs that push while the page goes by
  the one before, and says *Same as last push* of that one's config; hence `Lost` in
  `SameIsOnSwitch`.
- Removing a VLAN's block means to drop its addresses but looks for them under the block's
  name, where none are (`project.py:860`).  A pool delegated there afterwards hands out
  the gateway; hence `stray` in `GatewaysInVlans`.
- A generation brings back the config of a switch that was removed while it
  ran (`docker_runner.py:204-223`), and the next one takes it along; hence `caught` in
  `FilesFollowListing`.
- The lock is not exclusive across a deletion or a transfer, because the lock file
  is removed while others wait on its inode (`project.py:199`); hence
  `OverlapOnlyAfterUnlink`.
- A third switch's release of a shared address takes both holders' record
  (`project.py:961`, against `:941`).
- An exception between adding a job and starting its worker leaves the job
  unfinished until a restart (`projects.py:649`, `firmware_routes.py:283`); hence
  `RunSettles` and `JobSettles` start with the worker.
- Settings changed after the fingerprint was read and back again after the copy
  leave a config that looks current and is not (`projects.py:646`); versions
  here never come back.
- A run is marked finished before its configs are hashed (`projects.py:685`), so its
  entry may count the next run's output.
- A transferred project's jobs keep the old owner's key (`deploy_routes.py:218`), so
  the same switch is let in again; hence `ExclusiveSwitch` speaks of one key.
- The hash in a push's entry is taken before Ansible reads the file
  (`deploy_routes.py:513`), and a restart closes a push's entry without its
  results (`audit.py:273`); hence the other conditions of `SameIsOnSwitch`.
- A reconciliation opens files for writing that it found missing before
  (`utils.py:208`), and changes the fingerprint with no record of who did
  (`projects.py:530`).
- An SVI address that two switches share has its partner's name erased when the
  one that saved last saves again, and records of interfaces that have gone are
  never cleared by a save (`project.py:1493`; the test at `test_project.py:803`
  has "the peer recorded rather than overwritten"); `SupernetPools` records no holders.
- A browser whose SSO session has stopped loading and that signs in with a
  password keeps the SSO mark in its cookie, and the session is limited like an
  SSO one (`sso.py:512`, against "A local admin's password session is never
  limited here"); `Overdue` has it so.
- Removing switch `a` removes the configs of `a_b` (`utils.py:148`); the instance of
  `HostsFile` has no such names (`Starts`).
- An exception while switches are scaffolded leaves them listed without files
  (`utils.py:126`); hence `faults = 0` in `FilesFollowListing`.

## What is not modelled

- The text of `host_vars`, configs and inventories; fingerprints and hashes are
  taken to tell contents apart.
- Who holds an SVI address, and whether it is a gateway or an active gateway.
- A playbook's forked workers outliving it when it is killed: a switch confirms while its
  job is at work only.
- A limit that is a hand-made Ansible pattern: a generation is for all switches, a group or
  named ones, as its page offers (`project_generate.html:47`, `:129`), so that what NetForge
  takes for the limit's scope is what Ansible does (`projects.py:604`, `635`).
- Two admins' links at one time: `Accounts` has one slot for a link under way.  The unique
  index on the identity refuses the second of two.
- The list of sign-in events, the provider's settings and discovery, and the
  text of names; the parsing of archives.
- The login throttle, the output buffer and uploads of images: planned as below.
- Checks, search, cabling, change summaries: read-only.  Reading switches: network
  input and output with no state.  Pages and styles: presentation, except the load
  and save of the editor.

## The plan

In this order, each with its runs, and with theorems where marked (T):

1. `ProjectLock`, `PtpPool` (T), `UniquePool`, `SupernetPools` (T),
   `GenerateJobs`, `SwitchJobs`, `EditorSave`: done, with the theorems above.
2. `HostsFile` with `Inventory`, `Sharing` with `AccessTable`, `Accounts`: done.
3. Proofs of every safety property, action property and refinement of those modules: done.
4. `OutputBuffer`, `LoginThrottle`, `FirmwareImages`: small modules with bounds at
   their limits.
5. Pure algorithms against a definition, over bounded inputs: `find_pool`'s longest
   prefix, `suggest_free_block`, `supernet_free_blocks`, `build_block_tree`.
