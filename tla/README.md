# PMux: verification project

PMux (`src/`, Go) is a command line and terminal front end that installs,
configures, updates and supervises a local CLIProxyAPI core. It keeps its state
in private files and may be run by several processes at once (the TUI, commands,
scripts). What is hard about it is not computation but what is left on disk, at
the proxy or with a service manager when processes interleave, die, lose power or
meet failing calls, and when others (the proxy, its panel, an editor, Claude)
change the same things. The modules here model those protocols, check them with
TLC and prove the central facts with TLAPS.

## Inventory

| Component | State | Operations | Interacts with | Hard behaviour | What makes it correct |
|---|---|---|---|---|---|
| Operation journal, `internal/journal` | one JSON-lines file | Begin, Record, Commit, Fail, Interrupt, Rollback, Pending | governance, doctor | torn and unsynced appends, read-then-append races | every file it writes is one it later accepts; a closed transaction is never reopened |
| Audit log, `internal/audit` | one JSON-lines file | Prepare, Append, Entries | governance | torn tails | every complete line parses; a success is backed by the journal |
| Mutation lock, `internal/adapter/lock` | OS lock on `pmux.lock` | TryAcquire, Acquire, WithMutation, Release | governance, updater | holder dies, error paths | at most one holder; always given back |
| Governed execution, `internal/runtime/governance.go` | none of its own | NewGovernedUseCases (startup recovery), Execute | the three above, every mutating command | crash between any two steps, commit errors, stale pending set | a command runs only when durably begun and dispatched; outcomes are final |
| Managed proxy updater, `internal/adapter/updater` and `proxyUpdateService` | pending record, `current` link, `versions/`, service definition, `state.json` | UpdateProxy, recover | service manager, state store, installer's pointer | crash, failing rollback, repeated recovery | versions switch atomically; a failed update changes nothing; the service is restored |
| Self updater, same package | pending record, executable, `.pmux-previous`, helper status | UpdateSelf, recoverSelf, Windows helper | lock | helpers in other processes without the lock, fingerprints | PMux is not deleted; what a record names can be restored; a reported outcome is true |
| Settings and state store, `internal/state` | `config.json`, `state.json`, backups | Load, Save, recover, prune | all commands | damaged documents, commands and repairs without the lock, retention | commands with the lock lose no change to one another; a damaged document loses one save |
| Proxy configuration, `internal/adapter/configfile`, `internal/runtime/config_edit.go`, `safeModeFix` | `config.yaml`, key sidecar, fingerprint in `state.json`, backups | Read, Plan, Apply, Edit, Restore, fix and its rollback | proxy, editor, doctor | concurrent writers, failure after a rename | no foreign change is overwritten unnoticed; a result says what is in place |
| Core installer and managed setup, `internal/adapter/installer`, `internal/runtime/runtime.go` | version slots, `current`, setup record, secrets, service, state | Install, Rollback, BeginSetup, Recover, managed | service, config, state | undo of many steps, crash between record and effect | a setup is complete, undone, or recorded |
| Adoption and hardening, `internal/runtime/runtime.go`, `adopt_service_*.go` | `config.yaml`, keys, state, references, PMux's and a foreign service | adopt, hardenAdoption, Replace | service managers, config, state | one undo for everything; service manager's own copy of a definition | all or nothing; the service that ran before runs again |
| Foreground service, `internal/adapter/service/foreground` | child process, PID record, in-memory state, log buffer | Install, Start, StartAttached, Stop, Restart, Logs, wait goroutine | health poller, `service logs` | concurrent start, stop and exit; slow followers | one child, known to its manager; every command ends; a follower misses nothing |
| Native service backends, `systemd`, `launchd`, `windowstask` | definition file, what the service manager has loaded, process | Install, Start, Stop, Restart, Uninstall, Status | router, setup, updater | others change the definition; answers that lie | only PMux's own definition is touched; success means it was done, and where it does not, which answer was not had |
| Provider authentication, `internal/adapter/auth`, `providerLogin` | session map, session of the proxy | Begin, Poll, CompletePaste, Cancel, Vertex import | management API | cancel against answer and deadline, lost requests | a login ends and leaves no session; complete only with a new account |
| Management API client, `internal/adapter/mgmtapi` | none; lists and settings of the proxy | verified writes, restores | panel, proxy | lost answers, other writers, the ban after rejected keys | a verified result is true; a command does not go on after a rejected key |
| Model catalog and launch, `internal/adapter/models`, `internal/adapter/client`, `prepareLaunch` | cache file, Gemini's home | Refresh, Select, Preflight, Launch | management API, client binaries | partial sources, stale entries | a client gets a model that is live; the cache is one whole answer |
| Claude slots, `internal/adapter/client/claude`, `configSetPersistentSlot` | Claude's `settings.json`, ownership record, PMux's configuration | Upsert, Unpersist, config set | Claude, state store | three files, another writer | original settings can be had back; all or nothing |
| Terminal interface, `internal/tui`, `cmd/pmux/tui.go` | screen model, pipe, channel of events | keys, events, results | router | messages in any order | one operation at a time, which the user can end |
| Guided setup, `internal/tui/setup.go`, `cmd/pmux/setup_tui.go` | journey's progress | stages, resume, cancel | setup, login, launch | results after leaving | resumed where it was |
| Doctor checks, CLI, discovery, bundle, subprocess, platform, release source | session memory | read-only or presentation | everything | little of its own | not modelled, see below |

`PROJECT.json` lists all components with what is left out of each, and under
`hazards` every place where the code is hard to test, with the property that
covers it or the reason why none does.

## Modules

| Module | Models |
|---|---|
| `AppendFile` | an append-only file with a torn tail and a durable prefix; both logs are instances of it |
| `Journal` | `journal.go`: one action for the read at the start of a call, one for each way the call ends |
| `JournalFold` | the loops of `readEvents` and `fold`, to check the formulas `Readable`, `Foldable`, `InProgress` and `RequirePending` of `Journal` against them |
| `MutationLock` | `lock.go` with the kernel's release of a dead holder |
| `Governance` | `governance.go` composed with journal, lock and audit log; crashes, power loss, I/O errors |
| `OpHistory` | abstract: each operation has one final outcome, and only completed ones are reported as successes |
| `ProxyUpdate` | `UpdateProxy`, recovery record, rollback, recovery, pointer, `proxyUpdateService` |
| `VersionSwitch` | abstract: selected and installed versions change together, to a verified version |
| `SelfUpdate` | `UpdateSelf`, its record and recovery, activation on Unix, the detached helper on Windows |
| `ForegroundService` | `foreground.go` in several PMux processes, with its wait goroutine and PID record, over `MutationLock` |
| `LogStream` | `logBuffer`, its followers, and `serviceLogs` |
| `ManagedSetup` | `managed` and its undo, the installer with its durable record, recovery at every start, over `MutationLock` |
| `Adoption` | `adopt`, `hardenAdoption` and its undo, `adopt_service_unix.go`, over a systemd user service |
| `ConfigFile` | Read, Plan, Apply, Edit and Restore of `config.yaml`, the safe-mode fix under `FixRunner` |
| `StateStore` | a document of `internal/state`: load with repair, backup, prune, save; backup and restore of PMux's configuration |
| `ClaudeSettings` | `configSetPersistentSlot`, plan, Upsert and Unpersist of `client/claude` |
| `ManagementWrite` | every command that changes something through the Management API |
| `ProviderLogin` | `auth.go` with `providerLogin` and the Vertex import |
| `ClientLaunch` | `prepareLaunch`, `launch`, the catalog's Refresh, the four launchers |
| `ServiceBackend` | the lifecycle operations of systemd, launchd and Task Scheduler |
| `ServiceContract` | abstract: what a lifecycle operation promises, whichever backend carries it out |
| `TerminalShell`, `SetupWizard` | the message loops of the two screens |
| `MCPrograms`, `MCLocalFiles`, `MCInteractions`, `MCWaiting` | the above composed, for TLC and for the proofs; `MCWaiting` has `Governance` |
| `GovernanceProofs` | theorems about journal, audit log and governance |
| `ProxyUpdateProofs`, `ForegroundProofs`, `ServiceBackendProofs` | theorems about those three |
| `ProgramsProofs`, `LocalFilesProofs` | theorems about the components of `MCPrograms` (self-update, adoption, and the rest by reference) and of `MCLocalFiles` (Claude's slots, state store, managed setup, and the updater by reference) |
| `InteractionsProofs`, `WaitingProofs` | theorems about the components of `MCInteractions` (Management API, `config.yaml`, launch, the two screens, and the backends by reference) and of `MCWaiting` (logins, logs, and governance by reference) |

### Journal and governance

`jlines`, `jtorn`, `jsynced` are the journal file; `alines`, `atorn`, `asynced`
the audit log; `lock` the OS lock. `loaded[p]`, `snap[p]` are the local `events`
of the journal call process `p` is in: the read and the append of one call are
separate steps, so that other processes may come between them. `pc[p]` follows
`Execute` and `recoverInterruptedPending`; `tx[p]` and `todo[p]` are their local
variables. `issued`, `mutated` and `faults` are history variables.

A line that was appended behind a torn tail does not parse (`ok` is FALSE). An
append that returns an error may have had any part of its effect. Power loss
keeps the synced lines and any prefix of the others, with a torn tail if some
are lost. `inner.Execute` is one step with any outcome; the recovery of an
in-process goroutine of the TUI is the same as that of a process.

Left out: timestamps (Pending orders by them, hence recovery takes the pending
transactions in any order), redaction, permissions, the first creation of a
file. A transaction ID is drawn at most once, as 128 random bits are.

### Proxy update

`record` is the pending file (its phase, the two targets, whether the service
was running), `pointer` the `current` link, `slots` the version directories,
`unit`, `running` the installed service definition and what runs, `seen` the
version in `state.json`. `pc` names the call an update or a recovery makes next;
`OkNext` and `ErrNext` are its control flow, and one action per kind of call
gives its effect and its failure, which may come before, in or after the effect.
A link target is a directory and whether its path is absolute: the updater
compares targets as strings and the installer writes a relative one.

Updates exclude each other by the lock, so there is one process, which may die
at any step. The service may die at any time; a user starts or stops it only
between updates. Download and extraction are one step (`Prepare`).

### Self-update

`exe` and `previous` are the contents of the executable and of the retained
copy; a content is the release it is, so its fingerprint and the version it
answers with are the content itself. `record` is the pending file, `status` the
file the helper leaves, `helper[h]` the step and the plan of a detached helper,
`pc` and `job` the running update. The build (`platform`) is chosen at the start.
Recovery at the beginning of an update and the deferred one are the same steps;
`job.then` says where they return to. A release is verified by the answer of the
executable at that path, which may fail for any reason; it succeeds only for the
right release. `Reinstall` is another installer, which takes no lock.

`touched` and `clashed` are history variables. `touched` says that between the second
fingerprint and the end of the update somebody else could have changed the files,
which the code has no means to notice; the properties that compare contents leave this
out, `ExecutableSurvives` does not. `clashed` says that a helper was launched while
another one was at work. Nothing in the code prevents it, helpers hold no lock, and
two of them can lose the executable: helper 2 moves it aside between the two moves of
helper 1, both roll back by moving the same retained file, and the later rollback
removes the executable that the earlier one restored (`selfhelper.go:108-118`).
`ExecutableSurvives` is claimed until then. The phase of the record is left out:
`recoverSelf` does not look at it.

### Foreground service and its log

`child[c]` is a child as the operating system sees it (`exited` until its parent
waits for it), `parent[c]` the living PMux process that started it, `waiter[c]`
the goroutine in `Manager.wait`, `record` the PID file, `mgr[p]` the `Manager` a
process keeps between commands (`owned`, `process`, `externalPID`, `state`),
`pc[p]` and `op[p]` the command in progress. What the code does under
`Manager.mu` is one step; starting a child, writing the record, waiting for
health and waiting for the end are steps of their own. Commands that change
something take the mutation lock when they are invoked; reading the status, the
wait goroutine and an attached start that has passed its health gate do without.
A PMux process may exit or be killed at any step and its children live on.
Assumed: a PID is used once, and a recorded child that lives is recognised
(`processOwned` compares paths and a start time). A record that cannot be read or
parsed is taken for none (`recoverPID`); `unread` says that this has hidden a living
child.

In `LogStream` lines are numbered in the order in which the core writes them.
`lines` is the ring of `logBuffer`, `updates` the follower's channel, `copier` the
goroutine that `reader` starts, `pipe` what it is writing, `shown` what
`serviceLogs` has printed and `retained` what it will sort and print at the end.
Snapshot and subscription are one step, as they are under one mutex; a write to a
full channel drops the line for that follower (`dropped`).

### Managed setup

`record` is `.install-pending.json`: its stage and which paths and checkpoints it
names. `staged` is the content of the staging directory of setup number `setups`
(an older one is no longer used), `slot` the version directory, `pointer` the
`current` link, `files` the private files, `installed` and `referenced` the two
documents of the state store, `unit` and `running` the service. A setup always
installs the same version, so contents are left out. `Setup`, `Undo` and
`Recovery` list the calls of `managed`, of its deferred undo and of `Recover` in
order; one action per kind of call gives its effect and its failure, which may
come before, in or after the effect, and `OnError` says which deferred functions
then run. `Recover` reads the record first (`job.mem`) and works from that; it
runs at the start of a process without the lock (`NewNative`), at the start of a
setup, and after a setup that failed.

Two history variables bound what is claimed. `kept`: a failing call of the
service manager, the pointer or `Complete` had its effect, or a call of the undo
failed; the code ignores those errors. `disturbed`: a process that started has
recovered while another one was in a setup, or from a record that had changed
since it was read. The code does not exclude that, and a disturbed setup may
report success without its service, so the run stops there.

### Adoption

What is on disk is named by the attempt that wrote it, 0 for what was there
before: `config`, `keys` (sidecar and management key), `refs`, `entry` (the
installation in `state.json`), `def` (PMux's unit file). `loaded` is the
definition systemd knows and `run` the one the process was started from: a
daemon-reload makes the first `def`, a start makes the second `loaded`.
`foreignDef`, `foreignRun` are the service that ran the installation before.
`job` has the local variables of `hardenAdoption` that its deferred undo looks at
(`serviceInstalled`, `foreignRollback`, what existed). Each call of the undo may
fail (`kept`); a file that exists may be taken for a missing one, because
`readExisting` does not tell an unreadable file from a missing one (also `kept`).

### config.yaml

`file` is a content: the proxy key, the supported settings, and the rest. `job`
has the snapshot that was read, the planned content (`want`), the backup and the
result. Apply is `Check`, `Backup`, `Write`, `Torn`, `Verify`, `Revert`: the code
compares the fingerprint once, before its backup (`configfile.go:227`); `Write` may
fail on either side of the rename, and `Torn` then reads the file back, which may
fail too. The fix adds the sidecar (of an installation that has one: `managed`;
it may be missing and is then made, and removed again by the rollback), permissions,
the probe and the fingerprint in `state.json`, and `FixRunner`'s rollback. `Foreign` is
any other writer, at any step. `unseen` says that another writer changed the file
after that comparison; `theirs` is what the last other writer or finished command
left, `recorded` the fingerprint when the command began. `foreign` counts the changes
by others since then. `slip` notes a write that failed after its rename without the
command noticing: of `config.yaml` when reading back failed as well, or of
`state.json`.

### State store

A content is the set of changes it holds, so losing a change is visible. `saves`
are the backups before each save, pruned to `Retention`; `copy` is the backup
that `config restore` uses. A load that finds the document damaged copies it
aside, picks the newest valid backup and writes it back, without the lock. Commands
that change a document hold the mutation lock from before they load it, if
`IsMutation` lists them. `profiles set` and `profiles remove` are not listed and save
what was loaded at the start of the command (kind `profile`). `mixed` says that a
repair came between, or that such a save met another command that had read the
document and not yet saved it: then changes are lost, and nothing is claimed.

### Claude's slots

`settings` is Claude's file as far as it matters (PMux's environment or not, which
model, what others edit), `record` the ownership record with the backup's
fingerprint, `backup` the file it names, `config` the slot in PMux's
configuration. The actions follow plan, confirmation, the second read, backup,
`settings.json`, record, PMux's configuration, and the undo after a failing one.

### Management API

`list` is the resource: client keys, provider keys, aliases, exclusions, enabled
accounts or plugins, or the one value of a setting. A request is answered, or is
lost before or after it took effect, or is rejected, which `rejected` counts.
`job.kind` names the family of commands: a provider key that is created and a setting,
which are read back and put back (`WriteCreated`, `WriteSetting`), a list whose
answer is believed (`WriteEdited`), one position (`WritePosition`), a name
(`WriteNamed`), or account after account. A provider key may be created although it
is there, because `ApplyAPIKey` compares an ID that `CreateProviderKey` does not
write; its read-back then confirms a PUT that had no effect.

### Logins

`remote` is the session at the proxy, `active` the entry in the authenticator's
map, `usable` the credential files that work. Time is counted in polling
intervals (`left`, `due`). `Authorize` and `Reject` are the user at the provider.
The interrupt of the context is possible in every wait.

### Launch

`serves` is what each account serves, `cache` the models of the cache file,
`ask` and `found` the discovery that goes from account to account. `live` and
`offered` are history: what a source has last answered to its end, and what the
selection was made from.

### Native backends and their contract

`def` is the definition at PMux's canonical name, which may be PMux's of some
version, foreign, or missing; `loaded` what the service manager has loaded, `run`
what the process was started from. `job` is the operation in progress: each
backend has its own order of calls (`CheckInstall`, `WriteDefinition`,
`DaemonReload`, `EnableUnit` and their undo; one COM call each for tasks). launchd has
`BootOut` for a stop, `ReadJob` for its status, `Rekick` for the restart of a job that
is loaded, and `Unload`, `BootStrap`, `Kickstart` for one that is not: the answer to
`bootout` is not looked at, a job that is still loaded passes for bootstrapped, and
a plain `kickstart` of a job that runs is a success without an effect
(`launchd.go:430-444`, `:535`). Every failure of `launchctl print` is a stopped job
(`:273-284`); `job.blind` says that it was loaded. One launchd domain is modelled, the
fallback from `gui` to `user` is not.

`ServiceContract` is instantiated with the variables of the same names, `KeepsContract`
is the refinement. The contract of `docs/services.md:3` is one for every backend. The
code does not keep all of it under launchd, so the abstract specification says
where: a backend may be `lenient`, it then may lose sight of the service (`blind`), and
a stop or restart that succeeds after that promises nothing of the process.

### The two screens

In `TerminalShell` `view`, `prompt`, `pending`, `busy`, `cancel`, `writer` are
fields of `Shell`; `op[o]` is the goroutine of operation `o`, `events` the bounded
channel, `waiter` the command that waits for its next message, `pipe[o]` and
`write[o]` the pipe for a pasted callback and the goroutine that writes to it. In
`SetupWizard` `screen` is `SetupModel`, `action` the goroutine of the facade. Both
models handle one message at a time. A returned `tea.Quit` is a message like
others (`leaving`, and `quit` of the wizard), so keys and results are still handled
before it. A launch from the shell is only noted (`handoff`) and carried out when the
program has ended (`Leave`); so is one that the setup asks for, which may have been
opened while an operation of the shell was running.

## How the components are composed

Where components share state they are one module: `Governance` composes journal,
lock, audit log and command; `ForegroundService`, `ManagedSetup` and `StateStore`
have the lock; `ProxyUpdate`, `Adoption` and `ServiceBackend` the service they act
on. The commands that `IsMutation` lists exclude each other by the mutation lock, which
`Governance` establishes: setup, provider login, enabling, disabling and removal,
favorites, the service commands, settings with edit, backup and restore, updates,
and doctor and logs when they write. `profiles`, client keys, aliases, exclusions,
`providers reset-quota` and plugins change something too and are not listed. The first
save `config.json`, which `StateStore` has as commands without the lock; the others
change lists at the proxy, where in `ManagementWrite` another command is like any
other writer. What can still interleave with a command (other programs, children,
detached helpers, the user, the start-up recovery of another process) is in the
module of that command.

Components that share nothing are checked in one run without a product of their
states: a variable `part`, chosen at the start, says which of them moves, and the
others keep their first state (`...AtRest` picks one). A property of the part that
moves is then the same as in a run of its own. A property of a part that rests
holds of its first state, which the run of that part also checks; a temporal
property of it holds because nothing it waits for is enabled. What this
composition does not show is two parts in motion at once: commands of two parts
exclude each other by the lock, or they touch nothing in common. The commands
without the lock are modelled beside others where they write, in `StateStore` and
`ManagementWrite`.

## Runs

| Run | Question | Result |
|---|---|---|
| `programs` | is what is selected, installed, running and recorded in agreement, or recoverable, through self-updates, service commands and adoptions? | holds |
| `local_files` | do loops and formulas of the journal agree, are an update of the core and a setup all or nothing, can PMux's documents and Claude's settings be had back, and is no change lost between commands with the lock? | holds |
| `interactions` | are results true beside another writer of `config.yaml`, a panel, a service manager, a user and changing accounts? | holds |
| `waiting` | do the logs stay acceptable and the outcomes final, and does everything that holds the lock or waits come back, and leave or show what it says? | holds |
| `managed_setup_refused` | can recovery carry out the records setups write? | violated |
| `proxy_update_refused` | does recovery accept the records updates write? | violated |
| `proxy_update_stale` | does "same version" mean the version is selected? | violated |
| `self_update_refused` | does recovery give up only on an executable that was replaced? | violated |
| `foreground_duplicate` | are duplicate foreground instances rejected? | violated |
| `config_refused` | does a change that PMux refuses to overwrite stay? | violated |
| `adoption_refused` | does a failed hardening run the service that ran before? | violated |
| `management_rejected` | does a command stop after one request that is rejected? | violated |

Bounds.

- Governance (in `waiting`): two processes, two transactions, two faults (crash, power loss or
  I/O error). Two processes are the smallest number with a reader and a recoverer
  in each other's way; two transactions let one be leaked while another runs; two
  faults allow a failure during the recovery from a failure.
- The theorems below have none of the bounds of this list, except where they name
  one.
- Updates of the core: three versions, so that a target may be new, current or an
  older one that is kept. Self-updates: two releases and two helpers, both
  platforms; with two releases the foreign content is always one of the two that
  matter. Updates, crashes, failures and foreign installations are not bounded. The
  constraint `Unclashed` ends a behaviour at the launch of a helper beside another,
  from where on `ExecutableSurvives` says nothing; that the record stays restorable
  also there is proved.
- Foreground: two PMux processes, two children (interchangeable), any number of
  commands and crashes; a third child can only repeat the relation of old and new
  that two have. In `waiting` there is one child: what a command waits for is the
  child it stops, and a restart in which no other can be started is a failed one.
- Adoption: two attempts after whatever an earlier setup left, so that a second
  one meets what a failed or interrupted first one left.
- Journal lines: files of up to three lines over two transactions, including lines
  no program of PMux writes; the loops carry only the last number and one state
  for each transaction, so three lines reach every pair of state and next line.
- Managed setup: two interchangeable processes, two setups that get as far as a
  staging directory; a third would start from the same as the second. The
  constraint `Undisturbed` ends a behaviour where the properties stop to say
  anything.
- `config.yaml`: two keys and the template's, two settings, one rest, and two
  foreign changes while a command runs, at any moment of it; commands, and changes
  between them, are not bounded. Two is what it takes to show a change that is taken
  back, which comparing a content with an earlier one does not see; the properties
  name what the code then does (`LeftByFailure`, `foreign < 3`). With one value for
  the rest no change touches only unsupported settings; the code carries these over
  from what it read, as it does the settings a command does not name. The theorems
  have no such bounds.
- State store: two interchangeable processes, two changes, two damages, one
  backup retained (the code keeps ten; with one, pruning is at its limit at once).
  `Undisturbed` ends a behaviour here too when saves have mixed.
- Claude's slots: two models, two edits of others, so that one may fall into the
  command and one before it.
- Management API: three entries, lists of up to three when one is created, two
  changes of others (in `management_rejected` two entries and no others). Backends: two versions,
  one foreign change of the definition (all three backends). Terminal interface:
  two operations of two events each, a channel of one (16 in the code), so that it
  is full. Launch: two models, two accounts, two changes; `codex` prepares like
  `claude` and is left out of the run.
- Logins: two accounts, a deadline of two intervals, one change by others. Logs: a
  ring of three, a channel of two and five lines, so that both overflow.

Deadlock is checked in `programs`, `local_files` and `waiting`.
Parts that end at a bound (the journal at its last line, the last adoption, a log
that has been read) may rest there; the actions `Rest`, `AdoptMoves` and `LogMoves`
say so. It is not checked in `interactions` and `adoption_refused`, where a user who
leaves a screen, or the last attempt, ends the behaviour.

Fairness. `WaitingEnds` has four parts. That a mutation gives the lock back needs
`WF_vars(Step(p))`, which says that a running process keeps executing its code, as the
operating system's scheduler provides. Starting a process, giving it a command and
letting it exit are not in `Step`. It also takes for granted that a command returns
(`InnerDone`). That a service command ends needs the same of that command (`Progress`)
and of each wait goroutine. That the caller's context ends (`StopErr`) is not part of
it: a stop ends because the time limit of `Stop` leads to a kill, a killed child is
waited for, and the goroutine then closes the channel. A login needs that requests end
within their contexts and that time passes; nobody has to answer the challenge.
Following a log needs that the copying goroutine and the command are scheduled; the
core need neither write nor exit, and the user need not interrupt.

What the properties say:

- `JournalNeverCorrupt`: the journal is always readable, in spite of torn appends
  and of two processes appending. A corrupt journal would refuse every later
  mutation.
- `DispatchIsJournaled`: while a command runs, stable storage holds its begin and
  its dispatch, and nobody has interrupted it.
- `AuditedSuccessIsCommitted`: a success in the audit log is backed by a durable
  `completed`, and nothing contradicts it.
- `RecoveryLeavesNoneInProgress`: a startup recovery that ends without error has
  left no transaction in progress, so its set of pending ones was not stale.
- `OutcomesAreFinal`: Governance implements `OpHistory` on what is durable.
- `WaitingEnds`: whatever holds the mutation lock or waits comes back: a mutation, a service command, a login, the following of a log.
- `FoldsAlike`: formulas and loops of the journal agree.
- `SettledIsConsistent`, `RecordIsRecoverable`, `ServiceIsRestored`: what holds
  between updates of the core, during one, and when a record goes away.
- `UpdateIsAtomic`: ProxyUpdate implements `VersionSwitch`; the version selected
  is the one to which recovery would return as long as a record exists.
- `ExecutableIsRecoverable`: the executable and the retained copy are not both gone
  before a Windows helper is launched beside another one (`clashed`); as long as a
  record with a fingerprint exists the release with it is there to go back to,
  whatever the helpers do.
- `ReportIsTrue`: success means the release asked for, an error means the old one
  unless it reports a failed rollback.
- `RejectsDuplicates`: one process after the other, none starts a second child, unless
  the record of a living child could not be read, which counts as no record.
- `ManagerKnowsItsChild`: no order of the sections of start, Stop, Uninstall and
  the wait goroutine loses a living child, removes the record of the child started
  next, or leaves a state that contradicts the child.
- `AdoptionIsAllOrNothing`: a hardening that succeeds is complete; one that fails
  has left the adoption record and otherwise what it found, up to which
  definition the service runs (see 7 below).
- `SetupIsAllOrNothing`: a setup is all or nothing, through two deferred functions
  that run in reverse order and know different things.
- `UnfinishedIsRecorded`: outside a setup, half an installation always has a
  record. It holds because an interrupted setup's record is never cleared (see
  4 below): `Recover` does not take the installation out of `state.json`, so
  with a recovery that worked this property would need a fix there too.
- `EditsWhatWasRead`: a command that was made for one content of `config.yaml`
  never replaces another one, except in the window between comparison and rename,
  and except for an edit during which others wrote three times.
- `OutcomeIsWhole`: a change or fix that reports failure has left what was there
  (or another writer's version), one that succeeded what it planned; a fix leaves
  the key's copy and the recorded fingerprint as before when it fails and new when
  it succeeds. The property names what the code does not keep: a fingerprint that
  SaveState wrote and reported as failed, a candidate whose write and reading back
  failed, and a foreign change a fix has copied that was taken back since.
- `ChangesSurvive`, `RepairGoesBackOneSave`: no change is lost to another process
  and a repaired document is the one before its last save, until a repair, or a
  `profiles` command, neither of which takes the lock, comes between the load and
  the save of another (`mixed`).
- `SlotIsRecoverable`: the backup of Claude's settings is the user's original, and
  a slot is the same in both configurations.
- `VerifiedOutcome`: a verified write that reports success has left what it
  wanted, one that fails what it found, whichever answers were lost. A provider key
  that was there already may be confirmed by the older one, in which case it is
  there once.
- `KeepsContract`, `RestartRunsInstalled`: every backend implements
  `ServiceContract`, whose launchd may stop or restart nothing and succeed when the
  job could not be read; under systemd and Task Scheduler a restart after an install
  runs what was installed, while launchd keeps a job it has loaded.
- `OneAtATime`: the shell is busy exactly while an operation's goroutine lives, two
  never run at once, and a login that waits for a pasted callback can be ended
  until the program was told to quit. Nothing is claimed of launches, which can
  come beside an operation.
- `ResumesWhereItWas`: a guided setup that was left is resumed where it was.
- `LaunchIsLive`, `CacheIsWhole`: a client runs a model that a live source listed in
  this launch; the cache is one whole answer.
- `LoginIsOver`: an ended login has left no session, and is complete only if an
  account became usable meanwhile.
- `FollowsWithoutGap`: a follower sees each line once and in order, from the first
  of its snapshot to the last the core wrote, unless its channel overflowed.

Some properties are conjunctions; their parts (`ExecutableSurvives`,
`RecordRestorable`, `SuccessIsWhole`, `FailureIsUndone`, `BackupIsOriginal`,
`SlotIsAllOrNothing`, `LoginLeavesNothing`, `CompleteIsNew`, `OneOperation`,
`Answerable`) are commented where they are defined.

### Disagreements found

1. `RecoveryIsNeverRefused` of `ProxyUpdate`: the installer's first pointer is
   relative, recovery wants an absolute one; a failed first update blocks every
   later one.
2. `SameVersionIsSelected`: the current version is read before recovery rolls it
   back, and the update then reports success without having updated.
3. `RefusedOnlyIfReplaced`: the record of a self-update lacks the fingerprint of
   the executable until activation begins, so a failure before that makes
   recovery report an executable it cannot restore, and later self-updates fail.
4. `RecoveryIsNeverRefused` of `ManagedSetup`: the record of a setup names an
   extraction directory below the cache root, `Recover` removes only what is below
   the data root. A setup that fails from the extraction on leaves a record that
   cannot be carried out, and no pmux command starts any more.
5. `NoDuplicates`: a PMux process that has registered its manager never reads the
   PID record again and starts a second core next to that of another process.
6. `RefusedIsKept` of `ConfigFile`: the safe-mode fix notes `changed` before Apply;
   when Apply refuses because another writer has changed `config.yaml`, the
   rollback of the fix writes the content of the start over that change.
7. `PriorServiceRuns` of `Adoption`: the undo of a hardening restores PMux's old unit
   file behind systemd's back and then starts the service: the definition systemd
   has loaded, which is that of the failed hardening.
8. `StopsAfterOne`: the documents say that PMux stops after one rejected request;
   `config set` whose first request is rejected reads back and puts back with the
   same key, three requests in all.

`local_files` starts from both kinds of pointers, so what
holds there holds in spite of 1: a refused recovery leaves its record and a state
from which it could still be undone.

### Observations that no run checks

Some modules state further properties that the code does not have; they are left
out of the runs because what they contradict is said less definitely, or because
the properties of a run name the exception: `NothingMixes`, `ComparesBeforeWriting`,
`SuccessIsAchieved`, `LaunchesAlone`, `DrainsEvents`.

Journal and setup

- A process that starts while another executes a command skips the recovery of
  the journal (`governance.go:115`, "Another live PMux mutation owns recovery"),
  but the holder recovers nothing; a leaked transaction stays in progress until
  some process starts while the lock is free.
- `Recover` at the start of a process takes no lock (`runtime.go:106`), although
  mutations do (`docs/security.md:42`).
- Nothing sets `Activated` or `CreatedVersion` of the setup record, so those
  branches of `Recover` are dead; the management key of a failed setup stays.
- A hardening keeps no record: a crash leaves a mixture, and the definition of the
  foreign service, which is kept in memory only, is lost. `readExisting` takes an
  unreadable file for a missing one, and the undo then deletes it. The rollback
  overwrites concurrent changes of `config.yaml` unchecked. A failing call inside
  `Replace` happens before the undo is registered. The enabling of a unit is not
  undone. `--harden` without `--yes` fails after the adoption was recorded.

Files

- `config restore` replaces `config.yaml` without a backup, a fingerprint or a
  validation (`docs/security.md:40`); Edit drops parts it does not support. A
  safe-mode fix whose SaveState fails after its rename, or which dies, leaves the
  new fingerprint in `state.json` after the rollback. When Apply's verification
  does not match, it restores the prior bytes over a foreign change.
- A load of a damaged document repairs it without the lock and may replace one
  that is whole again. `profiles set` and `profiles remove` save the configuration
  loaded at the start of the command, without the lock, and so undo what another
  process has saved since (`NothingMixes`), although `docs/security.md:42` says
  "Mutations acquire an OS advisory lock". `RebuildState` and `ResetConfig` have no
  callers.
- A crash, or an error after the rename, between Claude's settings and their record
  makes PMux's own version the next backup, or refuses later updates. Unpersist is
  called by no command. OpenCode's launcher gets no preflight of its model.

- Two Windows helpers may be at work: a second PMux launches one while the first
  waits for its parent, and neither takes the lock. One moves the retained executable
  back, the other removes it, and PMux can be gone (`clashed`).

Proxy and services

- Commands over several accounts may fail after some; a write reported as failed
  may have been applied; the removal of a key by its index can remove another one
  beside a concurrent change; the restore after a failed creation can overwrite
  other writers' entries (`ComparesBeforeWriting`). A provider key that exists is
  created again, since what is compared is an ID that is never written.
- The fallback of a login to the CLIProxyAPI binary is never registered
  (`runtime.go:652`), although `docs/providers.md` describes it. A new login of an
  account that was usable before reports that there is no usable credential.
  The prompt for a pasted callback has no deadline of its own.
- Every failure of `launchctl print` counts as stopped, so Stop and Uninstall may
  report success while the job runs; a restart whose bootout fails finds the job
  loaded and running and succeeds without a new process (`SuccessIsAchieved`;
  `docs/services.md:3` promises one contract); `kickstart -k` runs the definition
  that was loaded before. The health check does not know which process answers on
  the port. A task that an older PMux defined is refused as changed by others.
- A follower's subscription is removed only when the core exits; a line that does
  not fit its channel of 64 is dropped; entries of the other sources come after
  following ends; the filters apply after the last lines were taken, so fewer are
  shown; the order of sources is not that of `docs/services.md:78`.

Screens

- A key that is handled between the launch of a client, or the wish to quit, and
  the message that ends the program may start an operation, and a setup opened
  beside an operation may launch a client (`LaunchesAlone`).
- The message that a pasted callback was written may arrive in the next login and
  take that one's pipe; Ctrl-C early in a login cancels it without closing the
  pipe; the last events of an operation may not be shown; the setup screen drops
  the events of an operation that runs (`DrainsEvents`).
- Cancelling a setup while the core's result is on its way says "pmux setup" is
  next although the core is installed; after a failed login or preflight a stage
  can only be left.

## Proofs

Each theorem below is proved for every value of the constants: any number of
processes, transactions, children, releases, versions, setups, attempts and
faults. The behaviours are those of the specifications the runs check; a theorem
about a component of `MCPrograms`, `MCLocalFiles`, `MCInteractions` or `MCWaiting`
is about `ProgramsSpec`, `FilesSpec`, `InteractionsSpec` or `WaitingSpec`, and needs
only that a step of another component leaves its variables alone. None of the
properties is inductive. Each theorem has an inductive invariant, which says for
every step of a command what the process that is there knows of disk, service and
memory.

| Property of a run | Theorem | Inductive invariant |
|---|---|---|
| `JournalNeverCorrupt` | `JournalStaysAcceptable` | `IInv` of `GovernanceProofs` |
| `DispatchIsJournaled` | `DispatchStaysJournaled` | `OInv`, on top of that `IInv` |
| `AuditedSuccessIsCommitted` | `AuditedSuccessStaysCommitted` | the same |
| `RecoveryLeavesNoneInProgress` | `RecoveryClosesEverything` | the same |
| `OutcomesAreFinal` (refinement) | `GovernanceImplementsHistory` | the same |
| `SettledIsConsistent`, `RecordIsRecoverable`, `ServiceIsRestored` | `UpdatedDiskIsConsistent`, `RecordStaysRecoverable`, `ServiceStaysRestored` | `IInv` of `ProxyUpdateProofs` |
| `UpdateIsAtomic` (refinement) | `UpdateHappensAtOnce` | the same |
| `ManagerKnowsItsChild`, `RejectsDuplicates` | `ManagerAlwaysKnowsItsChild`, `DuplicatesStayRejected` | `IInv` of `ForegroundProofs` |
| `KeepsContract` (refinement), `RestartRunsInstalled` | `BackendsKeepContract`, `RestartStaysInstalled` | `IInv` of `ServiceBackendProofs` |
| `ExecutableIsRecoverable` | `ExecutableStaysRecoverable` | `SelfInv`, `SurvivesInv` of `ProgramsProofs` |
| `ReportIsTrue` | `ReportStaysTrue` | `SelfInv` |
| `AdoptionIsAllOrNothing` | `AdoptionStaysAllOrNothing` | `AdoptInv` of `ProgramsProofs` |
| `ProgramsTypeOK` | `ProgramsTypeCorrect` | those of the three components |
| `SlotIsRecoverable` | `SlotStaysRecoverable` | `ClaudeInv` of `LocalFilesProofs` |
| `ChangesSurvive` | `ChangesAlwaysSurvive` | `StoreInv` of `LocalFilesProofs` |
| `RepairGoesBackOneSave` | `DamageLosesOneSave` | `StoreInv` |
| `SetupIsAllOrNothing`, `UnfinishedIsRecorded` | `SetupStaysAllOrNothing`, `UnfinishedStaysRecorded` | `SetupInv` of `LocalFilesProofs` |
| `FilesTypeOK` | `FilesTypeCorrect` | those of the four components |
| `VerifiedOutcome` | `WritesAreVerified` | `ManagementInv` of `InteractionsProofs` |
| `OutcomeIsWhole` | `OutcomeStaysWhole` | `ConfigInv` of `InteractionsProofs` |
| `EditsWhatWasRead` | `EditsStayOnWhatWasRead` | the same |
| `LaunchIsLive`, `CacheIsWhole` | `LaunchStaysLive`, `CacheStaysWhole` | `LaunchInv` of `InteractionsProofs` |
| `OneAtATime` | `ShellRunsOneAtATime` | `ShellInv` of `InteractionsProofs` |
| `ResumesWhereItWas` | `SetupResumes` | `WizardInv` of `InteractionsProofs` |
| `InteractionsTypeOK` | `InteractionsTypes` | those of the six components |
| `LoginIsOver` | `LoginsAreOver` | `LoginInv` of `WaitingProofs` |
| `FollowsWithoutGap` | `FollowersMissNothing` | `LogInv` of `WaitingProofs` |
| `WaitingTypeOK` | `WaitingTypes` | those of governed execution, logins and logs |

### The arguments

*Journal.* `JournalNeverCorrupt` alone does not keep itself: an append is computed
from `snap`, which could be old. The invariant adds that a process at a step of
`Locked` holds the lock, that only such a process is inside a journal call, and
that what it has read is what the file holds (`snap[p] = jlines`); that each begun
transaction has been issued, so a fresh ID begins nothing twice; and that the
durable prefix is no longer than the file. With these, each append extends the
very file it was checked against, and the lemmas at the start of the module
(`AppendReadable`, `AppendBeginFoldable`, `AppendPendingFoldable`) show that the
result is accepted; `PrefixAccepted` shows it for what power loss leaves.

*Outcomes.* `OInv` says which events of its transaction are in the file at each
step of a call (`OpenInv`), that a transaction never has two state events
(`OneOutcome`), that the set of pending transactions a recovery works through is
not stale (`RecoveryInv`) and what the lines of the audit log stand for (`AuditLog`,
`AuditInv`). The hard case is a commit that reports an error and is in the file
all the same: its transaction is no longer open, and nothing may close it again.

*Update of the core.* `RecordInv` gives the record its meaning: without one the disk
is settled, with one it is `Sound`, that is, what recovery would do from it leads
to a settled disk. `UpdateInv` and `RecoveryInv` say how far record, pointer and
directories have come at each step, forward and back; `RecoveryInv` works from the
copy the recovery has read (`job.mem`). Refinement maps the selected version to the
one recovery would return to, so that the clearing of the record is the step of
`VersionSwitch` and every other step stutters.

*Foreground service.* The lock does not suffice, because the wait goroutine and an
attached start do not take it. `CommandInv` says what each step of a command knows
of the children, `WaiterInv` that a wait goroutine belongs to the child its manager
has; `SoloInv` adds, as long as processes did not overlap, that whatever lives is
what the record names or what a start is about to record.

*Backends.* What launchd's Stop, Uninstall and Restart promise is void once
`job.blind` says that `launchctl print` failed while the job was loaded; the contract
has that fact as `lenient`, and only for launchd. Otherwise success is about what was
the case at some moment of an operation. `ServiceContract` keeps these moments in
`seen`; `OwnerInv`, `AchievedInv` and `InstalledInv` say which of them each step has
behind it, for each of the three orders of calls.

*Self-update.* `SelfJobInv` and `HelperInv` relate the record, the running update and
each helper; `UndisturbedInv` what the two files hold, until somebody else installs
a PMux (`touched`). `SurvivesInv` says where the two files are at each step of the
one helper there is. It is claimed until a second is launched beside it, and the run
has two, so that both cases occur. `RecordStaysRestorable` and `ReportStaysTrue` hold
in either.

*Adoption.* `StageInv` says how far an attempt is, `CutoverInv` where the service that
ran before is, `ForwardInv` what the hardening has put in place and `UndoInv` what has
been put back, step by step; `DiskInv` and `PriorInv` add what every disk has that no
failed undo has left (a running service has a definition, a sidecar its
directory), without which the order of the undo would not restore them. The undo
takes back what it finds noted in `job`, not what was done, hence the two have to
be related at every step; a call that fails after its effect is where they part.

*Claude's slots.* `PlanInv` says that the plan was made from the settings as they
were, `OwnershipInv` whose content the backup of a record is, `ChangedInv` what has
been written at each step and what the reversal will find.

*State store.* `HolderInv` says that a command holds the lock, unless it is one of those
that take none; `ChangeInv` that what is about to be written has all that was saved
before, whether by the lock or because nobody saved since the load; `DocumentInv`
and `RepairInv` that the newest backup, and the one chosen by whoever is about to
repair, are what the last save found. A repair and `profiles` take no lock, so these
are claimed while `mixed` is false, which the run leaves in many ways: a load that
chose its backup at a first damage, waited while another process repaired and saved
and met a second damage, writes the older backup.

*Managed setup.* `RunInv` says where a run of each kind can be and who holds the lock,
`DoneInv` what a setup has done at each step, `UndoneInv` what it has not done yet or
has taken back, `HeldRecordInv` what the record on disk names meanwhile, and `RestInv`
what is left when no setup has begun. All but the first are claimed while
`disturbed` is false. A record that names the extraction is never cleared (4
above), so `RestInv` claims nothing of the disk while one exists, and
`UnfinishedIsRecorded` follows.

*config.yaml.* `ConfigJobInv` says which command can be where and what it has
prepared, `ContentInv` that the file is what others left until the command's first
write and then the snapshot or the candidate. What a command relies on beyond that
are contents it read at different moments, and these differ only if others wrote in
between. `FixInv` (what a fix keeps for its rollback) and `EditInv` (what the editor
was given) therefore count: they say how often others must have written for two of
them to differ, and that a comparison which succeeds in spite of it costs one more
change. The exceptions in the two properties are what is left over by these counts;
`RecordInv` says whose fingerprint is recorded until SaveState fails after its
rename (`slip`).

*Management API.* `ListInv` says that without another writer the list is what was read
until the write, and one of the two afterwards, although a lost answer hides which; so
a read-back that finds what was wanted, or the prior value after a restore, tells the
truth. A key that was in the list before makes the read-back say less: the list is one
of the two. `CountInv` bounds the rejected requests by step: a command goes on from
its first request only if that was accepted, and after a rejected one only if it is
`config set`, of which three more can be rejected.

*Launch.* `SourceInv` says that what is at hand at a step is the answer of one source,
complete, unless it is marked stale; `ChoiceInv` that the model is the first of those
wanted that could be had. The preflight asks a second time, so the model has to be
live in that later answer as well; a stale answer is refused both times.

*The two screens.* `RunInv` says that operations begin in turn and only the last can
be unfinished, whatever messages of earlier ones are still on their way; `PipeInv`
whose pipe the shell, a prompt and a write are about, which is what `Answerable`
needs in spite of late messages. `JourneyInv` and `HintInv` relate the action that
runs in a guided setup, its screen and its hint to what has been installed and checked.

*Logins and logs.* A login leaves nothing because every way out of it goes through a
cancel while its session is in the map (`SessionInv`), and what is usable and was not
in the snapshot became usable since (`GainInv`). Ring, channel and pipe of a follower
are adjacent runs of lines (`RunsInv`), and what was shown ends where the pipe begins
(`SeenInv`), as long as the channel has not overflowed.

### Assumptions

The theorems use the named assumptions on constants, which TLC evaluates: the model
values for "none" are not members of the sets they stand outside of, bounds are
natural numbers (`Retention` at least one, as the code's ten is), platforms are the
two there are, the template's key is one of the keys. There are no others: where the
code does not keep what a property says, the property names the case. What the models
take for granted (a transaction ID or PID is used once, a recorded child is
recognised, no two updates at once) is named with each model.

### Only model-checked

- Liveness: `WaitingEnds` (fairness and ENABLED are beyond the prover).
- `FoldsAlike`, the agreement of the journal's loops with the formulas the other
  modules use: what a recursive definition computes needs induction over data.
- The violated properties: they are shown by counterexamples.

## Not modelled

- Release lookup, download, checksums and archives; version and manifest formats:
  data. A step that may fail stands for them.
- Doctor's checks, discovery, the diagnostic bundle, status, lists, previews,
  flags, rendering: read-only or presentation.
- Service host, subprocess runner: one child they wait for.
- Permissions, path roots, redaction, timestamps.
- The waiting `Acquire` of the lock: only the updater uses it, for a lock of its own
  beside its record, which a governed command always finds free.
- Routes of plugins, usage statistics, decoding of answers of the Management API.
- launchd and Task Scheduler under Adoption: the foreign service is a systemd user
  unit; on Windows `Replace` refuses.

## Plan

Every safety property of the passing runs and every refinement is proved, except
`FoldsAlike`. What is left, in this order:

1. Two parts in motion at once: the recovery at the start of a process beside a
   setup of another (`disturbed`) is the one interaction the lock does not exclude
   and the properties leave out.
2. What the exceptions of `ChangesSurvive` and `ExecutableIsRecoverable` lead to: how
   much two `profiles` commands, or two helpers, can lose at most.
3. The health check that times out and leaves its child running, and the
   recognition of a recorded process by its start time.
4. The read-only surface: `doctor`, discovery, the diagnostic bundle.
