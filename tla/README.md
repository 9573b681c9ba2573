# HY2-MultiPort in TLA+

HY2-MultiPort forwards ports on Linux with native nftables. A root daemon,
`port-forwardd`, turns a TOML file into rules, and a CLI, `port-forward`, edits
that file and asks the daemon to apply it. This directory holds TLA+ modules
that model them, TLC configurations that check the models on small instances,
and proofs for every instance. Paths below are relative to the repository root.

## 1. The system

| Part | Code | State | Operations |
|---|---|---|---|
| Configuration | `src/config.rs` | `config.toml`, the only source of settings | parse, validate, project listen ports, migrate |
| DNS cache | `src/dns.rs` | per target: active address, time of last success, next refresh, health | initial resolution, accept answer, record failure, restore from cache |
| Daemon | `src/runtime.rs` | in memory: `RuntimeState`, active profiles, 256 log events | start-up reload, apply, refresh of due targets, status, logs |
| nft and network commands | `src/nft.rs` | the kernel: two tables, `route_localnet` per interface | foreign-hook check, table query, preflight, `nft -c`, `nft -f`, enable, restore |
| State file | `src/state.rs` | `state.json`: DNS cache, original sysctls, versions | atomic save, load |
| Control socket | `src/control.rs` | a Unix socket path, one connection at a time | bind (replacing a stale path), request, response |
| CLI | `src/bin/port-forward.rs` | none of its own; file, backups | configure, add, remove, apply, start, stop, restart, migrate, status, logs, doctor |
| Service units | `systemd/`, `openrc/` | wanted or not, restart delay | validate before start, restart after failure |
| Installer | `install.sh` | binaries, manifest, backups | install, upgrade, uninstall |

How they interact. The CLI writes the file and connects to the socket; the
daemon's event loop takes one request, refresh tick or signal at a time and runs
it to its end. A *reload* reads the file, resolves names, and commits; a
*refresh* looks up due targets and commits when an address changed. Both use
`commit_candidates`: check foreign hooks, ask which tables exist, preflight
interfaces and routes, `nft -c`, enable sysctls, `nft -f`, restore stale
sysctls, save the state, publish it in memory. The kernel, the file, the
resolver and the interfaces may change between any two of these.

What is hard:

* The commit touches three stores (kernel rules, sysctls, `state.json`) and
  memory, and only `nft -f` is atomic. Each step may fail, and the process may
  die between any two.
* Everything a preflight read may have changed when it is used.
* A refresh that fails must leave the old target in all four places.
* A remembered address is found by profile name; host, family and age decide
  whether it may be used.
* Two listeners may be written differently and still share a port.
* One task serves connections, refreshes and interrupts; whoever holds it up holds
  up the rest.
* CLI, service manager and daemon are three processes that share a file, a
  socket path and a ten-second deadline, without locks.

What makes each part correct:

* *Daemon*: one complete rule set at a time; a rejected reload changes nothing;
  what is reported is what is installed; loopback rules never without the sysctl
  of the interface where their listener was found; every changed sysctl can be put
  back.
* *DNS*: an address is left only when it is gone; without a fresh answer only a
  confirmed address of bounded age is used; nothing forbidden is installed.
* *Listeners*: exactly the ports written with the suffix, within the range; no
  packet belongs to two profiles; the tables do what the file says.
* *Event loop*: an apply covers the file its sender wrote; nobody is starved; an
  interrupt cuts nothing off; the log has no gap.
* *CLI*: success means in force; failure means undone; no file is lost; every
  command ends.

The hazards, each with its line, are in `PROJECT.json`.

## 2. Modules

`Dns.tla` has the rules of the DNS cache as operators (`AcceptAnswer`,
`RecordFailure`, `ResolveInitial`, `RefreshStatus`, `RefreshDelay`), named after
the functions. It has no variables.

`Daemon.tla` extends `Dns` and is the core: the daemon's transactions against
kernel, disk and environment. The daemon is one task, so one control point `pc`
and one record `txn` hold the running transaction's local variables.

| Variables | In the code |
|---|---|
| `file`, `at`, `foreign`, `zone`, `now` | `config.toml`, addresses of interfaces, other tools' chains, resolver, wall clock |
| `nft`, `sysctl` | the two managed tables, `route_localnet` |
| `disk` | `state.json` (`Absent`, `Corrupt` or a state) |
| `mem`, `txn`, `pc` | `DaemonData`, locals of `reload`, `commit_candidates` and `refresh_due_dns`, position in them |
| `reply` | last answer to an apply |
| `found` | history: where the preflight of the installed rules found their loopback listeners (`txn.found` until they are installed) |

| Actions | In the code |
|---|---|
| `Start`, `ReceiveApply`, `LoadConfig` | `Daemon::new`, `handle_stream`, `reload` with `build_active_profiles` |
| `CheckHooks`, `PrepareBatch`, `NetworkPreflight`, `NftCheck` | the checks of `commit_candidates`, in order |
| `EnableOne`, `EnableFails`, `Apply`, `RollbackOne`, `RollbackEnds`, `RestoreOne`, `RestoreFails`, `Save` | its effects, one sysctl write, one nft call, one file write at a time |
| `Refresh`, `Reread`, `NoteStatuses`, `Degrade` | `refresh_due_dns`, `save_refresh_only` |
| `Stop`, `Reboot`, `FlushRuleset`, `LoseStateFile` | SIGINT, SIGTERM or crash; host restart; another tool; a damaged disk |
| `EditConfig`, `MoveAddresses`, `ForeignChains`, `ChangeZone`, `Tick` | the environment, between any two steps |

A failure is possible only if its kind is in the constant `Faults`: `config` (the
file may become unreadable), `hooks` (foreign chains), `command` (an external
command fails for no modelled reason), `sysctl`, `save`, `lookup`, `crash`,
`state` (the state file is lost), `flush`, `reboot`.

`Forwarding.tla` is the abstract specification: rules are replaced in one step
and reported only when in force. `Daemon` instantiates it with `rules <- nft` and
`reported` the rules of the active profiles in memory, and `ImplementsForwarding`
says that the step-by-step daemon implements it.

`Ports.tla` follows a listener from the wizard (`parse_port_range`) or a
hand-written file through `ListenPorts::project`, next to reference definitions
over digit sequences.

`Listeners.tla` extends `Ports` to whole files: `config` is a sequence of profiles,
`session` one sitting at the file, `rules` what `generate_batch` renders.

| Definitions | In the code |
|---|---|
| `ValidSources`, `ValidTarget`, `ValidProfile`, `Disjoint`, `Valid`, `Deployable` | `Profile::validate`, `Config::validate`, `validate_deployable` |
| `Legacy`, `Migrated`, `MigrateLegacyLocalTargets` | `migrate_legacy_local_targets` |
| `WizardTarget`, `WizardProfile`, `AddProfile`, `RemoveProfile`, `WriteByHand`, `Migrate`, `Deploy` | the wizard, `remove`, an editor, `migrate`, a reload |
| `Mark`, `RuleOf`, `MasqueradedProfiles`, `GenerateBatch` | `generate_batch` |
| `Matches`, `Outcome` | nftables: what the rules do with a packet (external) |

A network is the set of clients it holds, an IP literal a model value with a
family; a packet is a protocol, an address of this host, a port and a client.

`ControlLoop.tla` is the daemon's outside: `run` and `handle_stream`, its peers
and its log ring. The loop's `select!` is one control point from which `Accept`,
`TakeTick`, `Shutdown` or `Wait` is taken.

| Variables | In the code |
|---|---|
| `pc`, `loading` | position in `run` and `handle_stream`, the file a reload has read |
| `signal` | what an interrupt meets: the default action (`fatal`), nobody (`lost`: another branch runs and its future was dropped), a polled `ctrl_c` (`awaited`), or that it is `pending` |
| `tick`, `due` | the interval is ready, some target's `next_refresh_unix` has passed |
| `backlog`, `said`, `here` | connections in order, what each has written, who has not hung up |
| `asof`, `installed`, `file` | history: the file when a peer wrote its request; the file in force; the file, by its edits |
| `path`, `answer`, `log`, `stamp` | the socket path, the last response, `DaemonData.logs` |

Daemon transactions are single steps here; what they do is in `Daemon`.

`ConfigUpdate.tla` is the CLI's `commit_config_update` (read, back up, replace,
start or call, wait, restore) and every other command that changes the file or the
service: `configure`, `init`, `add`, `remove`, `migrate`, `apply`, `start`,
`restart`, `stop`, with the service manager and the daemon as the CLI sees them:
socket path, connection, reply, death. A reload is two steps, reading the file and
committing it. The set of CLIs is a constant; nothing locks the file.

`MCDaemon.tla`, `MCPorts.tla`, `MCListeners.tla`, `MCControlLoop.tla` and
`MCConfigUpdate.tla` give the constants values for TLC. Proofs are in modules of
their own: `DaemonProofs` (types, loopback) and on its lemmas `CommitProofs`
(agreement of reports and rules, refinement, recorded originals, rejected applies),
`DestinationProofs` (what is installed) and `OutageProofs` (how targets move, what
`state.json` says, failed switches, the pace of lookups); `PortsProofs` (digits,
suffixes, the wizard) and on it `ListenersProofs`; `ControlLoopProofs`;
`ConfigUpdateProofs`.

Operators marked as mutants in the modules are single plausible mistakes in the
definition that follows; each property is known to fail under one of them
(`PROJECT.json`, "mutants").

## 3. Runs

| Run | Instance | Shows |
|---|---|---|
| `daemon_reload` | two interfaces, loopback and redirect profiles that appear, vanish and move; faults `config`, `hooks`, `command` | a rejected reload leaves no trace (`RejectedReloadLeavesNoTrace`), changed sysctls stay recoverable (`OriginalsRetained`), refinement of `Forwarding`, types |
| `daemon_refresh` | two DNS targets; `command`, `lookup` | reported rules are installed (`ReportedRulesInstalled`), the status made of `state.json` names those rules and calls no overdue target healthy (`StatusTellsTheRules`), a failed switch is reported (`RefreshFailureIsReported`), every target is due again in time (`LookupsInPace`) |
| `daemon_outage` | one DNS target whose host and family change; `lookup`, `save`, `config` | `TargetMovesOnlyWhenGone`, `OutageUsesConfirmedAddress`, `InstalledDestinationsMatch` |
| `daemon_faults` | as `daemon_reload`; `command`, `sysctl`, `save`, `crash`, `state`, `flush`, `reboot` | `NoLoopbackGap` at every step: a loopback rule never lacks its sysctl on an interface where its preflight found the listener, unless the address has left it |
| `listeners` | ports 0..12 in base 3, 50-value words, one address of each family on the host, a target of each kind, four files, one update by wizard, editor, `remove` or `migrate`, 15 hand-written profiles with every notation of a listener | the projection (`ProjectionEndsInSuffix`, `WizardAddsNothing`), `OneProfilePerPacket`, `RulesMeanTheFile`, `MigrationRepairs` |
| `control_loop` | one root peer, one other, any interleaving of connections, requests, hang-ups, ticks, interrupts, an edit; faults `reject`, `save`, `accept` | `AppliedCoversRequest`, `InterruptsWaitTheirTurn`, `LogsAreNewest`; `DueTargetsRefreshed` and `RequestsAnswered` under fairness |
| `cli_update` | one CLI, two rules, all faults | `AppliedMeansInForce`, `ReplacedFilesBackedUp`, `CommandEnds`, types |

Five runs end in a counterexample. Each checks one statement of the repository
that the code does not keep:

| Run | Statement | What happens |
|---|---|---|
| `rejected_reload` | `runtime.rs:148` "existing rules retained" | only the save fails; the new rules are in force and in memory |
| `partial_enable` | `state.rs:20-21`, `README.md:134`: originals are retained | the second of two sysctl writes fails; the first is recorded nowhere |
| `port_range` | `README.md:124`: an end of 65536 covers port 65535 | the wizard narrows the end to 65535, which is exclusive |
| `restored_config` | `port-forward.rs:995`: file restored, old rules unchanged | start-up commits the candidate, the second reload is refused, the file goes back |
| `stale_socket` | `README.md:23-24`: ready means active and socket usable | the path a killed daemon left is taken for readiness |

Other disagreements and limits were met while modelling and have no run of their own:

* With the fault `save`, `ReportedRulesInstalled` fails as well: a refresh whose
  commit fails only at its save restores the old targets in memory over the new
  rules (`runtime.rs:378-393`).
* A refresh that wants to switch a target and finds `config.toml` unreadable ends
  before the degraded branch (`runtime.rs:377`), so the target stays `healthy` and
  is looked up at every tick, against the comment above it.
* The rules match by listen address only, and `route_localnet` is enabled on the
  interface that held the address at the preflight (`nft.rs:448-475`). If it moves
  to another interface before `nft -f` (`runtime.rs:253`) or later, its loopback
  rules meet an interface that drops their packets, until the next reload. Nothing
  in the repository says otherwise; `NoLoopbackGap` therefore leaves that case out,
  by its history variable `found`, and speaks of the address again once it is back.
* `run` "starts the daemon event loop until it receives a shutdown signal"
  (`runtime.rs:94`), but an interrupt that arrives while a request or a refresh is served meets no `ctrl_c`
  future and is lost (`signal = "lost"` in `ControlLoop`).
* The template that `init` writes says to run `configure`
  (`src/bin/port-forward.rs:23`), but `configure` on an existing file is `add`,
  which begins with `Config::from_path` and refuses the placeholder values; hence
  no action of `ConfigUpdate` leads from `Template` to a deployable file.

### Bounds

* Two interfaces, two profiles, two names: enough for a sysctl to be fresh in one
  reload and stale in the next while another stays, for a profile to move, and for
  one of two due targets to change alone.
* `MaxNow = 2` with `MinRefresh = 1` and `MaxCacheAge = 1`: an answer, a refresh of
  it, and an age on either side of the limit. In `daemon_refresh` a lifetime of 1
  and jitter 0 or 2 with `MaxRefresh = 2` reach both ends of `refresh_delay`: half
  the lifetime is below the lower one, the jitter would exceed the upper one.
* `MaxVersion` saturates the version counter; nothing reads it.
* Two zones: one name's answer gains a lexically smaller address (it must not
  move), the other's is replaced, once together with a forbidden address.
* `Ports` is scaled down. As with 10 and 2^32, base 3 and 50 let the widest
  suffixes have a power that wraps to a modulus above every port, below some of
  those suffixes and above others. The code behaves alike for every base.
* `Listeners` is on the scale of `Ports`. Two clients of one family tell a source
  network from any source; one profile already in the file and one new one are
  enough for an overlap, and two marks for a confusion of marks.
* `ControlLoop`: `LogCap = 2` and `Stamps = 3` (line numbers modulo 3) let the ring
  overflow and any gap or repetition show; `MaxEdits = 1` lets the file change
  before, between and after requests; a root and another peer hold each other up.
* `ConfigUpdate` has no counters: crashes, restarts and commands are unbounded.
  One CLI; two reach twelve million states, more than a run of a few minutes.

`CHECK_DEADLOCK FALSE` is used for `port_range` and `listeners` only, where a
listener is validated once, or a file updated and deployed once, and the behaviour
ends.

### Fairness

Safety needs no fairness. `CommandEnds` assumes that a CLI takes its
next step (`WF` of `Step`), that the daemon, one task that always returns to its
loop, takes its next (`WF` of `Serve`; a command it runs does not hang), and that
the deadline of `wait_for_daemon_ready` passes however often the daemon comes and
goes (`SF` of `Expire`: the loop compares the clock and nothing else). Crashes,
stops, restarts and new commands are not fair. A restart comes five seconds after
the end (`RestartSec=5s`, `respawn_delay=5`), when a CLI that was running then and
is not waiting for the daemon has finished, but one that began within those seconds
has not. With the fault `overlap`, which `cli_update` has, `AutoRestart` may
therefore fall between any two steps; without it only between commands or while a
CLI waits, so that the counterexamples of `restored_config` and `stale_socket` do
not rest on such a coincidence.

`DueTargetsRefreshed` and `RequestsAnswered` assume of the loop that the task runs
(`WF` of `Process`) and the interval goes on (`WF` of `Interval`); that a branch of
`select!` ready again and again is taken (`SF` of `Accept`, `TakeTick` and
`Shutdown`: without `biased;` the branches are polled in random order); and that a
root peer which has connected writes a line or hangs up (`WF` of `MakesUpItsMind`).
That last one is an assumption about the peer, not the code: `handle_stream` reads
without a timeout, and a root peer that stays silent does stop everything. Nothing
is assumed of peers that are not root.

## 4. Proofs

The theorems about the daemon are checked by TLAPS from `AddressAssumption`,
`TimingAssumption`, `ConfigAssumption`, `EnvironmentAssumption` and
`SentinelAssumption` alone, any finite or infinite sets of profiles, interfaces
and addresses; those about the other modules from `PowerAssumption`,
`PortsAssumption` and `ListenersAssumption`, `ControlLoopAssumption` and
`ConfigUpdateAssumption`. Theorems that exclude a fault say so in their statement.
All safety properties that hold in the passing runs are theorems.

* `RefreshDelayBounds`: a delay is between `MinRefresh` and `MaxRefresh`.
* `TypeInvariant`, `TypeCorrect`: `Spec => []TypeInv` and `Spec => []TypeOK`.
  `TypeOK` is not inductive: rollback and restore write back values that are typed
  only for recorded interfaces, and `Degrade` records a failure in a status that a
  target must have. `TypeInv` adds `Shape`: at `enable`, `rollback` and `restore`
  what is still to do lies within the interfaces read, those freshly recorded and
  those stale; the control points after a failed lookup belong to a refresh; and
  the candidates of a refresh have the profiles of its prior (`Refreshing`), every
  switched one with a DNS status before and after. One lemma per step that changes
  more than the kernel or a counter.
* `LoopbackSafe`: `Spec => []NoLoopbackGap`, in every run with every set of
  faults, from an inductive `LoopbackInv`, which is stronger: every interface where
  the installed rules' listeners were found (`Served`) is on, wherever the addresses
  have gone. That is not inductive: the rules are replaced on the word of local
  variables. `LoopbackInv` adds that the preflight found a listener for every
  loopback rule (`Traced`) and read the setting of every interface where it did
  (`Prepared`); that at `enable` every adjusted interface not still to do is on; that before the commit
  an interface freshly recorded as off serves no installed rule, so a rollback may
  turn it off again even where an older record of it had been lost; and that at
  `restore` no stale interface serves an installed rule.

* `AgreeInvariant`, `ReportsInForce`, `ServiceImplemented`: without the faults
  `save` and `flush` (`Undisturbed`), `Spec => []ReportedRulesInstalled` and
  `Spec => ImplementsForwarding`. A refresh works on its own copy of memory and
  writes that copy back, so the property needs `AgreeInv`: up to the commit point
  the rules in force are those of memory, from there to the save those of the
  candidates; the prior of a refresh is still memory; a refresh that only notes
  statuses leaves the rules unchanged, and so does degrading its targets. Each
  step then maps to `Switch`, `Report`, `Leave`, `Restart` or a stutter. The two
  excluded faults are real limits: see the first of the other limits in
  section 3,
  and nothing tells the daemon that its tables were deleted.
* `OriginalsKept`: without the faults `sysctl`, `save`, `crash` and `state`
  (`RecordKept`), `Spec => []OriginalsRetained`; commands, lookups and edits may
  fail at any step and the host may restart between any two. `RouteInv` says where
  route_localnet may differ from the operator's value at each control point: on
  recorded interfaces, plus the adjusted ones while enabling, plus the ones still
  to roll back or to restore. `partial_enable` shows why `sysctl` is excluded.
* `RejectionLeavesNoTrace`: without the faults `sysctl`, `save` and `flush`
  (`Untraced`), `Spec => RejectedReloadLeavesNoTrace`, however often the daemon has
  crashed, lost its file or been rebooted with the host before. `TraceInv` says at
  each control point how far the kernel may be from what the apply found
  (`Footprint`: nothing before the first write, the fresh interfaces while
  enabling, those still to roll back afterwards), and that the value to roll back to
  is the one found. It is not inductive without `RecordOn`: an interface on record
  is already on whenever an apply or refresh runs, so enabling it again leaves no
  trace and only fresh ones have to be rolled back. At start-up that is false, as a
  reboot forgets the setting and keeps the record. The excluded faults are real
  limits: `rejected_reload` is `save`, and a write that fails in the middle of
  enabling or rolling back leaves what was written (`partial_enable`).
* `DestinationsMatch`: `Spec => []InstalledDestinationsMatch`, with every fault. The
  property speaks of the kernel, but a restored entry is compared with the host
  alone, so `DestinationInv` follows addresses to every place they are kept:
  statuses in memory, in the prior of the transaction and in `state.json` are
  `Honest` (not forbidden, answered for their own host), active profiles and
  candidates are `Aimed` (at their literal or at an honest status of their host).
  The family is the one thing not remembered; `nft -c` and `nft -f` decide it.
* `TargetsStay` and `OutageConfirmed`: `TargetMovesOnlyWhenGone` and
  `OutageUsesConfirmedAddress`, with every fault. Only `LoadConfig` and `Refresh`
  resolve targets; for one target the promises follow from `AcceptAnswer`,
  `RecordFailure` and the restored entry. A refresh starts from the active profiles
  and the properties compare with the statuses beside them, so they need
  `Remembered`: both are written together whenever an apply or refresh may begin.
* `StatusHonest`: `Spec => []StatusTellsTheRules` without `save`, `crash`, `flush` and
  `reboot` (`Steady`). `DiskInv` says that, except between `nft -f` and the save,
  `state.json` and the kernel were made of the same profiles; it takes `AgreeInv`
  for the kernel and `DestinationInv` for the addresses.
* `FailedSwitchReported`: `RefreshFailureIsReported` without `save` and `config`
  (`SwitchesEnd`), the two ways in which a cycle ends otherwise (section 3). That
  a target marked degraded had an address takes `DestinationInv`; that no step
  but `Save`, `NoteStatuses` and `Degrade` ends a refresh takes `Quiescent`: no
  transaction outlives its last step.
* `TargetsLookedUpInPace`: `Spec => []LookupsInPace`, with every fault. `PaceInv`
  says it of everything memory may become: the statuses in memory, those a refresh
  would put back, those a commit would publish. `Degrade` dates a failure by the
  clock its refresh read, so the invariant also keeps that this was not in the
  future, and that a moved target was answered then, which takes `DestinationInv`.
* `SuffixesAre`, `SuffixMeansDigits`, `WizardForwardsWhatIsAsked`: for every base,
  port limit and word size, `p % Power[Width(s)] = s` is that the digits of `p` end in
  those of `s`, hence `ProjectionEndsInSuffix`; and `WizardAddsNothing`. The reference is
  recursive over digits and the induction theorems of the library cannot be
  used, so `PortsProofs` shows for `Power` and `Digits` that the function the definition
  chooses exists and states complete induction as a fact about sets of numbers
  (from `NatLessThanWellFounded` and `WFMin`). `PowerAssumption` is that 65535 <
  10^5 < 2^32: some power lies above every port and within a word. A suffix of at
  most that width is compared with a power that has not wrapped; a longer one is
  above every port, so whatever its wrapped power is, no port is left
  (`RangeMeans`). Without it a wrapped modulus could be small enough to match ports.
* `PacketsBelongToOneProfile`, `PacketsGoWhereTheFileSays`: `OneProfilePerPacket`
  and `RulesMeanTheFile` for any files, addresses, networks and hand-written
  profiles, from `ListenersSound`: deployed rules are those of the file, and the
  file's profiles occupy disjoint sockets. `MigrationMends`: `MigrationRepairs`, because
  an accepted file has no old local target, and replacing the target changes no
  socket. `ListenersMeanWhatIsAsked` carries the two properties of `Ports` over to
  whole files. `PortsTyped` is the types.
* `AppliedCovers`, `InterruptsWait`, `NewestLines`, `LoopTypeCorrect`: the safety
  properties of `ControlLoop` for any peers, ring size and number of edits, from
  `LoopInvariant`: a running reload has read a file at least as new as its
  request, and a served connection stays the first of the backlog.
* `SuccessInForce`, `NoFileLost`: `AppliedMeansInForce` and `ReplacedFilesBackedUp`
  if there is one CLI (`Cli = {c}`), for any rules and faults, from `UpdateInv`: from
  the write to the end the file is the candidate, a file about to be overwritten is
  in a backup, and a request in progress is about that file. A daemon may be
  started while its CLI has still to see an answer, or that there is none; it then
  loads the same file, so an answer of the one before it remains true. With two CLIs both properties fail, as
  they share the file without a lock. `UpdateTypeCorrect` holds for any CLIs.

Model-checked only: liveness (`CommandEnds`, `DueTargetsRefreshed`,
`RequestsAnswered`), as TLAPS does not reason about fairness or `ENABLED` here; and
what the violation runs refute.

## 5. Not modelled

The text of rules and messages; list, doctor and the rendering of status and logs
(they read and print); the terminal; the installer, release script and tests; what
a peer without root writes, which is never read; a `peer_cred` that fails, with
which `handle_stream` would let the peer through (`runtime.rs:133`; it does not
fail for a connected Unix socket); a lookup that holds up the event loop (the
resolver is a dependency, and the model follows the repository's trait: an answer
or an error); `schema_version`, blank names and blank hosts; a response that waits for its
reader; the literal branch of `resolve_initial`, which `build_active_profiles`
never reaches; a clock that goes back; loss of a completed rename at a power cut;
hung commands.

The installer is a straight-line shell script on the file system, on whose order no
part of the running system depends; a model of it would repeat it. Its two hazards
are in `PROJECT.json`.

## 6. Plan

What was planned and is done: the daemon with its abstract service, the CLI, the
event loop, validation, migration and rules, and proofs of every safety property
that holds. What remains worthwhile:

1. Two CLIs: an instance small enough to check (one rule, fewer faults), once the
   repository says what two updates at a time should do.
2. A refinement of `ControlLoop`'s single-step transactions by `Daemon`'s.
3. What survives the excluded faults: after a failed save or sysctl write, which of
   the four stores the next successful apply brings back into agreement.
4. A clock that goes back, which saturates an age at zero (`dns.rs:60`).
