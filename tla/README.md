# TLA+ models of the Mullvad VPN daemon components in `src/`

This directory holds TLA+ specifications of the parts of the repository
that have state, concurrency or a non-trivial protocol. It also holds
the TLC configurations that model-check them and the TLAPS proofs of
their main safety properties. `PROJECT.json` lists, in machine-readable
form, the components, the runs, the mutants that show each property can
fail, the source lines each definition translates, the findings and the
hazards.

Run everything from this directory:

    tlasany M.tla                      # parse
    tlc -workers 2 -config X.cfg M     # model-check
    tlapm M.tla                        # check the proofs

## 1. The system and its parts

The code under `src/` is a slice of the Mullvad VPN app.

* **Tunnel state machine** (`talpid-core/src/tunnel_state_machine/connecting_state.rs`).
  This is the daemon's core. It is one async loop that handles one
  event at a time: a user command, a tunnel event, or the tunnel close
  signal. Each connection attempt spawns a *tunnel monitor* on a
  blocking thread. The monitor talks back over three channels:
  * an event channel, whose sender waits for each event to be handled;
  * a oneshot close signal carrying `Option<ErrorStateCause>`;
  * a oneshot stop request.

  Only `ConnectingState` is in the tree. Disconnected, Connected,
  Disconnecting and Error are described in `spec.md` (sections 4.1 and
  4.3-4.5).
* **Firewall policy** (`talpid-core/src/firewall/mod.rs`). These are the
  policies the state machine asks the OS firewall to enforce.
* **DNS monitor on Windows** (`talpid-core/src/dns/windows/tcpip.rs`). It
  writes the tunnel's resolvers into an interface's TCP/IP registry
  keys, inside a registry transaction, and flushes the resolver cache.
  The state machine calls it through the DNS port of `spec.md` section 6.
* **Hidden window and power-management listener** (`talpid-core/src/window.rs`).
  A thread owns a hidden window and delivers `WM_POWERBROADCAST` to a
  tokio broadcast channel. Listeners share the window through an `Arc`.
  The last listener dropped posts a shutdown message and joins the
  thread.
* **BoringTun tunnel** (`talpid-wireguard/src/boringtun/mod.rs`). The
  userspace WireGuard devices. Its async `set_config` may recreate the
  devices when the hop mode changes.
* **WireGuard-NT tunnel** (`talpid-wireguard/src/wireguard_nt/mod.rs`).
  The Windows kernel WireGuard driver wrapper. `start_tunnel_inner`
  creates a `LoggerHandle`, creates the adapter, applies the first
  config and spawns a setup task. The adapter is an `Arc<WgNtAdapter>`
  shared with the setup task, each `set_config` future and each
  `get_tunnel_stats` blocking task; `close_adapter` runs when the last
  clone goes. The `LoggerHandle` shares a process-wide `LOG_CONTEXT`
  with a logging callback that the DLL calls from its own threads.
* **Monotonic time** (`talpid-time/src/unix.rs`). `Instant` arithmetic on
  `timespec`, used for the connection-attempt backoff.
* **NSIS plugin** (`mullvad-nsis/src/lib.rs`). The C ABI the Windows
  installer calls: a bounded path scan and a two-call buffer protocol.
* **Not modelled** (see section 7): the Android translations
  normaliser, the problem-report JNI glue, the iOS access-method
  resolver, and the end-to-end test manager.

## 2. Modules and how they correspond to the code

| Module | Models | State (VARIABLES) | Actions |
|---|---|---|---|
| `FirewallPolicy` | `firewall/mod.rs` | none: data and accessors | `ConnectingPolicy`, `ConnectedPolicy`, `BlockedPolicy`, `NoPolicy`, `PeerEndpointOf`, ... |
| `TunnelStateMachine` | `connecting_state.rs` and the other states from spec.md | state, retry, relay, metadata, allowed traffic, after-disconnect action; shared settings; `fw` (policy in force); routes; monitor phase, close reason and generation; the three channels | one action per handler of `ConnectingState`; the monitor's steps (`WorkerStart`, `WorkerEmit`, `WorkerRoutes`, `WorkerExit`, `WorkerSendClose`, `WorkerPanic`); the other states' handlers |
| `MCTunnelStateMachine` | model values for relays, endpoints, metadata and DNS | none | none |
| `DnsMonitor` | `tcpip.rs` | `current_guid`, `should_flush`, key existence, each key's NameServer value, stale cache, last result | `Set(i, c)`, `Reset`, `DisableFlushing`; `SetDns` gives the transaction's outcomes |
| `HiddenWindow` | `window.rs` | window thread pc, posted shutdown, destroyed, WM_QUIT, each listener's drop progress, receivers alive, events sent, failed send | `CreateWindow`, `SetCallback`, `HandleShutdown`, `PowerEvent`, `ExitLoop`, `Clone`, `DropWindow`, `Close`, `Join`, `DropRx` |
| `BoringTun` | `boringtun/mod.rs` | `self.config`, `self.devices`, each device API's applied config, the `set_config` future's await point, last result, stopped, panicked | `SetConfig`, `StopOld`, `Create`, `SendEntry`, `SendExit`, `Cancel`, `Stop`, `GetTunnelStats` |
| `WgNtLogger` | `wireguard_nt/mod.rs` 566-606 | each handle's pc, `LOG_CONTEXT`, callback installed, mutex holder, live contexts, callback thread | `InitializeLogging`, `StoreContext`, `SetLogger`, `DropReset`, `CleanUpLogging`, `CallbackRead`, `CallbackLog` |
| `WgNtTunnel` (extends `WgNtLogger`) | `wireguard_nt/mod.rs`: `start_tunnel_inner`, `stop_tunnel`, the setup task, `set_config`, `get_tunnel_stats` | each tunnel's pc, the holders of its adapter `Arc`, the setup task, the stored config and its mutex, the config the adapter runs, the last result, each `set_config` future, the stats task | `StartTunnel`, `LoggerStep` (the logger's steps inside start and drop), `LoggerFailed`, `CreateAdapter`, `SetupReady`, `SetupCancel`, `Stop`, `SetConfigCall`, `SetConfigLock`, `SetConfigApply`, `StatsStart`, `StatsDone`, `CallbackStep` |
| `TunnelPolicyOrdering` | what the state machine promises about policy and tunnel (abstract, spec.md 4.2 and 5) | `guard` (the relay the tunnel policy allows), `tunnel` (the relay of the live tunnel) | `SetGuard`, `StartTunnel`, `StopTunnel` |
| `WgNtAdapterLifetime` | what a tunnel promises about its adapter (abstract) | each tunnel's life and its adapter | `Begin`, `Fail`, `Up`, `Down`, `Close` |
| `MonotonicInstant` | `unix.rs` | clock, a stored instant, the last measurement and its results | `Tick`, `Now`, `Measure` |
| `NsisPlugin` | `lib.rs` | the path scan's buffer, index and result; the caller's buffer, size and status | `ScanStep`, `Call`, `Allocate` |
| `TunnelStateMachineProofs`, `MonotonicInstantProofs`, `WgNtLoggerProofs`, `WgNtTunnelProofs`, `DnsMonitorProofs`, `HiddenWindowProofs`, `BoringTunProofs`, `NsisPluginProofs` | proofs | none | none |

`WgNtTunnel` composes the tunnel with its logger: a tunnel is identified
with its `LoggerHandle`, and `LoggerStep` runs the logger's actions while
the tunnel is inside `LoggerHandle::new` or its fields are being
dropped. `WgNtAdapterLifetime` is an abstract specification, and
`WgNtTunnel` implements it under the refinement mapping `LifeOf` /
`AdapterOf` (`Life == INSTANCE WgNtAdapterLifetime WITH ...`).

### How the models correspond to the code

* **Async code.** Each `await` is its own step, so other actors may move
  between a value being read and being used. In `BoringTun`, when
  `CallerMayCancel` holds, the caller may drop the future at any await;
  that is the `Cancel` action.
* **Handlers.** One action models the whole handler, including its
  trailing calls. For example, `ConnectingAllowLan` re-applies the
  firewall policy. If that apply fails, the same step disconnects with
  a `Block` cause.
* **OS calls that can fail.** These are nondeterministic outcomes, under
  the constants `FirewallMayFail` and `OsCallsMayFail`.
* **Data.** Data is abstracted to what the properties tell apart:
  * a relay is a model value;
  * a DNS server list is the set of address families it holds;
  * a string is its length;
  * a Windows path is which of its elements are nul.

## 3. Runs

Each run is a cfg file with the module it checks.

**Passing runs:**

* `MCTunnelStateMachine.cfg` (**safety_core**). Two relays and two
  endpoints, `MaxRetry = 1`, and firewall calls that may fail. It
  checks:
  * `TunnelCoveredByPolicy`: a tunnel never runs without a policy for
    its relay;
  * `TunnelCoverageInv`: the inductive form of the above;
  * `PolicyMatchesState`: the policy in force is the state's own;
  * `RoutesClearedWhenIdle`;
  * `OneTunnelAtATime`: an action property;
  * `DisconnectingTerminates`: under the fairness of section 4, every
    teardown ends.

  1,173,104 distinct states, in about 2 minutes (most of it the
  liveness check).
* `MCNsisAppdata.cfg` (**nsis_appdata**). Path scan against the
  reference length, and the two-call protocol of
  `get_system_local_appdata`.
* `MCMonotonicInstant.cfg` (**instant_arith**). `NSEC_PER_SEC = 3` and
  `MaxSec = 3`. Every pair of instants, in both orders, against the
  exact difference.
* `MCDnsMonitor.cfg` (**dns_registry**). Three interfaces, keys present or
  missing, any OS call failing (152,489 distinct states). It checks `RegistryConsistent` (the v4
  and v6 keys never disagree) and `AppliedWhenOk`.
* `MCHiddenWindow.cfg` (**window_shutdown**). Four listeners and three
  power events. It checks `SendNeverFails` and `ShutdownEndsThread`.
* `MCWgNtTunnel.cfg` (**wgnt_tunnel**). Two tunnels started one after
  the other, each with two `set_config` futures (configs `c1`, `c2`
  after `c0`) and a stats task, and the DLL callback. It checks:
  * `NoLogToCleanedContext`: the callback never logs to a freed context,
    while one tunnel's `LoggerHandle` is dropped as the next one starts;
  * `DeviceRunsStoredConfig`: when no future holds the config mutex and
    the last one returned Ok, the adapter runs the stored config;
  * `AdapterLifetime`: the refinement, `Life!LifeSpec` as a PROPERTY,
    including that the adapter of a stopped tunnel eventually closes.

  305,268 distinct states, in about a minute and a half.
* `MCBoringTun.cfg` (**boringtun_config**). Two configs × two hop modes,
  with cancellation. It checks `AppliedWhenOk`.

**Violation runs.** Each checks one property, which TLC finds violated.
The counterexample is the finding recorded in `PROJECT.json`.

| Run | Property | What the counterexample shows |
|---|---|---|
| `MCRetryBound.cfg` | `RetryOnlyAfterRecoverable` | A fatal start error closes the event channel before the close signal is sent. The closed-channel handler disconnects with `Reconnect(retry_attempt + 1)`, which contradicts the spec's "exactly one attempt before Error". |
| `MCNsisVersion.cfg` | `InsufficientReportsRequiredSize` | `get_system_version` returns `InsufficientBufferSize` without writing the required size (lib.rs:130). This is unlike `get_system_local_appdata` and unlike its own doc comment. |
| `MCDnsTracking.cfg` | `OurServersTracked` | Our servers end up on an interface `current_guid` no longer names: `set` on a second interface overwrites `current_guid` (tcpip.rs:53) and leaves the first interface configured, which is what the trace shows. `reset` taking `current_guid` before a transaction that may fail (tcpip.rs:61) would leave our servers behind too; it is listed as a hazard covered by the same property, not as a finding. |
| `MCWindowClose.cfg` | `CloseReturns` | Dropping the listener before the window thread has a message queue makes `PostThreadMessageW` fail silently, and `join` never returns. |
| `MCBoringTunCancel.cfg` | `NoDevicesUnwrapPanic` | A `set_config` dropped after `self.devices.take()` leaves `None`. The next `set_config`, `stop` or `get_tunnel_stats` panics. |

**Mutants.** Every property of a passing run has a mutant in
`PROJECT.json`. A mutant is an operator defined just before the code
definition it replaces, and it models a plausible bug. Examples:

* no rollback of the registry transaction;
* the listener's fields dropped in the other order;
* no borrow in the nanosecond subtraction;
* the callback copying the context out of the mutex.

Under the run's own cfg, TLC finds each one violating its property.

## 4. Bounds and fairness

### Why the bounds are enough

* **Tunnel state machine.** Two relays let a retry pick a different
  relay. In `safety_core`, `MaxRetry = 1` gives a first attempt and a
  retry that spawns a second monitor thread while the first may still be
  exiting. That is the overlap `OneTunnelAtATime` is about. It also
  reaches the retry bound, where the model's guards stop. The
  `retry_bound` run uses `MaxRetry = 2`. `MaxAttemptCreateTun = 1`
  reaches both branches of the device-error retry. The liveness check
  sets the size of `safety_core`: it has to finish in minutes.
* **DNS monitor.** Three interfaces give every interface switch, and a
  reset of one interface while a third holds stale servers.
  Configurations range over all subsets of {v4, v6}, so a family can be
  written, deleted or missing.
* **Hidden window.** Four listeners allow clone-and-drop sequences in
  which the last holder is not the first; three events let the callback
  run before, between and after drops. The proof covers any number.
* **WireGuard-NT tunnel.** Two tunnels make the drop of the first
  (its logger and its adapter clones) overlap the start of the second.
  `StartTunnel` waits until no other tunnel is starting or running,
  which is what the tunnel state machine guarantees (`OneTunnelAtATime`,
  proved). Two `set_config` futures per tunnel contend for the config
  mutex and may outlive the tunnel.
* **Monotonic time.** `NSEC_PER_SEC = 3` exercises the borrow and its
  absence. The theorem covers every value.
* **NSIS plugin.** `MaxPathSize = 3` and strings up to length 5 put the
  bound on both sides of the terminator.

### Fairness

* **Tunnel state machine.** The monitor thread is a real OS thread, so
  its start, its response to the stop request and its close signal are
  weakly fair. The state machine's `select!` polls the close signal on
  every iteration, so handling it in Disconnecting is weakly fair too.
  Users and the network are never forced.
* **Hidden window.** The window thread is weakly fair. So are the
  threads that run a drop (close, join, receiver drop). Clones, drops
  and power events belong to the user and the OS, and are not forced.
* **WireGuard-NT tunnel** (`TunnelFairness`). The runtime runs an aborted
  setup task to its cancellation, the blocking pool finishes
  `get_config`, and each `set_config` future is awaited by its caller:
  those steps are weakly fair. The arrival of the interfaces that ends
  `wait_for_interfaces` is not assumed (`SetupReady` is not fair), so the
  adapter closes after stop only because stop aborts the setup task.

### Deadlock

Deadlock is checked except where the system really stops:

* `NsisPlugin` ends after its calls.
* `HiddenWindow` ends once all listeners are gone.
* `BoringTun` stops after `stop` or a panic.
* `WgNtTunnel` stops once every tunnel has started and been dropped.

## 5. What is proved (TLAPS)

The proofs hold for every value of the constants, under the named
assumptions (`TunnelConstantsAssumption`, `CausesAssumption`,
`PolicyConstantsAssumption`, `InstantConstantsAssumption`,
`LoggerConstantsAssumption`, `TunnelConstantsAssumption` of
`WgNtTunnel`, `DnsConstantsAssumption`, `WindowConstantsAssumption`,
`NsisConstantsAssumption`, `BoringTunConstantsAssumption` and
`NoCfgAssumption`).

**`TunnelStateMachineProofs`:**

* `TypeCorrect`: `Spec => []TypeOK`.
* `TunnelCovered`: `Spec => []TunnelCoverageInv`.
  `TunnelCoveredByPolicy` is not inductive on its own. A step of
  Disconnecting can drop the tunnel policy while a monitor thread is
  still running, and only the fact that no close signal has been sent
  rules such a state out. The strengthening adds four facts:
  * no monitor thread is alive in Disconnected or Error;
  * a close signal is only in flight from a finished thread;
  * Connecting holds the Connecting policy of its relay;
  * Connected holds the Connected policy of its relay.

  The proof has one step per action and rests on lemmas about
  `ConnectingEnter`, `ErrorEnter`, `DisconnectedEnter`, `Disconnect` and
  `ResetFirewall`.
* `NoTunnelLeak`: `Spec => []TunnelCoveredByPolicy`, as a corollary.
* `AttemptsNeverOverlap`: the action property `OneTunnelAtATime`, from
  the same invariant.
* `PolicyAlwaysMatches`: `Spec => []PolicyMatchesState`. The property is
  inductive with the type invariant, for three reasons:
  * every handler that changes the state, or a setting the state's
    policy is built from, applies the new policy in the same step;
  * the only other handlers leave for Disconnecting, where nothing is
    required;
  * `ConnectingDown` clears the metadata, after which the traffic is no
    longer required.

  The lemma `ConnectingPolicyFields` states what the `firewall/mod.rs`
  accessors return. One lemma per entry helper covers `ConnectingEnter`,
  `ErrorEnter`, `DisconnectedEnter`, `Disconnect` and `ResetFirewall`.
* `RoutesAlwaysCleared`: `Spec => []RoutesClearedWhenIdle`.
  * The property is not inductive alone, because `WorkerRoutes` may
    install routes after `Disconnect` cleared them.
  * The inductive invariant is `TunnelCoverageInv /\ RoutesClearedWhenIdle`,
    which the `safety_core` run checks. Its coverage fact "no live
    thread in Disconnected or Error" disables `WorkerRoutes` there.
  * Every handler that enters those states from a tunnel state clears
    the routes in the same step.
* `AttemptsNumberedInOrder`: the action property `AttemptNumbering`.
  Every spawned attempt is numbered 0, 1 or `retry + 1` (spec section 8,
  retry bound). The number travels through
  `AfterDisconnect::Reconnect`, so the proof rests on `AttemptInv`: the
  number waiting in Disconnecting is 0, 1 or one more than the attempt
  torn down.
  * The property is in no run: with `MaxRetry = 1` every number is 0 or
    1, so it would hold trivially.
  * With `MaxRetry = 2` the state space (2,018,928 states) takes over
    four minutes. TLC checked `AttemptInv` and the property once on that
    instance; the theorem covers every `MaxRetry`.

* `PolicyRefinesOrdering`: `Spec => PolicyBeforeInterface`, i.e. the
  state machine implements `TunnelPolicyOrdering` under the mapping in
  `TunnelStateMachine`:
  * `guard` is `PeerEndpointOf(fw)`;
  * `tunnel` is the attempt's relay while the monitor thread is
    `Starting` or `Running`, and `NoRelay` otherwise.

  Every step maps to one of three things. The first is `StartTunnel`: a
  spawn by `ConnectingEnter` sets the relay and the Connecting policy
  together, and `NoSpawnOtherwise` shows that the previous thread has
  finished. The second is `StopTunnel`: a monitor step that ends the
  thread and leaves the firewall alone. The third is `SetGuard`, for
  every other step. Those steps keep the relay (`RelayFrame`), and
  `TunnelCoverageInv` in the state after the step gives the new guard.
  The refinement adds two things to `NoTunnelLeak`: a live tunnel never
  changes relay, and a tunnel comes up with its own relay's policy
  already in the step that spawns it.
  * TLC checked the property once on the `safety_core` instance
    (1,173,104 states, no violation).
  * It is in no run: with it, `safety_core` would exceed its five-minute
    budget. The theorem covers every instance.

* `RoutesFreshAtSpawn`: the action property `RoutesFreshPerAttempt`,
  i.e. every step that spawns a monitor thread leaves no routes
  installed. This is spec section 5, "routes are cleared before any
  reconnect". The lemma `SpawnSites` lists the only handlers that can
  spawn a thread, the callers of `ConnectingEnter`. The close-signal,
  Disconnecting and Connected handlers clear the routes in the same
  step, and `IdleConnect` relies on `RoutesClearedWhenIdle`. TLC checked
  the property once on the `safety_core` instance. It is in no run, for
  the time budget given above.

**`BoringTunProofs`:**

* `OkMeansDevicesConfigured`: `Spec => []AppliedWhenOk`. `AppliedWhenOk`
  is not inductive. A `set_config` in progress has not yet applied the
  configuration, and a hop-mode change recreates the devices in several
  awaited steps. The inductive invariant `BTInv` adds three facts:
  * existing devices have the hop mode of the stored configuration;
  * the exit is sent to only on multihop, after the entry got the
    stored configuration;
  * a send to no devices never started from an Ok.

  TLC checked `BTInv` on the `boringtun_config` instance before the
  proof.

**`NsisPluginProofs`:**

* `NsisTypeOK`: `Spec => []TypeOK`.
* `CopyAlwaysWithinBuffer`: `Spec => []CopyWithinBuffer`, for both
  getters. It rests on `CopyInv`: while a call is pending with a
  buffer, the buffer holds as many u16 as `*buffer_size` says, because
  the caller allocates exactly the size it was told. The lemma
  `GetterResult` states what one call of each getter returns.
* `AppdataReportsRequiredSize`: `BufferFn = "appdata" =>
  (Spec => []InsufficientReportsRequiredSize)`. This holds for
  `get_system_local_appdata` only; the `nsis_version` run shows that
  `get_system_version` breaks it.
* `PathScanAlwaysMatches`: `Spec => []PathScanMatchesReference`, the
  invariant of the `nsis_appdata` run, for every `MAX_PATH_SIZE`. The
  inductive invariant `ScanInv` says what the loop has seen:
  * every element before `i` is not nul;
  * nothing past `i` was read;
  * a result came at a nul, or, at the bound, at an element that is not
    nul.

  `PathScanMatchesReference` is not inductive by itself: it does not
  say that the elements already passed are not nul, and without that
  a step could read past the first nul. The lemma `FirstNulIs`
  identifies the reference `FirstNul` (a CHOOSE) from a witness, and
  `FirstNulExists` shows that a least nul exists in every buffer. The
  library's `SmallestNatural` takes an operator parameter, which the
  installed provers cannot instantiate, so `FirstNulExists` takes the
  least element of the set of nul positions from `WFMin` and
  `NatLessThanWellFounded` (module `WellFoundedInduction`) instead.
  `ScanInvResult` gives the finished-scan conjuncts and
  `ScanInvReference` the running one: every element before `i` is not
  nul, so the first nul is at or past `i`.

**`MonotonicInstantProofs`:**

* `CheckedDurationSinceExact`: `checked_duration_since` equals the
  exact nanosecond difference, normalised, for every `NSEC_PER_SEC`.
* `MeasureCorrect`: the inductive invariant `MeasureInv`.
* `DurationCorrect`: `Spec => []DurationMatchesReference`.
* `InstantTypeOK`: `Spec => []TypeOK`, from `MeasureInv`.

**`WgNtLoggerProofs`:**

* `NoLogAfterCleanUp`: `Spec => []NoLogToCleanedContext`, for any set of
  handles, under `LoggerConstantsAssumption`. The property does not
  mention `LOG_CONTEXT`, which is where the callback reads its context
  from. So the inductive invariant `LoggerInv` adds four facts:
  * `LOG_CONTEXT` names only a handle whose context is stored and not
    yet dropped;
  * the callback holds the mutex while it logs;
  * a dropping handle holds the mutex until `clean_up_logging`;
  * the live contexts are exactly those of the handles between
    `initialize_logging` and `clean_up_logging`.

  With these facts, a drop cannot clean up the context the callback is
  using. The proof has one step per action.

**`WgNtTunnelProofs`:**

* `TunnelRefinesLogger`: `TunnelSpec => Spec` of `WgNtLogger` (safety
  part): every tunnel step is a logger step or leaves the logger's
  variables alone. `TunnelNoLogAfterCleanUp` then carries
  `NoLogToCleanedContext` over to the composed tunnel.
* `StoredConfigApplied`: `TunnelSpec => []DeviceRunsStoredConfig`. The
  property is inductive with the type invariant (`ConfigInv`): only the
  future holding the mutex assigns the stored config, and it releases
  the mutex in the step that applies it.
* `AdapterLifetimeSafety`: the initial states and every step of
  `WgNtTunnel` map, under `LifeOf`/`AdapterOf`, to an initial state and
  a step or stutter of `WgNtAdapterLifetime`. It rests on `LifeInv`,
  which ties the adapter's `Arc` holders to the tunnel's pc, the setup
  task and the futures: a running tunnel holds its clone, a stopped one
  does not and has no setup task still waiting, the setup task holds a
  clone exactly while it waits or is being aborted, and a future or a
  stats task holds one exactly while it runs. The lemma `LifeStep` shows
  that a step of one tunnel maps to a step of that tunnel alone
  (`OnlyAt`).

**`DnsMonitorProofs`:**

* `RegistryAlwaysConsistent`: `Spec => []RegistryConsistent`, and
  `OkMeansApplied`: `Spec => []AppliedWhenOk`, for any set of
  interfaces and with OS calls failing or not. The inductive invariant
  `DnsInv` is the two properties with the type invariant. The lemma
  `SetDnsOutcomes` says that a transaction either commits
  `Written(i, c)` or leaves the keys as they were. `RegistryAfterWrite`
  says that either keeps the registry consistent.

**`HiddenWindowProofs`:**

* `SendAlwaysSucceeds`: `Spec => []SendNeverFails`, for any number of
  listeners and events. `~sendFailed` alone is not inductive. The
  strengthening `WindowInv` says two things:
  * a receiver lives exactly while its listener has not passed `DropRx`;
  * until the window thread has exited, some listener still holds the
    window handle or is closing it.

  The second holds because the last holder goes through `Close` and
  `Join`, and `Join` waits for the thread to exit. So no `PowerEvent`
  runs without a receiver.

**Left to TLC only.**

* Liveness needs fairness and ENABLED, which TLAPS cannot handle here.
  This covers `DisconnectingTerminates`, `ShutdownEndsThread` and the
  fairness half of `AdapterLifetime`: the adapter of a stopped tunnel
  eventually closes.
* Every safety property a passing run checks is proved.

## 6. Findings

There are five. They are listed with their source lines in
`PROJECT.json` and summarised in the violation table of section 3:

* one is a spec gap in the tunnel state machine's retry bound;
* one is a bug in the NSIS plugin's size protocol;
* one is in the DNS monitor's tracking of configured interfaces;
* one is a hang on early close of the hidden window;
* one is the cancellation panic in BoringTun.

There is also one divergence from the spec that is stated in the model
rather than as a run. In Connecting, the tunnel `Down` handler
(connecting_state.rs:583) narrows `allowed_tunnel_traffic` without
re-applying the policy. A comment there explains why: a re-apply would
refer to a device that is going away. `spec.md` section 8 says the policy
is always exactly derivable from the state. `PolicyMatchesState`
therefore requires the traffic to match only while the tunnel metadata is
known, and that exception is the whole of the lag.

## 7. Not modelled, and why

* **The Android translations normaliser, the problem-report JNI and
  the iOS access-method resolver.** These are string transformations and
  I/O glue with no state.
* **The test manager.** These are integration tests, not the system.
* **BoringTun's tun-device creation and the counters
  `get_tunnel_stats` collects.** These are pure I/O. Its unwrap of
  `self.devices` is modelled.
* **WireGuard-NT's config (de)serialisation, DLL loading and adapter
  calls.** This is FFI marshalling. DAITA (`spawn_machinist`) is not
  modelled either.
* **The tokio broadcast channel's lag.** Its semantics are tokio's, not
  this repository's.
* **Platform branches of `ConnectingState`.** The Android, macOS and
  Windows split-tunnel branches are left out. They do not touch the
  policy, routes or attempt bookkeeping.

## 8. Plan

* Add a refinement of `DnsMonitor` onto an abstract DNS port.
* Model WireGuard-NT's DAITA machinist, which reads the stored config.
