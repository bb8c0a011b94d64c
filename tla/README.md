# A TLA+ model of the RDK WAN Manager

The WAN Manager decides which of a gateway's WAN interfaces carries traffic. It
is one process with several threads that share one database behind one mutex,
and a data model through which the rest of the device configures it. This
directory models the threads, the state machine of an interface, the tables of
the data model and what is kept over a restart, checks the models with TLC on
small instances and proves part of what TLC shows for every instance with TLAPS.

## 1. The system

### Parts, state and operations

| Part | Source | State | Operations |
|---|---|---|---|
| Shared data | `wanmgr_data.c`, `wanmgr_dml.h` | `gWanMgrDataBase`: configuration, groups, interfaces with their virtual interfaces; one recursive mutex | `WanMgr_Get*_locked` / `*_release`, defaults at start |
| Data model | `wanmgr_dml_*.c`, `wanmgr_rbus_handler_apis.c` | none of its own | writes of Enable, Selection, Policy, Reset, BaseInterfaceStatus and the parameters of interfaces; connectivity results |
| Stored configuration | `wanmgr_rdkbus_apis.c`, `wanmgr_rdkbus_utils.c` | PSM, syscfg | commit, read at start, repair of the marking list |
| Controller | `wanmgr_controller.c` | none | waits for Enable, runs the failover thread |
| Failover policy | `wanmgr_wan_failover.c` | current and highest valid group, timer | starts selection threads, activates one group at a time, restores a higher one |
| Selection, AutoWAN | `wanmgr_policy_auto_impl.c` | state, `activeInterfaceIdx`, timer, copies of the flags | finds, starts, validates, resets and tears down an interface of its group |
| Selection, Parallel Scan | `wanmgr_policy_parallel_scan_impl.c` | the same | starts all interfaces of its group, selects the best that works |
| Interface state machine | `wanmgr_interface_sm.c` | `WanMgr_IfaceSM_Controller_t`, one thread per start | builds VLAN, PPP, IP, MAP-T from the bottom up, publishes Status |
| DHCP clients | `wanmgr_net_utils.c`, `wanmgr_dhcp_event_handler.c`, `wanmgr_rbus_dhcp_client_events.c` | client statuses, leases | start, stop; one thread per message |
| DHCP tables | `wanmgr_dml_dhcpv4.c`, `wanmgr_dml_dhcpv6.c`, `wanmgr_dhcpv*_apis.c`, `wanmgr_dhcpv*_internal.c` | rows, registry, backend, dibbler's files | transactions: set, validate, commit or roll back |
| Primary and backup WAN | `wanmgr_policy_autowan_impl.c` | two threads, operational mode, switch-over status | builds without the unified WAN Manager: DOCSIS or Ethernet, and a remote device as backup |
| Remote devices | `wanmgr_rbus_handler_apis.c`, `wanmgr_data.c` | a row per device in the interface table, the list of names to query, a mutex of its own | one thread per report of a device: adds, enables or disables the row, queries and subscribes |
| WebConfig | `wanmgr_webconfig.c`, `wanmgr_webconfig_apis.c` | queue of blobs | decodes and applies marking tables and the failover switch |
| Other policies, route monitor, start-up | the other files | | see `components` in `PROJECT.json` |

### How they interact

The threads never call each other. They write flags and poll:

- the failover thread sets `Selection.Status` of the interface of one group to
  ACTIVE and reads `VirtIf.Status`, `SelectedInterface` and the group's `State`;
- a selection thread (one per group, created by the failover thread when the
  group's `State` is STOPPED) sets SELECTED / NOT_SELECTED, `SelectedInterface`
  and `ActiveLink`, starts state machine threads and reads `SM_Running`;
- a state machine thread reads `Selection.Status`, Enable and the link, and
  writes `Status` and `SM_Running`; the DHCP Manager's messages reach it through
  threads that write the lease and the client status into the same data;
- the primary and the backup thread of the older builds read each other's
  `Selection.Status`, the WAN service's sysevents and `TelemetryBackUpStatus`;
- the Inter Device Manager reports devices and their parameters through rbus
  callbacks, which start a thread or write the row;
- the data model and the WebConfig thread write all of these at any moment, and
  store what they write in PSM.

### What is hard

Each thread copies some flags in one lock section and acts on them in the next.
`SM_Running` and `State` are written by the thread they describe, not by its
creator. Requests are cleared by whoever sees them first. `MarkHighPriorityGroup`
locks one group at a time. DHCP messages are handled in any order. A table row is
in memory, in a registry and in a backend, and a restart may come between any two
writes. The hazards this gives are listed, with the lines where they bite, in
`PROJECT.json`.

### What makes each part correct

- Data: a group has at most one `ActiveLink`; an ACTIVE interface is the
  selected one of the current group.
- Failover: at most one interface is UP; a first activation waits until every
  higher group has completed its initial scan; a usable interface comes up; a usable higher group is restored;
  after a disable nothing is left.
- Selection: one thread per group; no state function runs without the interface
  it needs; a disable, a reset and a changed group are carried out.
- Parallel Scan: what is selected is what the threads hold; priority first.
- State machine: a lost link or a deselection ends it, in each of its states; it
  stops the clients it started; it keeps the name servers of what it serves.
- Backup: the remote interface takes over after the local one has gone, and
  gives back.
- Remote devices: one row per device, enabled when the device is there.
- Tables and stored configuration: memory, store and running process agree, and
  a restart brings back what was confirmed and is saved (section 3 lists what is
  not).

## 2. Modules

| Module | Models | Extends |
|---|---|---|
| `WanData` | The shared data and the data model writes. One action per write. | |
| `IfaceSM` | The interface state machine as the other threads see it. | `WanData` |
| `AutoWan` | An AutoWAN selection thread. One action per state function, with the transitions it calls; `Goto` is the end of an iteration. | `IfaceSM` |
| `FailOver` | The failover thread and the controller loop. | `AutoWan` |
| `WanManager` | All threads together: `Init`, `Next`, `Spec`, fairness, the properties. | `FailOver` |
| `InterfaceSM` | The state machine in detail, with the DHCP clients and messages. | |
| `ParallelScan` | A Parallel Scan selection thread. | `IfaceSM` |
| `PrimaryWan`, `BackupWan`, `RemoteWan` | The two threads of `wanmgr_policy_autowan_impl.c` and their composition. | each the one before |
| `RemoteDevices` | The rows of remote devices in the interface table: reports, start-up, configuration threads, answers. | |
| `DhcpTables`, `Dhcpv6Tables`, `Dhcpv4Tables` | The DHCP tables: what they share, and each family with its backend. | `DhcpTables` |
| `WanConfig` | The parameters of the interfaces in memory and in PSM. | |
| `Marking` | The marking table of an interface and its list in PSM. | |
| `TopConfig` | The manager's own parameters in memory and in PSM. | |
| `WebConfig` | Blobs and the thread that applies them. | `TopConfig`, `Marking` |
| `MCWan`, `MCStack`, `MCScan`, `MCRemote`, `MCDhcp`, `MCConfig` | Instances for TLC: bound the events or operations of a behaviour. | |
| `DataProofs` | Lemmas about the writes and the state machine threads that both selection policies need. | `IfaceSM` |
| `WanManagerProofs` | Types and threads of `WanManager`. | `WanManager`, `DataProofs` |
| `WanHandOverProofs` | The hand over between groups; the failover thread. | `WanManagerProofs` |
| `StackProofs` | The invariants of `InterfaceSM`; that it implements `IfaceSM`. | `InterfaceSM` |
| `ScanProofs` | The selection of Parallel Scan. | `MCScan`, `DataProofs` |
| `RemoteProofs` | The two threads of `RemoteWan`; the rows of `RemoteDevices`. | `MCRemote` |
| `DhcpProofs` | The DHCPv6 and DHCPv4 tables. | `MCDhcp` |
| `ConfigProofs` | The stored configuration. | `MCConfig` |

Names follow the source (`FOGroupActive` is `State_GroupActive`, `Ipv4Up` is
`wan_transition_ipv4_up`); `map` in `PROJECT.json` gives the lines.

**Atomicity.** An action is one critical section of `gDataMutex`. A selection
thread holds the mutex for a whole state function (it locks the selected
interface first, and the mutex is recursive), so a state function is one action;
so is one of the state machine. The copies of the flags (`UpdateControllerData`,
"Update Wan config") are taken when an iteration ends and again at any later
moment at which they would differ, which covers every moment between two
iterations. `MarkHighPriorityGroup` is one action per group, the scan loop of
Parallel Scan one per interface. `IfaceGroupMonitor`, `Transition_Start` and the
loop at the end of the failover thread also take the lock per group, but a pass
only touches its own group and nobody else makes a group RUNNING, so one action
each gives the same results. A DHCP table operation is one call of the management
framework. A marking is stored by several PSM writes: `CrashInAdd` and
`CrashInDelete` end the process after each of them. The WebConfig thread adds a
row and fills it in two steps. In `RemoteDevices` the search for a row, its
insertion, its registration and its enabling are separate steps, and a loop of
requests to a device is one.

**The abstract state machine.** `IfaceSM` is the specification the selection and
failover threads are checked with: phases, Status and SM_Running, with layers that
come up or fail nondeterministically. `InterfaceSM` is the code's machine.
`ImplementsIfaceSM` instantiates `IfaceSM` with the detailed state: the phase of
a state (`AbsPhase`: the three configuring states are `config`, the four leased
ones `up`), the interface record (`AbsIface`) and the thread's copy of Enable; the
mapping gives the abstract machine one interface in one running group. Every step
of the detailed machine is a step of an abstract state machine thread, a write of
the data model, what a selection policy does (it starts the machine and writes
`Selection.Status`), or changes nothing the abstract machine shows.

**Abstractions.** An interface is its instance number, 0 is none, as in
`SelectedInterface`, and has one virtual interface. In `IfaceSM`, `INITIALISING`
stands for INITIALISING and VALIDATING. `ActivationCount` is kept as "not 0". The
selection timer is "has expired"; `GroupSelectionTimer` counts up to `MaxTimer`.
LED, telemetry, LAN bridge, routes and firewall are left out. In the thread models
PSM and bus calls succeed; in `InterfaceSM` set-up and tear-down of an address may
fail; in `TopConfig`, `Marking` and `Dhcpv4Tables` the store refuses or loses
writes. A reboot request returns, as `Wanmgr_TriggerReboot` does. In the tables,
parameters that are handled alike are one value (Tag and Value of an option), and
parameter values are small numbers. The WebConfig thread's new row is not touched
by other callers before it is filled (`Unfilled`): they do not know its number.
The thread counts the rows and adds its own in one step (`WebAdd`). No interface of
the groups is a remote one in `WanManager`: the conditions on REMOTE_IFACE
(`wanmgr_wan_failover.c:492`) and on AllowRemoteInterfaces in the selection are left
out there. The option file of dibbler can always be opened for writing. In the live
runs RestorationDelay is 0, so RESTORATION_WAIT lasts one tick.

**Events.** `Events` and `Happens` say which writes and failures a run explores.
The specifications allow any number of them; the MC modules allow a bounded number
in a behaviour, at any moments.

## 3. Runs

| Run | Instance | Checks |
|---|---|---|
| `failover` | 2 groups of 1 interface, 3 events (links; lease and connectivity of the first interface) | `TypeOK`, `HandOverInv`, `ActiveIsCurrent`, `AtMostOneUp`, `ScanInOrder` |
| `data_model` | 2 groups, 1 interface, 2 events of any kind, 2 selection threads per group possible | `JoinWaitsForThread`, `PolicyIndexValid`, `QuietWhenOff`, `SingleSelectionThread` |
| `selection` | 1 group of 2 interfaces, 2 link events | `OneActiveLink` |
| `failover_live` | 2 groups, 2 link events, fair | `WanComesUp`, `Restored`, `LinkLossSeen` |
| `admin_live` | 1 interface, 2 events (Enable, link, resets, policy), fair | `DisableStops`, `ConfigChangeApplied`, `ResetSelectedDone` |
| `stack` | IPoE on a VLAN, PPPoE and MAP-T, 3 events of twelve kinds, `MaxPending` = 2 DHCP messages under way | `StackTypeOK`, `NoOrphanClient`, `DnsServed`, `ImplementsIfaceSM` |
| `scan` | 1 group of 2 interfaces, the better one needs a reboot, 2 events, fair | `SelectionConsistent`, `PriorityFirst`, `ScanComesUp` |
| `remote` | 2 local interfaces and 1 remote, fixed and AUTO mode, connectivity check, 3 events of any kind; in other behaviours 2 remote devices, a table with 1 or 2 places left, the start-up and 2 events | `RemoteStateOK`, `RowsFollowDevices`, `BreakBeforeMake` |
| `remote_live` | 2 local interfaces and 1 remote without the connectivity check, 3 link events, fair | `LocalRestored`, `BackupTakesOverFixed` |
| `dhcp_tables` | 5 table operations, 1 restart, with and without a stored option | `Table6TypeOK`, `ReadsWhatIsStored`, `DibblerServesCommitted`, `CommittedOptionsDistinct`, `AliasBuffersEmpty`, `RestartKeepsDelayAdded` |
| `config` | 2 interfaces and 3 calls; 3 aliases, a list for 2, 6 calls; 4 calls with WebConfig; 1 start or crash in each | `StoredTypeOK`, `ConfirmedSurvives`, `PrioritiesDistinct`, `PortsDistinct`, `MarkingsStored`, `RestartRepairs` |
| `v_last_selected` | 2 interfaces, the one of lower priority was selected before the restart | violates `LastSelectedPreferred` |

**Bounds.** Two groups are enough for a switch in both directions, two interfaces
in a group for a choice between them. A link that goes down and comes back takes
two events. In `stack`, two messages under way are a late one and the one that
overtakes it; three events are a selection, a disturbance and its recovery. Five
table operations add a row, set two parameters and add or delete another, in one
transaction or several. Three aliases in a list for two meet the cut list
(`ListCapacity` stands for the 64 bytes), and six calls add, name and commit two
rows. Two devices with the start-up and two events give three threads for one
device, or a report that repairs a lost one; two threads at a time (`Slots`) are
one that holds the mutex and one that waits or overtakes. In `config` the aliases other than DATA are symmetric. Where `MaxPolThreads`
or `MaxISMThreads` is 1, a second `pthread_create` fails, which the code handles
like any failed one; `data_model`, which checks the number of selection threads,
uses 2.

Deadlock is checked in `failover`, `selection` and `failover_live`. In the others
the system may stop: the controller may wait for Enable, a policy need not start a
machine on a link that is down, and tables rest when nobody calls them.

**The violation.** Parallel Scan means to prefer the interface that was selected
last: `wanmgr_policy_parallel_scan_impl.c:761`, "set negative value to give
highest priority for last active link interface". `highPriorityValue` is a `UINT`,
so -1 is the lowest priority of all, and the next interface that works replaces
it. `v_last_selected` shows the other interface selected before the time out.

**Stronger statements that do not hold.** While modelling, these were found to
fail. The properties above are stated so as to leave them out, and say so.

- `WanComesUp` when Enable goes off and on again before a selection thread has
  sampled it: the failover thread waits for that thread for ever
  (`wanmgr_wan_failover.c:943`). `WanComesUp` when a higher group has no
  interface: it never completes its initial scan (`:533`).
- `SingleSelectionThread` under COLDSWAP: a DEACTIVATED group is set STOPPED while
  its thread is tearing down, and gets a second thread (`:507`).
- One state machine thread per virtual interface: `SM_Running` is set by the new
  thread, and a selection thread that looks too early starts a second one
  (`wanmgr_policy_auto_impl.c:1174`).
- An interface moved to another group leaves the old one: the new group's thread
  may select it while the old thread waits for its state machine to end.
- `Transition_ActivateGroup` is never reached without a group
  (`wanmgr_wan_failover.c:595`): it is when Enable comes back in time.
- `NoOrphanClient` after a STOPPED message that is handled when the client was
  started again, and `DnsServed` after a RENEW that is handled after the DEL
  (`wanmgr_dhcp_event_handler.c:124`, `:134`).
- The backup takes over in AUTO mode: the switch-over status may stay STOPED
  (`wanmgr_policy_autowan_impl.c:3505`).
- A higher group with a usable interface is not passed over at the first
  activation: `ScanInOrder` only waits for its initial scan, which may have ended
  before the interface became usable.
- A remote device that is there has an enabled row: not when the table is full or
  memory for the row cannot be had, both of which leave `gDataMutex` locked for
  good (`wanmgr_data.c:995`, `:972`), and not after a report that was dropped in
  modem mode, lost because no event or thread could be created, or overtaken at
  `RemoteIfaceConfigure_mutex` (`wanmgr_rbus_handler_apis.c:724`, `:1412`,
  `:1422`), until the next report. Nor is every such device subscribed: the list of names is
  shared by the threads that query (`:1547`).
- Every committed parameter is what the next start reads: `Name` is set,
  committed and read, and never written
  (`write_Wan_Interface_ParametersFromPSM`); `VLAN.Interface` is written under the
  key of the marking entry, and overwrites it (`wanmgr_rdkbus_apis.c:678`).
  `ConfirmedSurvives` leaves out these two by name (`NeverWritten`), and a
  marking entry while it is overwritten (`Overwritten`).
- A rollback of interface parameters undoes them (`WanIf_Rollback` does nothing);
  a start repairs a list with two broken entries; a restart keeps a second DHCPv6
  client that was committed.

**Fairness.** Weak fairness of each thread's own steps: the threads are pthreads
in endless loops with a `select` time out. Strong fairness of the clock and, in
`scan`, of the failover thread's activation, which are enabled only in some states
but come back to them. Weak fairness of the state machine also means that a stack
whose lower layers are healthy comes up, and in `remote_live` that the WAN service
does what it is told and a requested link status is reported: the properties are
about the WAN Manager, not about a DHCP server that does not answer. Nothing is
assumed of the operator, of the links or of failures.

## 4. Proofs

The theorems hold for every number of groups, interfaces and threads, every
initial grouping and priority, every set of events and, where an `MC` module
bounds something, every bound. They use the named assumptions on the constants
(`SizesAssumption`, `TablesAssumption`, `FailOverAssumption`,
`StackAssumption`, `LastSelectedAssumption`, `ConfigAssumption`,
`TopAssumption`, `MarkingAssumption`, `WebAssumption`, `LocalAssumption`,
`DevicesAssumption`, `UlongAssumption`, `Tables6Assumption`,
`Tables4Assumption`): sizes are positive, tables have the right domain, the
instance numbers of the interfaces are priorities, DATA is an alias and
network_control is not, 0 is an Ethernet priority, the local interfaces of the remote policy are the two it knows, or one of them, and
the options syscfg holds at first are distinct. Hypotheses beyond these are part of the
theorem and are discussed below.

### The threads (`WanManager`)

| Theorem | Property | Hypotheses |
|---|---|---|
| `TypeCorrect` | `TypeOK` | |
| `JoinNeverWaitsInVain` | `JoinWaitsForThread` | |
| `SelectionHasInterface` | `PolicyIndexValid` | |
| `OneThreadPerGroup` | `SingleSelectionThread` | HOTSWAP |
| `FirstActivationInOrder` | `ScanInOrder` | |
| `HandOver` | `HandOverInv` | `HandOverAssumed` |
| `ActiveInterfaceIsFound` | `ActiveIsCurrent` | `HandOverAssumed` |
| `DisabledIsQuiet` | `QuietWhenOff` | `HandOverAssumed` |
| `LinkIsUnique` | `OneActiveLink` | `HandOverAssumed` |
| `BreaksBeforeMake` | `AtMostOneUp` | `HandOverAssumed`, `NoRequests` |

`TypeOK`, `JoinWaitsForThread` and `PolicyIndexValid` are inductive as they stand.
`SingleSelectionThread` is not: a thread could be created next to one that lives.
`OneThread` adds `ThreadsRunning`, a live thread's group is RUNNING, so that
`IfaceGroupMonitor` does not find it STOPPED. Under COLDSWAP it is false.

The hand over rests on `HandOverInv`, which TLC checks in `failover`. That the
ACTIVE interface is the selected one of the current group is kept by the failover
thread only if every step of a selection thread that forgets a selected interface
has taken it out of service first. So the invariant says which state a thread is in
while its group has a selected interface (`SelectedIsHeld`), that a thread on its
way out has deselected it (`LeavingIsDeselected`), that it was asked to
(`TearDownWasRequested`), and that what a thread was asked is still there when it
acts on its copy (`RequestsStand`). Each section of each thread is first reduced
to what it does to these fields; the preservation proof has one lemma per
section.

`HandOverAssumed` is HOTSWAP, no write of Selection.Group (`FixedGroups`), no
re-enable (`NotReenabled`) and no request taken back (`RequestsStay`). None can
be dropped: `Transition_InterfaceInvalid`, reached from a tear down whose reason
has gone, leaves `SelectedInterface` naming an interface the thread has given up,
and a thread of another group may take an interface that was moved. Disabling is
allowed, at any moment, which is why it and enabling are two events. `NoRequests`
adds that nobody disables, asks for a reset or changes the policy and no
interface needs a reboot, while links, leases and connectivity checks do what they
like: `Transition_ResetScan` puts the next group in service without waiting for
the interface of the one before to come down.

For `ScanInOrder` the invariant (`ScanInv`) ties the position of
`MarkHighPriorityGroup` to the groups it has passed. `OneActiveLink` needs
`LinkInv`: a thread knows the interface that carries the mark (`LinkKnown`) or
has no other. `AtMostOneUp` needs `ServiceInv`: whatever is UP is the interface of
the current group, and nothing is UP at the moment of an activation.

### The interface state machine (`InterfaceSM`)

`StackTyped`, `ClientsAreOwned` and `NameServersServed` prove the three invariants
from one, `MachineInv`: a client that runs is known (`Known`), SM_Running follows
the state and nothing runs before OBTAINING (`Running`), what is published is set
up (`Serves`), a layer is being configured only in the state that waits for it
(`Layers`). The transitions of the code are functions that call each other; each
has a lemma on the fields the invariant is about, and the state functions are
reasoned about with these alone.

`MachineRefines` proves `ImplementsIfaceSM`. `Outcome` says what an iteration can
do (end, be configured, obtain, stand by, serve) and the proof shows each to be an
action of `IfaceSM` under the mapping of section 2; every write and
message is the environment's or changes nothing the mapping shows. The selection
and failover theorems therefore speak of the state machine as the code has it,
with one virtual interface per interface.

### Parallel Scan (`ParallelScan`)

`OneSelection`: `GroupsStay /\ MCSpec => []SelectionConsistent`. The invariant
`SelectionInv` adds the types, that nothing is chosen while the thread scans, tears
down or ends (`NoneChosen`), that a chosen interface is the one of the group and of
the thread (`ChosenIsHeld`), and the state before a thread's start. `GroupsStay` is
needed: a write of Selection.Group moves an interface in service to a group whose
threads never chose it.

`HighestFirst`: `GroupsStay /\ SelectionsStay /\ MCSpec => PriorityFirst`, for any
priorities, negative ones too. The pass locks one interface at a time, so the
invariant `PassInv` says what its locals know halfway: without an ActiveLink in the
group `highPriorityValue` is the priority of `highPriorityValidIface`, and no
interface that was passed is better (`BestSeen`); outside a pass the locals are as
they were declared (`Fresh`). The proof uses that ActiveLink is written by the
group's own thread only, in the steps that end a pass. The hypotheses are needed: an
interface that is enabled, or moved into the group, after the pass went by is not
seen. So is the exemption of ActiveLink: a last selected interface in the middle of
the table takes the place of a better one before it, and a third interface, better
than the last selected one only, takes the place of both.

### The remote interfaces (`RemoteWan`, `RemoteDevices`)

`RemoteBreaksBeforeMake` proves `BreakBeforeMake`. The two threads share the
interface table and never talk to each other, so the invariant says what the
backup thread can see of the primary one: an ACTIVE local interface is the one of
the primary thread in its state ACTIVE (`ActiveIsMine`), and on its way there the
primary thread has set the switch-over status to STOPED, or has fallen back so
recently that the WAN service has still to stop (`Announced`).

`RowsFollow` proves `RowsFollowDevices`. One row for each device needs the mutex
(`MutexHeld`) and that what its holder has found, a row or none, still holds
(`AtWork`). That the rows follow the devices needs the last word on a device: the
last report on the way tells whether it is there (`LastReport`), and when no
report is on the way and the start-up has nothing to do for it (`Pending`), the
youngest thread in the queue has the right state, else the holder, else the row
(`LastWord`). A thread that takes the mutex before an older one of the same device
breaks this, and so does a report for which no thread is started; that is what
`stale` records. After a thread has ended with `gDataMutex` locked, because there
was no place or no memory for a row, nothing is claimed but that the rows are one
for each device. `RemoteStatesTyped` proves the types
of both parts. The two parts share no variable; `MCRemote` runs one of them in a
behaviour, and each has its own invariant.

### The DHCP tables (`Dhcpv6Tables`, `Dhcpv4Tables`)

| Theorem | Property | Hypotheses |
|---|---|---|
| `Dhcpv6TypeCorrect` | `Table6TypeOK` | |
| `DibblerServes` | `DibblerServesCommitted` | |
| `BuffersEmptied` | `AliasBuffersEmpty` | |
| `ReadsStored` | `ReadsWhatIsStored` | `NumbersLeft` |
| `RestartKeeps` | `RestartKeepsDelayAdded` | `NumbersLeft` |
| `OptionsStayDistinct` | `CommittedOptionsDistinct` | `NumbersLeft` |

The tables, the registry and syscfg may hold any number of rows, and a request may
set any number of parameters in any of them. `DhcpInvariant` proves one
invariant for each family. `Types6` says what every table holds, row by row;
`KeysExist` that a row a request still has to validate, commit or roll back is in
its table; `BuffersInUse` that a filled alias buffer belongs to a row of the
request that is under way; `DibblerFollows` that dibbler serves what is committed,
that the file of an enabled client is written, and that timers about to be
committed have passed the validation. `Inv4` is the DHCPv4 half.

What a reader finds is what the backend stores by `Reads`: all numbers in a
table and in the registry are at most the last one handed out (`NumbersGrow`); the
client with number 1 is the backend's, is never new, and only its options are ever
committed (`OneBackendClient`); no number is stored
twice (`NumbersOnce`); a row the request has not touched reads as it is stored, and
a row is new exactly when the backend has none of its number
(`CommittedIsStored`); and the registry holds the rows that are new (`Follows`),
which is what a restart rebuilds them from. `OptionsApart` is the property, except
while rows are committed one after the other: then the backend may hold a
clash for a while, and it is the rows that are committed or about to be that are
pairwise apart (`StandingApart`). A restart in that phase loses those about to
be, hence `torn`.

`NumbersLeft` says that no table has used up its instance numbers. They are
ULONGs which the code increments without looking, so after 2^32 additions a new row
would get the number of one in use and replace it. In `dhcp_tables` `UlongLimit` is
far above what the additions reach, so there the hypothesis always holds.

### The stored configuration (`WanConfig`, `TopConfig`)

`ConfirmedIsKept` proves `ConfirmedSurvives`, which ranges over the parameters that
are saved under their own key, and `PrioritiesStayDistinct` proves
`PrioritiesDistinct`. What is stored and what was confirmed differ in what the
reader changes, or where the marking entry was overwritten, so `ConfigInv` says it
of the records (`ConfirmedStored`), that only
a marking entry can hold what is not a number (`NumbersStored`), that what a setter
stores at once is the same in memory and PSM (`AtOnceStored`: a commit confirms it
without writing it) and that a priority which waits for no commit is stored
(`PriorityStored`). For the manager's own parameters `TopInv` is enough.
Looking for `ConfigInv` showed what a commit confirms: the object as memory has
it, what a rollback has left there included. `cmt` therefore has no exemption for
parameters that were rolled back: with one, a set, a rollback, another set, a
commit and a third set would break the property.

### The marking table (`Marking`, `WebConfig`)

| Theorem | Property |
|---|---|
| `StoredTypesCorrect` | `StoredTypeOK` |
| `PortsStayDistinct` | `PortsDistinct` |
| `MarkingsStayStored` | `MarkingsStored` |
| `StartsRepair` | `RestartRepairs` |

`MarkingInvariant` proves `MarkInv /\ WebInv`. No alias is twice in the list and an
alias cut by the list's buffer never has all its records (`Apart`), so a start adds
no row twice. An entry that has all its records has a row (`WholeHaveRows`): hence a
start finds no more of them than there are instance numbers. Instance numbers are
distinct and below the next one (`NumbersInv`), and a stored port is the instance
number plus one unless its alias is in `refused` (`PortsInv`); an alias that two rows
have is in `refused` (`TwiceRefused`), so what is written for one row does not change
the other's record. `WebInv` adds what the thread holds between two steps: the blob it
works on is the first of the queue, and the marking it added a row for is still the
first of its table. `Filling` counts the row the thread has added and not filled: it
is committed as a new one whatever row has moved to its place meanwhile, so the last
number must be left for it.

Two facts came out of the proof. A row that is committed as new twice takes the
next number once more, so ports go up to `MarkingMax + 2`. And a marking that the
thread updates can be in the list although its row was never added: a start that
meets two broken entries leaves one of them in the list, and a new row may be given its
alias. The update then stores port 0; `refused` records it, as it does any alias
that is not stored as given. The runs' bounds do not reach that case.

### Only model-checked

- The liveness properties, and the absence of deadlock: fairness and ENABLED are
  out of the prover's reach.

`LastSelectedPreferred` (`v_last_selected`) is refuted, and no theorem. Every
invariant and action property of the passing runs is one.

## 5. Plan

1. Done: all modules of section 2, the runs of section 3, the theorems of
   section 4.
2. Done: a theorem for every invariant and action property of the passing runs.
3. Modelling to come: several virtual interfaces of one interface (the VLAN scan
   of Parallel Scan); the selection policies over a table that grows with
   `RemoteDevices`.

## 6. Not modelled

- The legacy policies (fixed mode, primary priority and their on-bootup
  variants): `Makefile.am` does not build them. `State_AutoWanInterfaceValidated`
  of `wanmgr_policy_autowan_impl.c` (lines 2416-2458) is never entered.
- `wanmgr_dml_iface_apis.c`: the interface data model of builds without the
  unified WAN Manager, an older form of `wanmgr_dml_iface_v2_apis.c`.
- The route monitor, the sysevent listeners and the legacy IPC: they copy
  notifications into the data, which the models take as writes at any moment.
- Shell commands, HAL calls, message bus registration and start-up; msgpack
  decoding failures and blob versions of WebConfig; getters that only read.
- Lock balance on error paths (`wanmgr_data.c:366`,
  `wanmgr_policy_parallel_scan_impl.c:352`): a matter of single functions and not
  of the interleavings modelled here, except in `RemoteDevices`.
