# Verification of CrawlingChaos

A TLA+ development kept beside the code of CrawlingChaos, an Unreal Engine first-person
shooter, and of the RiderLink editor plugin that is compiled with it.  TLC model-checks
the modules on small instances, TLAPS proves the theorems for every value of the
constants, `PROJECT.json` maps every definition to the lines it models.

## 1. The system

Two programs live in the repository.

**The game** (`Source/CrawlingChaos`).  Everything runs on Unreal's game thread, one
callback at a time; what is hard is the *order* of the callbacks.

| component | state | operations | talks to |
|---|---|---|---|
| Character (`CrawlingChaosCharacter`) | EquippedWeapon, WeaponInventory, AmmoMap | BeginPlay, SwapWeapons, EquipWeapon, AddWeaponToInventory, AddAmmoOfType, DecrementInventoryValue, fire button pressed / released | calls the weapon in hand, is called by weapons |
| Weapon (`Weapon`) | ItemState, Player, bCanFire, bStartFiring, WeaponFireTimer, table row | BeginPlay, OnSphereOverlap, OnFire, AutoFireReset, SetItemState | calls the character, the timer manager, the collision system |
| Item (`Item`) | bCanOscillate, OscTimer, InitialLocation | BeginPlay, Tick, OscillateCallback | timer manager |
| Projectile, HUD, GameMode | none to speak of | OnHit, DrawHUD | - |

**RiderLink** (`Plugins/Developer/RiderLink`).  An editor plugin that connects the Unreal
editor to the Rider IDE over a socket with the reactive-distributed (RD) protocol, whose
C++ implementation is in the tree.  It is concurrent throughout: a sender thread, a
receiver thread and a heartbeat per connection, scheduler threads, and the game thread.

| component | state | operations | talks to |
|---|---|---|---|
| Send queue (`ByteBufferAsyncProcessor`) | data, queue, pending_queue, max_sent_seqn, current_seqn, acknowledged_seqn, interrupt_balance, in_processing, state | put, pause, resume, acknowledge, stop, terminate, ThreadProc, process, reprocess | SocketWire |
| Socket wire (`SocketWire`) | socket, connected, max_received_seqn, socket_send_lock, heartbeat timestamps | connect / accept loop, receiverProc, send0, read_package, send_ack, ping, terminate | peer, MessageBroker, send queue |
| Message broker (`MessageBroker`) | subscriptions, per-entity backlogs | dispatch, invoke, advise_on | schedulers, entities |
| Schedulers (`scheduler/*`, `PumpScheduler`) | queue, active count | queue, flush, pump | threads |
| Properties, maps, lists, sets (`impl/Rd*`, `base/RdPropertyBase`) | value and version, pending acknowledgements | set / put / add / remove, bind, on_wire_received | broker, wire |
| Extension handshake (`ext/ExtWire`, `RdExtBase`) | state of both sides, queued messages | init, Ready / ReceivedCounterpart / Disconnected, send | wire |
| Calls (`RdCall`, `RdEndpoint`, `WiredRdTask`) | pending tasks, sync_task_id | sync, set, cancel, timeout | wire, schedulers |
| Lifetimes (`lifetime/*`) | actions, terminated | add_action, attach_nested, terminate, bracket | everything |
| Signals, local properties, observable collections (`rd_core_cpp/reactive/*`) | listeners, value, elements, lifetimes of views | set, add, remove, clear, advise, view | lifetimes, their own users |
| Plugin module (`RiderLink.cpp`, `ProtocolFactory.cpp`) | connection lifetimes, model, RdIsModelAlive | connect, disconnect, ViewModel, QueueAction, FireAsyncAction | RD |
| Game control (`RiderGameControlExtension`) | play mode bits, settings, pending requests | requests and echoes of settings, play events | model, editor |
| Logging and blueprints (`RiderLoggingExtension`, `RiderBlueprintExtension`) | output device, scheduler queue | serialize, chunk, bind | model, editor |

A local change travels downwards: an entity tells its own listeners, then hands a message
to the wire of its extension, which keeps it until the counterpart is there; the send queue
numbers it and the sender thread writes it to the socket.  At the other end the receiver
thread acknowledges and dispatches it; the broker hands it to the scheduler of the entity,
and on that scheduler it becomes a change of the other copy.  Lifetimes tie everything
together: ending the lifetime of a connection unbinds its entities and subscriptions, last
one first.

`RD/thirdparty`, the generated `Public/Model`, `Intermediate`, `Content` and `Binaries`
are vendored, generated or assets and are left aside.

### What makes each part correct, and what is hard

* *Character and weapons*: exactly one weapon is in state Equipped and it is the one in
  hand; inventory, Player pointers and overlap spheres agree; no count of ammunition goes
  negative; no weapon beats or loses its fire timer; nothing is picked up twice; no handler
  dereferences null.  Hard: overlap events before or inside a BeginPlay, swaps while the
  button is down, timers of weapons put away.
* *Send queue and wire*: every message put is delivered, in order, at most once per
  incarnation of the peer; acknowledgements never go backwards.  Hard: disconnection
  between two steps of the sender, resending, a failed send, threads that wait for each
  other within one end and across both.
* *Broker*: an entity sees its messages in the order of the wire, also while it subscribes.
  Hard: the action queued for an unsubscribed entity runs among dispatch and holds the
  lock for part of its work only.
* *Replicated entities*: both ends agree once everything is delivered; a master's value
  wins.  Hard: changes that cross, and acknowledgements that are older than the change
  they meet.
* *Handshake and calls*: no message is lost or reordered around the handshake; a call is
  handled once and gets its own answer; one that returns frees the slot.  Hard: messages
  that wait are drained while others are sent; answers that come after a timeout or a new
  binding; caller, reader thread and the end of the lifetime meet at the result of a call.
* *Lifetimes*: what was opened is closed once, backwards, also when two threads and two
  lifetimes end each other.
* *Signals, properties, collections*: whoever listens hears the last value; a view keeps
  a lifetime for exactly what is there.  Hard: handlers that do to the collection what
  its user may do.
* *Plugin*: no user holds a model of a connection that is gone; settings and play state
  reach Rider; every request is answered.  Hard: three threads, and connections that end
  while the model is made.

`PROJECT.json` "hazards" lists each of these at its line.

## 2. Modules

| module | what it is |
|---|---|
| `Armory` | abstract specification of the weapon code: one wielded weapon, ready or recovering, discharges that are paid for |
| `CharacterWeapons` | Character, Weapon and Item: every callback an action |
| `CharacterWeaponsProofs` | the theorems about it |
| `ByteBufferAsyncProcessor` | the RD send queue with its two threads, three mutexes and the failures of the socket; its environment is any connection thread |
| `WireDelivery` | abstract specification of one direction of the RD wire |
| `SocketWire` | one direction of the wire: the send queue, the connections made one after the other, the receiver. EXTENDS `ByteBufferAsyncProcessor` and fixes its environment; implements `WireDelivery` |
| `SocketWireProofs` | the theorems about the queue, and on top of them those about the wire |
| `WireDuplex` | both directions of one connection over sockets of bounded size: which thread waits for which |
| `MessageBroker` | the broker with the three kinds of scheduler |
| `RdFramework` | `MessageBroker` or `WireDuplex`, with the fairness of their threads |
| `RdFrameworkProofs` | the theorems about the broker |
| `RdReactiveBase` | what replicated entities share: two ends, a FIFO wire, local and received changes |
| `RdProperty`, `RdMap`, `RdList`, `RdSet` | the four kinds of replicated entity, each EXTENDS `RdReactiveBase` |
| `RdEntities` | one of the four, or an extension (`ExtWire`), with the fairness of the wire |
| `RdEntitiesProofs` | the theorems about properties, sets, maps and lists |
| `ExtWire` | the handshake of an extension and the messages that wait for it, with any user (`AnyUserNext`) |
| `RdCall` | synchronous calls and their endpoint. EXTENDS `ExtWire` and sends its messages through it |
| `RdCallProofs` | the theorems about calls and the handshake below them |
| `Lifetimes` | the tree of lifetimes, used by several threads |
| `PropertySignals` | a local property, its two signals and its views, with re-entrant handlers |
| `ViewableCollections` | the observable list, map and set and their views, with re-entrant handlers |
| `ViewableCollectionsProofs` | the theorem about the collections |
| `RdCore` | one of `Lifetimes`, `PropertySignals`, `ViewableCollections` |
| `RdCoreProofs` | the theorems about lifetimes and local properties, and that about the collections in the composition |
| `RiderLinkModule` | the model of each connection, the modules that view it and the thread of the log |
| `RiderGameControl` | settings, play events and requests during one model |
| `RiderPlugin` | one of the two |
| `RiderPluginProofs` | the theorems about both |
| `MC...` | constants for TLC |

Modules that share no state are checked together: `RdFramework`, `RdEntities`, `RdCore`
and `RiderPlugin` choose in Init which one a behaviour exercises (`layer`, `kind`, `part`,
`focus`) and leave the other alone.  What does interact is composed for real: `SocketWire`
with the queue, `RdCall` with `ExtWire`.  Between the levels stands what the lower one was
shown to deliver: `RdReactiveBase` and `ExtWire` assume a FIFO wire that loses nothing
while the connection lasts, which is `WireDelivery`; what the broker does to that order is
`MessageBroker`'s.

The mutants that `PROJECT.json` lists are operators marked `Mutant` in the module of the
definition they replace; no specification uses them.

**What is undefined, and what is outside the promise.**  Where the code may do anything (a
data race, an iterator or pointer whose element is gone) the step sets a flag after which
nothing is claimed or nothing happens: `crashed`, `undefined`, `raced`, `corrupt`,
`broken`, and `fate` of the calls (`dangling`, `torn`).  Where the code is well-defined but a property cannot hold, a history
variable says why, at the step where it happens: `careful` (an entity used beyond what its
versions can sort out), `overtaken` and `crossed` (one message or change overtook
another), `conflict` and `nested` (the two assertions a list can fail), `Racing` (a thread
is about to set a result that it found empty).  They are kept as narrow as TLC allows:
with less of an exception the property is violated.  Read the other way round they are the
list of what the users of this library must not do.  A hazard whose property has such an
exception is caught outside of the exception only.  That is the case where the weapon without
a rate of fire, the trigger released and the release with empty hands are set apart, for what
is taken inside its own BeginPlay or ends in no slot, for the message that a failed send leaves
without a further put, for a queued action that is already undefined, for a re-entrant change
that has crossed another, for a late answer to Ready, for a play mode that was overtaken, and
for a result that two threads set.  In each of these the property says that nothing else goes
wrong, not that this does not.

### The game: `CharacterWeapons`

An action is one callback of the engine and models all of it, the callbacks Unreal makes
synchronously inside included.

| actions | code |
|---|---|
| `WeaponBeginPlay`, `WeaponBeginPlayAndTake`, `WeaponBeginPlayAndDestroy` | AWeapon::BeginPlay; the overlap that enabling the sphere may deliver at once takes the weapon, or only its ammunition |
| `TakeWeapon`, `TakeAmmoOnly` | AWeapon::OnSphereOverlap with the character |
| `OscillateCallback` | AItem::OscillateCallback, re-arming OscTimer |
| `BeginPlayUnarmed`, `BeginPlayArmed`, `BeginPlayCrash` | ACrawlingChaosCharacter::BeginPlay, SpawnActor and the BeginPlay of the default weapon inside |
| `EquipFirst`, `SwapWeapons`, `EquipFirstCrash` | SwapWeapons and EquipWeapon behind the four weapon keys |
| `PrimaryFireButtonPressed`, `PrimaryFireButtonReleased`, `PressedCrash`, `ReleasedCrash` | the fire button, OnFire and the volley in the same step |
| `AutoFireReset` | the pop of WeaponFireTimer, with the next volley of a full-auto weapon |

A pointer or a flag of a weapon is a set of weapons (`owned` are those whose Player is the
character, `canFire`, `startFiring`, `fireTimer`, `areaSphere`, ...).  A null dereference
or a failed `check` of `TMap::operator[]` is not excluded by a guard: it is an action that
sets `crashed`, after which nothing happens.

Assumed of the engine, which is not in the repository:
overlaps may be delivered while `SetItemProperties` turns the sphere on, and before the
BeginPlay of the character; SpawnActor returns null if the actor was destroyed while it
began play; `SetTimer` with a rate of zero or less clears the timer; Pressed and Released
of a button alternate (`held`); Destroy clears the timers of an actor; a trace may hit
anything, so whether it hits a movable actor that has no mesh at its root is a
constant of the level (`FragileTarget`).  `Config/DefaultInput.ini` maps Fire and leaves
the four Weapon actions unmapped: what concerns swapping needs a mapping for them.

### The wire: `ByteBufferAsyncProcessor`, `SocketWire`, `WireDelivery`

Threads are program counters (`sender` for ThreadProc, `conn` for the thread that connects,
pauses and resumes), mutexes are guards over them: `lock` is held at the points outside
`LockIsFree`, `queue_lock` while processing or reprocessing, `processing_lock` while
processing.  An action runs from one lock operation or blocking call to the next; a Send
is an action of its own and may fail.  A message is its rank among the puts, so numbers
and ranks can be compared; `puts` counts them.

| actions | code |
|---|---|
| `Put` | put, under `lock` |
| `TakeBatch`, `MayExit`, `Exit` | the loop of ThreadProc and add_data |
| `EnterProcess`, `SendFront`, `LeaveProcess` | process: the front of `queue` is sent under max_sent_seqn + 1 and moves to pending_queue only if the send succeeded |
| `Pause`, `Paused` | pause: interrupt_balance, then the wait for processing_lock |
| `Resume`, `StartReprocess`, `Resend`, `FinishResume` | resume and reprocess: acknowledged messages are popped, the rest is sent again, stopping at a failed send |
| `Acknowledge` | acknowledge, which only raises acknowledged_seqn |
| `Stop`, `CleanUp` | terminate0 before and after its wait, cleanup0 |
| `Connect`, `WireResume`, `Disconnected`, `Shutdown` | set_socket_provider at both ends, and the two constructors that call it |
| `Break`, `Cut`, `CloseSocket` | the connection breaks (external), the wire closes its socket |
| `WireSendFront`, `WireResend` | send0 called by process and reprocess |
| `ReceiveAck` | read_header for an acknowledgement |
| `ReadAndDispatch`, `ReadRepeated`, `ReadGarbled`, `SendAck`, `EndOfStream` | read_package and read_and_dispatch_message at the other end |

`SocketWire` takes the actions of the queue one by one: those that touch no socket in
`BufferStep`, the others with what they do to the connection.  `WireImplementsBuffer` is
the theorem that this is an environment the queue allows.

Assumed of the connection: TCP on one host, two FIFO pipes; when it breaks a suffix of each
is lost, each end reads what did arrive before it sees the end, and Send may succeed into a
broken connection until one fails.  Both ends run the C++ code of the tree; Rider's own end
is another implementation.  StateKind's Initialized and Terminating are not reached
in the program and left out.

Three things the code does that a reader may not expect are in the model and
in `WireDelivery`:

* `read_package` suppresses a repeated package by answering `true`, which `read` takes for
  a length of 1: a byte of the package becomes part of the next length (`stray`).  Only
  the end of the stream resets that, or, after four of them, nothing does (`Garble`).
* Number 1 is never suppressed, for the sake of a peer that restarted: everything from
  the first message on can be dispatched again (`StartOver`).
* A message whose send failed stays in `queue`, and `queue` wakes nobody: it is sent with
  the next put (`Flushes` says so much and no more).

`LaggingSender` names a scheduling assumption.  With FALSE, the sender thread does not
rest between add_data and process, where it holds no lock, from one connection to the
next.  `wire_lagging` and the theorems do without the assumption; `wire_ack_order` shows
what goes wrong without it.

### Both directions: `WireDuplex`

`SocketWire`'s pipes are unbounded.  Here the connection stays up, and what counts is room:
a socket holds `Capacity` units, a package is `PackageSize` of them, an acknowledgement or a
ping one.

| actions | code |
|---|---|
| `SendAgain`, `Resume` | reprocess on the connection thread, which reads nothing meanwhile, and the end of resume |
| `SendNext`, `SendAck`, `Ping` | the sender thread, the receiver and the heartbeat take socket_send_lock |
| `Transfer` | Send, unit by unit, blocking while there is no room; the last one releases the lock |
| `Receive` | the receiver reads; after a package it must send the acknowledgement first |
| `PutPackage` | a user puts, which resume holds up |

### The broker: `MessageBroker`

A message is its rank among those of its entity.  dispatch holds the broker's lock from
end to end and is one step; the action it queues for an entity nobody subscribed is taken
lock by lock.

| actions | code |
|---|---|
| `Keep` | dispatch: no subscription, the message is kept and an action queued on the default scheduler |
| `DispatchNow`, `KeepForCustom` | dispatch: the subscription is there; it is invoked, or kept while the queued action still has older ones for another scheduler |
| `RunDeliver`, `RunDangling` | the queued action takes the front message under the lock; its iterator may point to an element erased by an earlier one |
| `Check`, `Erase`, `Flush`, `FlushNull` | its rest: are messages kept, erase the Mq, invoke the kept ones, with the assertion on a subscription that is gone |
| `RunInvoke`, `CustomTest`, `CustomExecute` | an invocation on the default scheduler, and on a custom one: test under the lock, execute without it |
| `Bind`, `Unsubscribe`, `Unbind` | advise_on; the closings of the lifetime, subscription first |
| `Collide` | the default scheduler reads or erases while dispatch changes the same hash map |

### Replicated entities: `RdReactiveBase` and its four extensions

Both ends run this library, `Master` is the end with is_master.  A local change of a bound
copy and the messages it is sent as are one step (`LocalChange`), since handlers are told
on the thread that makes the change; receiving is another (`WireReceived`), with the
messages it answers.

| entity | changes | bind | on_wire_received |
|---|---|---|---|
| `RdProperty` | `PropertySet`: versions of the master | `PropertyBind`: advises, sends nothing of its own | `PropertyReceived`: the master rejects what is older |
| `RdMap` | `MapChange`, `MapClear`: versions and pendingForAck of the master, whose keys are pointers | `MapBind` sends what it holds | `MapReceived`, `MapAck` |
| `RdList` | `ListChange`: every operation of ViewableList but removeAll as the events it fires; `ListRemoveAll`: fails the assertion of local_change | `ListBind` | `ListReceived`, with the assertion on the version |
| `RdSet` | `SetAdd`, `SetRemove`: no version at all | `SetBind` | `SetReceived` |

### Handshake and calls: `ExtWire`, `RdCall`

| actions | code |
|---|---|
| `Advise`, `SendReady`, `Leave`, `Unsubscribe` | RdExtBase::init and the end of its lifetime |
| `ReceiveReady`, `ReceiveCounterpart`, `ReceiveDisconnected` | on_wire_received, on the reader thread; setting connected calls the listener that drains sendQ |
| `Drop`, `ReceivePayload` | the broker with nobody bound; a message for a member |
| `Send`, `SendDirect` | ExtWire::send up to the release of its lock, and the send after it |
| `DrainLock`, `DrainOne`, `DrainEnd` | the listener of connected, holding that lock until sendQ is empty |
| `StartSync`, `Refuse`, `StartTooLate` | RdCall::sync up to the loop: sent and waiting, "Already exists sync task", "Already Terminated" |
| `SyncReturns`, `SyncThrows`, `Release` | the end of the loop: result; timeout, fault, cancellation or terminated lifetime; the caller has read the result. The last two destroy the task |
| `ReceiveRequest`, `Handle`, `SkipRequest` | the endpoint, on the default scheduler of the other end |
| `ReceiveAnswer`, `TestAnswer`, `SetAnswer` | WiredRdTaskImpl::on_wire_received on the reader thread: has_value, then set_if_empty, its test and its set |
| `Terminate`, `TakeActions`, `TestCancelled`, `SetCancelled`, `Forget` | terminate of the lifetime of the binding: the flag, the actions moved out, then for each task set_if_empty(Cancelled) and the end of its subscription |
| `NewBinding`, `EndOfBinding` | what both do to the calls |

Three threads meet at a result.  The caller spins on it, and on the flag of the lifetime, and
destroys the task when it throws or has read the result.  The reader thread brings the answer,
holding the lock of the broker.  The lifetime of a binding ends on the thread of the wire when
the connection is lost, which is the reader thread itself, or on the main thread when the module
is shut down, while the reader thread still reads; the module takes the second, of which the
first is a special case.  Three things can then happen that the code does not mean, and the
module keeps them:

* *A lost outcome.*  set_if_empty is a test and a set without a lock, and `Property::set` compares
  results by their address, so that it always assigns.  If both threads have found the result
  empty, the second one replaces the first.  `CallsSettleOnce` excepts exactly the thread that is
  between its test and its set (`Racing`).
* *A task that is gone.*  Between the flag and the taking of the actions, and after it, the caller
  may see the flag, or an answer, and destroy its task; remove_action no longer finds the action,
  which then runs on it.  A task that was destroyed after a timeout keeps its subscription, so that
  its answer is dispatched to it.  Both end in `fate = "dangling"`, after which nothing happens.
* *A late fault.*  The line that logs that a late response is dropped unwraps it, which throws for
  a fault and ends the loop of the reader thread and with it the connection: `fate = "torn"`.

Assumed: a store is seen by the other threads in the order of the program; assigning a result is
one step (in the code the caller may read it half written); the map of subscriptions stays
consistent although the closing of a subscription erases from it without the broker's lock
(`MessageBroker.cpp:143`; what that can do is `Collide` of `MessageBroker`); the lifetime does not
end between the constructor of the task and the release of the lock of sendQ.

### Lifetimes, properties, collections: `RdCore`

`Lifetimes` gives each thread a stack of the calls it is in.

| actions | code |
|---|---|
| `Make`, `Attach`, `Attached`, `Refused` | the constructor of a nested lifetime: attach_nested adds one action to the parent and one to the child; either may be refused |
| `Open`, `Bracket`, `BracketRefused` | bracket: test, opening, add_action of the closing |
| `Terminate`, `Take`, `RunClose`, `RunTerminate`, `RunErase`, `Return` | terminate: the flag, the actions moved out under the lock, each run without it, last first |
| `Race` | the erase of the child's action from the parent, without the parent's lock |

`PropertySignals` and `ViewableCollections` have one thread and one stack; where the stack
shows code of the user (`UserRuns`, `ProgramRuns`) any call of the library may follow.

| actions | code |
|---|---|
| `Set`, `Assign` | Property::set: before_change, the value, change |
| `SkipDead`, `EndViewed`, `Notify`, `HandlerReturns`, `Cleanup` | SignalX::fire_impl, element by element, for both queues |
| `Advise`, `EndLifetime` | advise and view with their first call; the end of a subscription |
| `Insert`, `ReplaceWith`, `RemoveFrom`, `AddTwo`, `AddAllStep`, `RemoveThese`, `RemoveAllStep` | ViewableList: add, set, removeAt, addAll, removeAll |
| `AddKey`, `UpdateKey`, `RemoveKey`, `EraseKey` | ViewableMap and ViewableSet; what is erased after the event |
| `Clear`, `ClearStep` | clear: an event for each element there was, then all go |
| `Deliver`, `SecondHalf`, `UserReturns` | fire, and the handler of a view: an update is a removal and an addition |
| `Watch`, `Replay`, `EndWatch` | view with what the collection holds, and its end |

### The plugin: `RiderLinkModule`, `RiderGameControl`

| actions | code |
|---|---|
| `Connect`, `Disconnect`, `Unbind` | the view of connected on the wire's thread, and the closings of the connection's lifetime |
| `Create`, `Notice`, `SetAlive`, `Down` | the module's scheduler makes, binds and shows the model under ModelLock, and hides it |
| `ViewModel`, `View` | ViewModel from another module |
| `LogChunk`, `TestAlive`, `TestBound`, `SendChunk` | FireAsyncAction on the thread of the log, under the reader lock |
| `Subscribe`, `RetrieveSettings`, `InitialSync`, `Reset` | the constructor of ConnectionToRider, and the end of the model |
| `Edit`, `UpdateSettings`, `GameRetrieves`, `GameAnnounces`, `SchedulerRetrieves`, `SchedulerAnnounces` | the settings and the play mode, changed by the editor or by Rider, each with what it sends back |
| `BeginPIE`, `EndPIE`, `PausePIE`, `ResumePIE`, `SingleStepPIE` | the delegates of the editor, on the game thread |
| `RequestPlayWorldCommand`, `TryExecuteAction` | a request of Rider: told on the scheduler, executed on the game thread, answered |
| `RunSend`, `RunUnheard` | an action queued for the scheduler, with and without a model |
| `RiderHears`, `RiderChangesMode`, `RiderRequests` | Rider (external) |

playMode is not initialized by the constructor: `InitialModes` are the values it may have.

## 3. Runs

Passing runs:

| run | shows | bounds and why they suffice |
|---|---|---|
| `armed_safety` | in any order of spawns, overlaps, keys and timers: hand, states, Player pointers and spheres agree, no weapon with a rate of fire wedges, ammunition comes only from pickups | four weapons: two of the default's type, so every early return of the pickup happens before and after BeginPlay; one that bursts; one whose rate of fire is zero. `FragileTarget`, and a rifle that uses grenades, make every crash reachable. Two starting rounds against bursts of three: the count reaches zero inside a volley |
| `armed_play` | a level with a weapon of each fire mode never crashes, behaves as `Armory`, every weapon recovers, a full-auto weapon drains its ammunition | three weapons, one per fire mode, one of them with the kind of ammunition AmmoMap starts without |
| `unarmed_pickup` | without a default weapon, crashes happen with empty hands only | the same level, `DefaultWeapon = nullptr` |
| `wire_ordered` | one direction with reconnections: implements `WireDelivery`, acknowledgements increase, the receiver is clean unless an acknowledgement was lost, what failed is flushed, no deadlock among the mutexes, the thread ends after a stop | three messages and three connections: a message can be sent, resent and resent again while later ones are pending or new; numbers 1, exempt from suppression, and others both repeat |
| `wire_lagging` | with a sender thread of any speed: place and number of each message, process and reprocess exclude each other, reprocess pops no empty deque | as above |
| `framework` | the broker: order, nothing lost, what waits is executed. The two directions: threads wait for each other for ever only when both ends flood | an entity on each kind of scheduler, four messages, two bindings: kept, flushed and overtaken messages meet a new subscription. Sockets of three units, packages of two, two packages and one ping per end: volumes up to seven, so that the deadlock the property excepts is reachable |
| `replicas` | the copies of each kind of entity come together, what is pending is under way; two ends of an extension that are bound get connected and send what has waited; the wire falls silent | four changes of both ends in total, two values, two keys, lists of three: a change, its rejection or acknowledgement and a second change cross. Extensions: three bindings, so that either end can be first, leave and be bound again; one message per end, as one shows whether what waits is sent |
| `calls` | messages keep their order through the handshake, a lone end knows that it is alone, a request is handled once and its answer reaches its own call, only a call that failed keeps the slot, a result stays unless two threads found it empty | two calls, two messages per end, three bindings: a call can wait through a new binding of either end; the answer of the first meets the second |
| `core` | what was opened is closed, backwards and once; nested lifetimes end with their parents; every listener hears the last value, priority listeners first; every view mirrors its collection | three lifetimes, two threads, two openings: parent, child and grandchild ended from both sides at once. A listener and a view, two values, three sets: a set within a set within a set. Two views, two keys, three changes of up to two elements: every pair of operations nests |
| `plugin` | no view holds a model that is gone, models come into sight and go; settings and play state arrive, every request is answered | three connections, two chunks of the log: a model is made while its connection ends and the next begins. Three inputs of user and Rider; three settings (one mode cannot express, one with more clients than fit), three modes, a stray initial one |

Violating runs, each the counterexample to something the code says (`PROJECT.json`
"findings" quotes it):

| run | violated | what happens |
|---|---|---|
| `wire_ack_order` | `AcksIncrease` | the sender thread takes a message, the connection is replaced, the message is sent and then sent again by resume: acknowledge complains |
| `map_ack` | `AcksAreExpected` | the master changes a key twice before the first acknowledgement: emplace keeps the old version, the first acknowledgement takes the entry away, the second finds none and logs an error |

The bounds are guards of the actions that use them up: `MaxPuts`, `MaxConnects`,
`MaxMessages`, `MaxBinds`, `MaxPackages`, `MaxPings`, `MaxChanges`, `MaxLength`, `MaxItems`,
`MaxOpenings`, `MaxSets`, `MaxCalls`, `MaxBindings`, `MaxPayloads`, `MaxConnections`,
`MaxChunks`, `MaxInputs`.  The game needs none: pickups are finite, so ammunition is.

Deadlock is checked in `armed_play`, where the player can always press a key.  Everywhere
else the system really stops: the game may have crashed, the wire is terminated, or the
users have made all the changes their bound allows.  That nothing stops *too early* is
what the liveness properties say.

**Fairness.**
*Game:* `TimersPop`, because the timer manager ticks every frame; the player owes nothing.
*Wire:* threads run, and Send returns (weak fairness of their steps); the sender thread gets
a mutex that is free again and again (strong fairness of `TakeBatch`, `Exit`,
`EnterProcess`), which the code supports by putting blocking calls of up to half a second
between a pause and the next resume.  Of a repeated package, an acknowledgement or the end
of a stream it is assumed that a thread in `receiverProc` reads it.
*Both directions, broker:* the threads of each end (weak fairness of `Threads(s)`: no Send
is assumed to return while the socket is full, which is the question) and those of the
schedulers.  The heartbeat owes nothing.
*Entities:* both ends bind and the wire delivers; an extension goes on with a handshake and a
binding that have begun, and its reader threads read.  Nobody has to bind an extension or to
leave.  *Calls:* none; nothing is promised of a call that nobody answers.
*Core:* a thread goes on with a call on a lifetime that it has begun.
*Plugin:* the scheduler, the game thread and the log thread run, a connection that ends
runs its closings, Rider reads.  Nobody has to put, connect, break, edit, play or stop.

### Disagreements met while modelling

Beside the two findings, the models contain the following, at the lines `PROJECT.json`
"hazards" names; they are exceptions in a property, crashes or undefined steps, and what
the properties say is what is left when they are set apart.

*The game.*  The fire button released with empty hands dereferences null; the press has a
test (`ReleasedCrash`).  A pull that fires several pellets pays one round.  A swap with the
button down leaves bStartFiring set on the weapon put away.  A pickup of the default's type
before BeginPlay ends in no slot.  A weapon taken inside its own BeginPlay goes on
oscillating.

*RD.*  A key of a map that is removed while pending leaves a dangling pointer in pendingForAck.
The action the broker queues keeps an iterator that an earlier one may erase, and reads two
hash maps without the lock.  Messages for a custom scheduler overtake those the queued action
is still invoking.  A synchronous call that times out or fails never frees sync_task_id, so
that no call follows it, and leaves its subscription to a destroyed task.  A call that is
answered while its lifetime ends may be cancelled on top of its answer, or be cancelled when its
task is gone; a fault that comes after that throws on the reader thread.  removeAll of a replicated
list calls the virtual removeAt inside its own local change, so that the assertion of local_change
fails whenever it finds an element.  The erase of a
nested lifetime from its parent takes no lock.  A handler that sets a property while it is
fired, with a subscription that ended, lets the inner firing erase the element on which the
outer one stands.  A change of a list from a handler reaches later views before the change that
caused it; a change in the middle of a clear, or of what a new view is told, is told twice,
lost, or leaves a dead iterator.  Two ends that both send more than the sockets hold wait for
each other for ever.

*The plugin.*  The play mode is captured on the game thread and sent later, when it may be
old; it is uninitialized before the first retrieval; more than four clients overflow their
bits into the next field; the play state is not sent on connecting.

## 4. Proofs

`PROJECT.json` "theorems" lists the results.  The constants are arbitrary within the named
assumptions of the modules (`WeaponsAssumption`, `MaxPutsAssumption`, `SocketWireAssumption`,
`ExtWireAssumption`, `MessageBrokerAssumption`, `ControlAssumption`,
`RdReactiveBaseAssumption`, `RdMapAssumption`, `LifetimesAssumption`, ...): any set of weapons,
table and starting ammunition; any number of messages, connections, bindings, calls, entities
and inputs; any tree of lifetimes and (finite) number of threads.  What a theorem assumes
beyond that is a hypothesis in its statement.

*Game.*  `TypeOK` is inductive on its own; the part that is not obvious is that ammunition
stays a natural number, which `VolleyIsPaid` gets from the test before each volley and the
clamp in DecrementInventoryValue.  `InventoryConsistent`, of which
`EquippedIsUnique` is a part, is not inductive: that a swap makes the weapon in hand the only
Equipped one needs that the slots hold weapons of the character (`SlotsHoldOwned`), that these are carried and in their slots
(`OwnedAreCarried`), that no carried weapon can be taken again (`SphereOnlyOnMap`), that
before its BeginPlay the character has nothing in hand and its default weapon does not
exist (`EmptyHanded`), and that a weapon that has not begun play is in its first state
(`FreshWeapons`).  Their conjunction with `TypeOK` is `IInv`,
preserved action by action; taking a weapon and destroying one, which four actions share,
are lemmas.  `FireTimerArmed` is inductive next to `TypeOK`.  `NeverBackOnMap` follows
from `IInv`, step by step; `NoScrollWheelShooting` from the guards of MayFire alone.

`SafeLevelsNeverCrash` has the hypothesis `SafeLevel`: a default weapon is set, shares its
type with nothing on the map, uses ammunition the character starts with, and no trace
hits a `FragileTarget`; its invariant `SafeInv` says that nothing else takes the slot of the
default weapon before BeginPlay, and that afterwards the hand holds a carried weapon whose
ammunition is a key of AmmoMap.  `CharacterImplementsArmory` has the hypothesis `SoundTable`:
every row in use fires at least once per pull (a burst of no shots would recover without
having discharged) and no trace cuts a volley short.

`OscTimerRuns`, that an oscillating item has its timer, is inductive next to `TypeOK` and is proved
only.  `CrashOnlyEmptyHanded` has the hypothesis of its
run, no default weapon and no fragile target, and is strengthened by `PickedInv`: what is in
hand came from the inventory, and its ammunition with it.  `AmmoOnlyFromPickups` compares the
ammunition before and after each action, a volley with `VolleyIsPaid`.

*Queue.*  `BufferInv` adds to `TypeOK` and `NumberedInOrder` that only sent numbers are
acknowledged, so that dropping the acknowledged messages leaves a run of consecutive
ranks, that pauses and resumes alternate, which bounds interrupt_balance, and
`SendersTakeTurns`, without which two senders would give out a number twice.  Four lemmas
about sequences of consecutive numbers (append, tail, concatenation, dropping a prefix)
carry the data.

*Wire.*  `WireInv` is `BufferInv`, `WireTypeOK` and `UnderWay`.  The queue assumes that
its environment acknowledges only what was sent; `UnderWay` is that assumption, shown
of the pipes in both directions, and so the two support each other
(`WireStepIsBufferStep`, `WireImplementsBuffer`).

Three theorems have the hypothesis `LaggingSender = FALSE`, without which the first is false
(run `wire_ack_order`).  Their invariant `OrderInv` ties the two ends together: what a new
connection starts from (`ConnectionInv`); acknowledgements under way increase (`AcksInv`); the
packages in the pipe are consecutive, the next one to be sent continues them, and the receiver
misses none (`PipeInv`); what the receiver has read is what it acknowledges, as long as it
knows where messages begin (`ReadInv`); the last acknowledgement is for the last message, as
long as none is lost (`CleanInv`).  `WireImplementsDelivery` maps every step to a step of
`WireDelivery` or a stutter; `OrderInv` gives the guards of `WireDelivery`, that what is
dispatched is the next message, one that was dispatched before, or the first.

*Broker.*  `BrokerTypeCorrect` adds to the types that a subscribed entity has its id
(`BoundInv`).  `NothingIsLost` has the invariant `HeldInv`: a message that came since the
subscription is executed or at one of the five places where the code keeps it; its case that is
not obvious is the queued action, which erases the Mq between looking at it and invoking what
it kept.  `OrderIsKept` needs more: which scheduler each invocation waits for, and that an
entity whose kept messages are being invoked has no Mq and is subscribed (`PlaceInv`).  For
entities of the other schedulers the places stand in a line through which messages pass in
order (`LineInv`).  An entity of the default scheduler has its messages both in its Mq and in
the queue, as actions that deliver whatever is kept first; `DefaultInv` labels every queued
action with the message it will invoke, increasing, one action for each message kept.

*Handshake and calls.*  `PayloadsInOrder` and the first part of `AnswersAreTheirs` share one
invariant, `Chain`: what arrived, what is on the wire, what send has in hand or what waits in
sendQ, and what is yet to be numbered follow each other; its first conjunct, that nothing waits
while send has a message in hand, is what the code's lock is for.  It is instantiated with the
numbers of the messages (`OrderInv`) and with those of the calls (`CallInv`, continued by the
requests that wait for the scheduler of the endpoint).  `AnswerInv` says that what the handler
has given to a call is what every answer under way to it says, on the wire, in send, in sendQ and
in the hand of the reader thread, which gives the second part (`Settled` are the
answers for which it holds); with it the reader thread sets only the call whose answer it has in
hand, and `CallsSettleOnce` follows step by step.  `SlotHeldByFailure` is preserved by each step
as it stands, next to `AnswerInv`.  `LeaveIsNoticed` has `LeaveInv`: whatever an end that has left
has sent ends with a Disconnected, or its counterpart has already read one.

*Entities.*  The values of a replica and the keys of a map are finitely many
(`RdReactiveBaseAssumption`, `RdMapAssumption`): an end advertises what it holds one by one.
Each invariant says what the messages under way will make of the two copies.  For a property,
`Converging`: the master's values under way carry consecutive versions up to its own and the
last is its value; the slave's carry versions it had heard of, so that the master takes one
only if no value of its own is under way.  For a set, element by element: the messages about it
go one way (`OneWay`), the last of them tells what their sender holds (`Truthful`), and if
there are none the two agree (`Settled`).  For a map, key by key: nothing is pending, or the
master's message about it is under way, or its acknowledgement is (`Free`, `Sent`, `Acked`); in
the first and the last case the slave holds what the master will after reading what is under
way to it (`Tells`).  What is not free has its one entry in pendingForAck, which is
`PendingIsUnderWay`: no entry refuses the slave for good. Lemmas about the last message on a
key in a sequence to which one is appended, or whose head is read, carry the data.

For a list, `ListInv`: as long as no change crosses another, changes go one way at a time,
carry consecutive versions that start at the receiver's, and what is under way makes of the
receiver's list the sender's (`Half`, of each end towards the other; an end that is not bound
has sent nothing).  It holds because the events of each operation do to a list what the
operation does: `OperationReplays`, for add, set, removeAt, remove, addAll and clear, and a
list of every length; a removeAll ends the protocol.  Replaying is a fold, and several
of these operations fire an event for each of many elements, so the lemmas below are proved by induction; the library's
rule of induction takes a predicate, which no backend can instantiate, and `EveryNumber` says
the same of a set of numbers.

*Plugin.*  `SightInv` strengthens `ModelOutlivesItsViews`: among the actions queued for the
module's scheduler the end of a model stands before the making of the next (`InOrder`), and
whoever is shown a model was shown the one there is.  `EditorIsShown` is the conjunction of two
invariants.  `PlayInv`: the last play state under way to Rider is the editor's, and if none is,
Rider shows it.  `SettingsInv`: at most one of the two threads is busy with the settings and has
the mode of those there are (`BusyInv`); the last announcement under way is playMode, and when
there is none Rider shows it or has asked for what it shows (`ShownInv`).  They rest on
`PackUnpack`, that settings which came from a mode survive being packed again.

*Lifetimes.*  `LifeInv` counts: every opening is closed, leaked, between its test and its
add_action in some thread, or due (`Counted`), where what is due stands in `actions` or in the
rest of a call that runs what it moved out (`Due`).  That the two sides agree needs that a
number is held once: what was moved out belongs to one running call (`RunsOnce`), and what is
still in `actions` of a terminated lifetime is about to be moved out by the thread that set the
flag (`TakenSoon`).  Closings run backwards because each call runs the highest number it has
left and later openings of the lifetime are refused (`ClosedInv`).  The one action that is
removed without being run is the parent's, erased when its nested lifetime ends; `ErasesNested`
and `NestedAt` say that what is erased is never a closing, which is where the numbers that
attach_nested keeps matter.

*Local properties.*  `SignalsInv` says who is owed the value: a listener that has not heard the
present one stands behind the position of a firing on the stack that will still reach it, or a
set on the stack will fire (`Served`; a firing of before_change always has its set below it,
`FiredBySet`).  Under each firing of change a priority listener has heard the value or is owed
it by that firing or by one inside it (`PriorityServed`), which returns before an ordinary
listener has its turn.  Handlers may set, subscribe and end lifetimes at any point of this.
Nothing is claimed once an outer firing stands on an element that an inner one cleaned up
(`corrupt`), where the code's iterator is no longer valid.

*Collections.*  A view may be told of something while something else is under way, so that
when a call runs, what a view keeps and what the collection holds differ.  The invariant,
`ViewsInv`, says by how much; at the end, with no call left, by nothing, which is `ViewsMirror`.

For a map and a set (`KeysInv`) the difference is accounted for key by key.  What a view keeps
is there, or an update that replaces it is on its way to the view (`KeptIsThere`).  What is
there the view keeps, or an event, the second half of an update or the report to a new view
will bring it, or a call that will erase it stands on the stack (`ThereIsKept`).  What a
removal or a clear is about to drop, the view has forgotten or will be told of
(`ErasedIsTold`, `ClearedIsTold`).  That these hold through nested calls needs the shape of
the stack (`Ordered`): the event of a removal stands on top of the call that will erase; a key
has one such call at most, and nothing is added for it meanwhile; a clear has nothing inside
it but its events.  Two kinds of stack are excepted, as they end in a step that is broken, so
that nothing is claimed after it: a call below holds an iterator, or a reference, that a call
above it will make invalid (`Fatal`), or an element is on its way to the view that is gone
(`Late`).
`FatalStays` and `LateStays` are the lemmas that neither goes away by itself.

For a list (`ListsInv`) what is kept has positions, and these mean something only while one
change at a time is under way, which is what `crossed` stands for (`OneAtATime`).  Then a view
that has not heard of the event has the list as it was before it (`Before`, `ListUntold`), one
that heard half of an update has it without the element (`ListHalfTold`), a new view has the
beginning it was told of (`ListReported`), in the middle of a clear all have the beginning that
is left (`ListCleared`), and whoever is owed nothing has the list itself (`ListQuiet`).  The
steps rest on what inverts an insertion, removal or replacement in a sequence
(`RemoveUndoesInsert`, `InsertUndoesRemove`, `ReplaceUndoesReplace`, `BeginningGrows`, ...).

`CollectionsMirror` is the theorem about the collections alone, `EveryViewMirrors` the same in
`RdCore`, whose run checks the property.

*Only model-checked:* liveness, which is beyond the prover: `Recovers`, `FullAutoDrains`,
`ThreadsGoOn`, `Flushes`, `FallsSilent`, `EventuallyExecuted`, `ArrivesUnlessBothFlood`,
`NestedEnd`, `BoundGetConnected`, `ViewsFollowConnections`, `EveryRequestAnswered`.  Every
invariant and every action property that a passing run checks is also proved; the two
disagreements of section 3 are counterexamples and need no proof.

## 5. What is not modelled

Three quarters of the tree's lines are third-party libraries below `RD/thirdparty`
(formatting, logging, optional and variant types, hash tables, sockets) and code generated
for the models; the program's own is about 15,000 lines, a third of them declarations,
comments, tests and wrappers.  The map covers about 3,700 of the lines, the parts that
keep state and can go wrong in an order nobody tried.  What is left out of the program:

* *Game:* geometry, effects, sounds, HUD, animation: traces and overlaps are modelled by
  their outcome.  The projectile is one callback that destroys its actor.
* *Wire:* the bytes of a package; how a connection is made (ports, retries of connect);
  the timestamps of the heartbeat, which decide nothing but heartbeatAlive and log lines.
* *Broker:* the context id of a message; Scheduler::flush and thread assertions.
* *Entities:* what a list does after one of its assertions has failed in a build that only logs
  it; values that are themselves bound entities; RdSignal, which has no state of
  its own beside what the broker and the handshake do to its messages.
* *Calls:* asynchronous start and handlers, and cancellation, which the program does not
  use; what happens after a task that is gone was used.
* *Collections:* addAll of a set, which is add for one element after the other; properties
  that keep their value behind a pointer.
* *Plugin:* the end of the module and the file with the port; the cutting of log messages
  into lines, links and chunks, and queries of the asset registry, which are data.
* Serialization, hashing and identities are pure encodings: identities are model values.
  `InternRoot` is not used by the generated models.

Rider's own end of the protocol is another implementation; wherever two ends are
modelled, both run the code of this tree.

## 6. What is left

No invariant and no action property that the passing runs check is left without a theorem.
What would extend the development:

1. Liveness by hand: the ranking functions behind `Flushes` and `FallsSilent` as state
   functions, with a theorem that each step lowers them.
2. The implementation of `WireDelivery` without `LaggingSender = FALSE`, for a weaker abstract
   specification that allows what `wire_ack_order` shows.
3. Rider's end of the protocol, which is not in this tree.
