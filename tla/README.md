# bondybird in TLA+

Specifications, model-checking runs and machine-checked proofs about
`bondybird`, a `no_std` Bluetooth Classic host for Embassy. Paths below are
relative to the repository root.

## 1. Inventory

| Component | Source | State | Operations | Modelled in |
|---|---|---|---|---|
| HCI event task | `src/processor.rs` 93-314 | commands of the last event still to be sent | read a packet, translate an event, send its commands | `HostTasks` |
| API request task | `src/processor.rs` 316-352, `src/host/api_processor.rs`, `src/host/mod.rs` | the request in hand, the step of `initialize` | initialize, receive, lock, execute, respond | `HostTasks`, `HostState` |
| Internal command task | `src/processor.rs` 354-374, `src/host/internal_command_processor.rs` | the command in hand | receive, lock, apply or execute | `HostTasks`, `HostState` |
| Host record | `src/lib.rs` 401-481, `src/host/mod.rs` | state, discovering flag, devices, connections, link keys, ACL map | the mutations of internal commands, the effects of requests | `HostState` |
| Public API | `src/api.rs` | none: a call in progress | send a request, take a response | `HostTasks` |
| Channels, mutex, `select3` | `src/lib.rs` 65-148, `src/processor.rs` 383-397 | three bounded queues, one lock, who ran last | send, receive, lock, poll | `HostTasks` |
| HCI controller (external) | used through `bt_hci` | inquiry, pages, links, names, pairings under way | answer a command, emit an event | `HciController` |
| ACL manager | `src/acl.rs` | per-handle reassembly buffer | add, remove, process a packet | `AclManager` |
| L2CAP | `src/l2cap/` | channel table, pending requests, next identifier | connect, configure, disconnect, the signalling handlers | `L2capSignaling` |
| A2DP / AVDTP | `src/a2dp/avdtp.rs`, `profile.rs` | endpoints, streams, connections | add an endpoint, connect, remove, create, start, suspend and close a stream | `A2dpProfile` |
| SDP server | `src/sdp/server.rs`, `record.rs` | records with attributes and change count, next handle | add, amend and withdraw records, serve the three requests | `SdpServer` |
| SDP client | `src/sdp/client.rs` | pending requests, transaction id, discovery cache | search, read attributes, match responses, clean up | `SdpDiscovery` |
| Octets of the protocols | `src/acl.rs`, `l2cap/packet.rs`, `l2cap/signaling.rs`, `sdp/protocol.rs`, `sdp/attribute.rs` | the position of a parser | read and write packets, commands, messages; read attribute lists | `SignalingWire`, `SdpWire`, `Formats` |
| Addresses and classes | `src/address.rs`, `class_of_device.rs` | none | text to address and back, octets to fields | `DeviceData`, `Formats` |
| The rest | `src/a2dp/codec.rs`, `constants.rs`, the attribute filter | none | build and print structures | not modelled |

How they interact:

```
 clients --REQUEST_CHANNEL--> api task --.                    .--> controller
    ^                            |        \  exec(command)   /     (bt_hci)
    '-----RESPONSE_CHANNEL-------'         >-- host mutex --<          |
                                          /   (held across   \         | read:
 hci task --INTERNAL_COMMAND_CHANNEL--> cmd task   exec)      '        | answers
    ^                                                                  | and events
    '------------------------------------------------------------------'
```

The three tasks are joined by `select3` into one executor task. `hci` is the
only reader of the controller: it delivers the answers that `exec` waits for,
and turns every event into internal commands for `cmd`. `api` and `cmd` take the
host mutex for a whole request or command, and keep it while they wait in
`exec`. Clients share one request and one response channel.

What is hard about it: a task can be overtaken by the other two at every await;
the mutex is held across awaits; the reader of the answers can itself block on a
full channel; events arrive while a command is being executed; a client can drop
a call that is being served; capacities are small (8 entries, 4 ACL links).
`PROJECT.json` lists the hazards line by line, with the property that covers
each or the reason none does.

What makes each component correct:

* tasks and channels: mutations are applied once each, in the order of the
  events (`PipelineSpec`); tasks do not wait for each other in a circle
  (`NoCircularWait`); events and calls get through (`EventsApplied`,
  `CallsAnswered`);
* mutex and `exec`: one command outstanding, its answer to the task that waits
  for it (`ExecExclusive`); until a handler returns from its await nothing else
  changes the record it has read, so that its command stays the one this record
  calls for (`ExecUndisturbed`);
* host record: the discovering flag is the controller's inquiry
  (`DiscoveryTracked`), the maps are its links (`ConnectionsTracked`); of the state,
  `Connecting` and `Connected` are true of the controller (`StateTracked`;
  `Discovering` need not be, see section 3);
* API: a caller gets the answer to its own call (`OwnAnswer`,
  `NameOfAddressAsked`);
* ACL manager: a packet handed on is a PDU the peer sent, complete and unmixed
  (`RoutedIsSent`, resting on `BufferGenuine`); every complete PDU is handed on
  (`CompleteIsRouted`, which the code violates);
* L2CAP: both ends agree on the channels between them (`EndsAgree`), a request a
  peer holds is waited for (`AskedIsPending`), an answer reaches the channel it is
  for (`AnswersOwnChannel`), channel ids are unique (in `TypeOK`);
* A2DP: the stream table and the lists of the connections agree
  (`StreamsListed`), a call for one device leaves the streams of the others alone
  (`OneDeviceTouched`), an endpoint is in use exactly while a stream uses it
  (`InUseByStream`, which the code violates);
* SDP: a pending request is one that will be answered (`PendingIsAwaited`), by
  its own device and only once (`AnswersOwnRequest`); a cached handle does not
  come to name another service (`CachedHandlesMatch`), short of the class list of
  its own record being replaced, which the server allows and no client hears of; a combined answer keeps within
  the octets asked for and says nothing that is not in the records
  (`CombinedAnswerFits`);
* octets: what arrives whole is what was sent (`WholeIsRead`), what is cut is not
  taken for the whole (`CutIsNoticed`), and what is read was there, damaged or not
  (`WhatIsReadIsThere`); sizes computed in one file and positions advanced in
  another agree for values, and differ by one octet for attributes (`SizesAddUp`).

## 2. Modules

| Module | What it is |
|---|---|
| `HostState` | the host record and the pure part of its handlers: `Apply` for internal commands, `HciFor`, `Served`, `AnswerNow`, `AnswerAfter` for requests, which cut a handler at its one await |
| `HciController` | the environment: a controller that answers a command exactly once, reports only what was started, and puts everything on one ordered wire |
| `HostTasks` | the three tasks, channels, mutex, scheduler, clients; the properties |
| `HostPipeline` | the abstract specification: a record, a queue of mutations, requests as single steps |
| `HostRefinement` | the mapping from `HostTasks` to `HostPipeline` |
| `MCHostTasks` | instances for TLC: requests, event kinds, a start after an earlier inquiry |
| `HostTasksProofs` | proofs of type correctness, `ExecExclusive`, `ExecUndisturbed`, the refinement, and `OwnAnswer` for a lone client; and that the record follows the controller: `DiscoveryTracked`, `StateTracked`, `ConnectionsTracked` |
| `AclManager`, `MCAclManager` | reassembly and routing, with controller and peers |
| `AclManagerProofs` | proofs of its types, `BufferGenuine` and `RoutedIsSent` |
| `L2capSignaling`, `MCL2capSignaling` | the signalling processor and the channel table, with local user and peers |
| `L2capSignalingProofs` | proofs of its types, `EndsAgree`, `AskedIsPending` and `AnswersOwnChannel` |
| `A2dpProfile`, `MCA2dpProfile` | the A2DP profile and the AVDTP tables under it |
| `A2dpProfileProofs` | proofs of its types, `StreamsListed` and `OneDeviceTouched` |
| `SdpServer` | the record database and its request handlers, as operators on the state of one server |
| `SdpDiscovery`, `MCSdpDiscovery` | the client, a server on each device, the channels between them, their applications |
| `SdpDiscoveryProofs` | proofs of its types and of all four of its other properties |
| `Positions` | sets of positions in a sequence, in their order; shared by `SdpServer` and `DeviceData` |
| `Octets` | words, byte orders and bounded vectors, shared by the three modules below |
| `SignalingWire` | ACL packets, L2CAP packets and signalling commands |
| `SdpWire` | SDP messages, data elements and `AttributeListParser` |
| `DeviceData` | addresses as text, classes of devices |
| `Formats`, `MCFormats` | one value of any of these kinds: written, carried, harmed, read again |
| `FormatsProofs` | proofs of its types and of `WhatIsReadIsThere` |
| `RoundTripProofs` | proofs of its other properties: `WholeIsRead`, `CutIsNoticed`, `SizesAddUp` |
| `DataLemmas` | what the proofs about data share: positions, recursion, flattened sequences, quotients and rests |

How they compose: `HostTasks` is `HostState`, `HciController` and the channels;
`HostPipeline` is what it promises. `PipelineSpec` is also why `AclManager` can
have the controller call it directly: the commands `AddAclConnection`,
`RemoveAclConnection` and `ProcessAclData` are applied once each in the order of
the wire. `L2capSignaling` starts from complete signalling commands, which is
what `AclManager` hands on for channel 1. Nothing in the crate calls `A2dpProfile`
yet; it stands by itself. `SdpDiscovery` puts one `SdpServer` on each device.
`Formats` stacks the readers as the code does: `AclManager` hands the data of an
ACL packet to the L2CAP reader, and that its payload to the reader of commands;
so what `L2capSignaling` and `SdpDiscovery` pass about as records is what these
modules show to survive the octets.

### Correspondence with the code

An action is one await segment of a task: what runs between two points at which
it can be suspended.

* `HciRead` is an iteration of the loop of `hci_event_processor` up to the first
  send. `ExternalController::read` consumes command answers itself and hands
  them to the waiting `exec`; that is the first branch. `HciSend` is one
  iteration of the inner `for`, with the wait for room as its guard.
* `ApiBoot`, `ApiInit` are `initialize` with its four commands; an error in any
  of them ends it with `PoweredOff`, and the task goes on to serve requests.
* `ApiReceive`, `ApiLock`, `ApiExec`, `ApiRespond` are the loop of
  `api_request_processor`. A handler without a command runs in `ApiLock`
  entirely. One with a command is suspended in `exec` between `ApiLock` and
  `ApiExec`, with the mutex held: the guard lives in the match expression.
* `CmdReceive`, `CmdLock`, `CmdExec` are the loop of
  `internal_command_processor`.
* `ClientCall`, `ClientSend`, `ClientReceive` are any function of `api.rs`;
  `ClientDrop` is a caller that drops the future (a timeout, a `select`).

Scheduling. `select3` polls `hci`, `api`, `cmd` in this order, and Embassy's
channel and mutex futures do not yield when they are ready. So a task that is
polled runs until it waits for something that is not there, and then the next in
the circle that can run is polled. `Polled` states exactly this; clients and the
controller are free to act at any moment, between any two segments. A woken task
that is polled again in a later pass of `select3` is not distinguished from one
polled in the same pass.

Abstractions. A device is known or not, and named or not; a link key is the
address it belongs to; a name is only whether it is UTF-8 after the cut at 32
bytes (`copy_device_name`); local device information, RSSI and device classes
are dropped. Inquiry results carry one or two devices. Sync, ISO and unhandled
events, and read errors, change nothing in the code and have no counterpart. A
response carries the call it answers as a ghost: the code has no such field,
which is the subject of `OwnAnswer`. `Request::StopDiscovery` is handled by the
API task but no function of `api.rs` sends it (README.md:86 lists
`stop_discovery()`); the discovery run sends it all the same, as the crate's
request enum allows it. `InternalCommand::LinkKeyRequestReply` is handled and
never created; it is left out. `init_bluetooth_host` is called by
`processor::run` before the tasks start (it would refuse to run twice, so an
application that calls it first, as lib.rs:83 asks, makes `run` panic); the model
starts after it, with the record in place.

The controller is as permissive as the host may assume: it may refuse any
command, must refuse those that contradict its state, and reports completions at
any later time with success or failure. Handles are reused as soon as a link is
gone.

`AclManager`. `AddConnection` and `RemoveConnection` are the two map operations
with the controller's link; `Process` is `process_acl_packet`, with `Collect` for
`add_fragment` and the completeness check, `Route` for `process_l2cap_data`. An
octet is a pair of the PDU it was sent in and its place there, so that mixing,
loss and duplication show; only the four header octets have a value, and `U16`
reads them as the code does, including the expected length from the wrong pair.
Peers send well-formed PDUs, cut anywhere, and may give one up. Signalling
commands are not parsed here: what is handed to `process_signaling_packet` counts
as handed on. A packet is at most `MAX_ACL_DATA_SIZE` octets, as on BR/EDR
(1021). The sum `l2cap_length + 4` wraps, as in a release build. The two kinds of
first fragment are treated alike by the code, and the broadcast flag is ignored.

`L2capSignaling`. One action per call and per handler of `SignalingProcessor`.
The tables keep the order of `heapless`: removal moves the last element into the
gap, and a look-up takes the first that fits. `AclManager` at present drops the
responses that `handle_command` returns (the TODO at acl.rs:484), and nothing in
the crate calls `connect`, `configure_channel` or `disconnect`: the module models
the contract of the processor, with a user that transmits what it is given. A
peer answers a request at most once (except that a connection may first be
pending, where `Deferring` allows it), in any order, or never. Its answer and the
handler are one step; crossings remain, because what a peer is asked can lie
while its own requests are handled. `LinkLost` is `remove_connection`, which tells
the processor nothing, so the properties leave out the handles it hit (`lost`). A
request that is never
answered stays pending for good; once an identifier or a local channel id comes
round to it (`reused`), the properties claim nothing more.

`A2dpProfile`. One action per call that changes something, for any argument; a
call that fails at once is a stutter. `CreateStream` keeps the order of the code:
the endpoint is configured and a handle used up before the table is asked for
room, and the table is filled before the list. The tables are functions, since
nothing iterates over them; a handle that has wrapped around replaces a live
stream, as `insert` does, and the history `reused` records it.

`SdpServer` and `SdpDiscovery`. The crate has the client, the server and their
messages, but no code that carries one to the other; the model sends what a call
has built over a reliable, ordered channel, and answers it with the handler for it
and `from_search_result`, `from_attribute_result` or `create_error_response`. One
action per call of the client and of the applications: `Request` is the common
part of `discover_services` and `get_service_attributes` (an id is taken, the
request is built or does not fit, its entry is made or has no room), `Serve` is a
handler with the answer it gives, `ProcessResponse` is `process_response`,
`Cleanup` is `cleanup_timed_out_requests`, which times nothing out. A record is
the classes in its class list, the ids of its attributes and its change count; an
attribute list is a sequence of octets of which only the owner is kept, so that
lengths, cuts and the order of attributes are exact and their contents are left
out. An application that has a record by `get_service_record_mut` may add or replace
any attribute: `Amend` for those whose value nothing reads, `Reclassify` for
`SERVICE_CLASS_ID_LIST`, which `record_matches_uuid` reads at every search; a value
that is not a list of classes counts as the empty one. `listedAt` (of a record) and
`states` (of a search result) are histories that say which came first, a search or
the last replacement. Two simplifications: an id has one encoded size, which a
replaced value keeps, and the change count does not wrap at 2^32. Searching with attributes in one request has a handler on
the server and no call on the client: `CombinedAnswerFits` asks it in every state
of the databases. Histories say when a transaction id or a service handle has come
round to one in use, after which the properties claim nothing, and under which
requests the link was lost, which nothing tells the client. The model counts
transaction ids to 2 where the code counts to 65535.

`Formats` and the modules under it. `SignalingWire` has one reader and one writer
for all payloads: the source has one pair of each kind, which differ in the words
they begin with and in whether octets follow. `SdpWire` follows
`AttributeListParser` position by position, with the octets it passes before it
finds an element bad. Integers of several octets are kept as octets (their
conversion loses nothing), except where the code computes with them: lengths,
handles with flags, the fields of a class. `Write` is the sender; for attribute
lists and classes, which the host never writes on this path, it is the peer, as
the parser's own tests write them. `Cut`, `Padded` and `Damaged` are what may
happen to the octets at the outermost layer; every `Receive` action is one reader
with its early returns. A character of an address is a digit, a small or another
letter, a colon or anything else.

## 3. Runs

All bounds are CONSTANTs of the cfg files: `MaxEvents` events from the
controller, `MaxRequests` calls per client. When they are used up the system
stops, hence `CHECK_DEADLOCK FALSE`; real deadlock is the property
`NoCircularWait`.

| Run | Bounds | Shows |
|---|---|---|
| `discovery` | 1 device, 4 events, 2 calls, channels of 2, dropped calls | `TypeOK`, `ExecExclusive`, `DiscoveryTracked`, `ExecUndisturbed`, `PipelineSpec`, from the start of the tasks on. The command channel is smaller than the commands of two events, so that back-pressure, and even the circular wait, happens in this run |
| `connections` | 2 devices, 2 handles, 4 events, 3 calls, channels of 2 | `ExecUndisturbed`, `ConnectionsTracked`, `StateTracked`, and `OwnAnswer` for a lone client that waits for its answers. Four events are two links and their ends, or a link, its end and a new one with the same handle |
| `liveness` | 2 clients, 1 device, 3 events, channels of 8 | `CallsAnswered`, `EventsApplied` under `Fairness`, from an initialized system, with the pairing events |
| `deadlock` | channels of 8, 6 events | violates `NoCircularWait` |
| `names` | 2 clients, 2 devices | violates `NameOfAddressAsked` |
| `acl` | 2 handles, 2 peers, 2 PDUs, among them one longer than the buffer | `TypeOK`, `BufferGenuine`, `RoutedIsSent`, through fragments of every size, flushes, and handles that come back |
| `acl_complete` | the same with 1 PDU | violates `CompleteIsRouted` |
| `l2cap` | 2 links, 2 remote channel ids, tables of 2, 3 identifiers, 3 local channel ids, 6 calls, requests and losses (answers are not counted) | `TypeOK`, `EndsAgree`, `AskedIsPending`, `AnswersOwnChannel`. Both tables fill, both counters come round |
| `a2dp` | 2 devices, 2 endpoints, 2 streams, 3 handles, any calls | `TypeOK`, `StreamsListed`, `OneDeviceTouched`. No bound on the calls: the state space is finite. The endpoints and the stream table fill, handles and endpoint ids come round |
| `a2dp_endpoints` | the same | violates `InUseByStream` |
| `sdp` | 2 devices, 2 classes, tables of 2 records and 2 pending requests, a cache of 1, 3 transaction ids, 3 service handles, class lists that are empty or full, 5 calls and losses (serving and answers are not counted) | `TypeOK`, `PendingIsAwaited`, `CachedHandlesMatch`, `CombinedAnswerFits`, `AnswersOwnRequest`. The database fills (its own record is there from the start), the pending table and the cache fill, ids and handles come round; a list is cut by the count of octets asked for and by the response buffer |
| `formats` | 9 commands, 8 messages, 22 attribute lists in 3 forms of length, 2 addresses, 4 classes; every cut, every octet damaged in 7 ways | `TypeOK`, `WholeIsRead`, `CutIsNoticed`, `WhatIsReadIsThere`, `SizesAddUp`. Capacities are such that one value of each kind just fits and another does not |

Fairness (`Fairness`): the executor polls a task that has been woken
(`WF(Executor)`), the controller answers a command (`WF` of `AnswerCommand`), the
runtime of a client polls it when its channel is ready (`WF` of `ClientSend` and
`ClientReceive`). Nothing obliges a client to call or to drop a call, nor the
controller to emit an event. The liveness run keeps below the number of commands
that can block `hci`: above it, liveness is false, which is what `deadlock` shows.

Each property of a passing run has a mutant, a plausible bug in a mapped
definition that makes it fail: a send that does not wait or that drops, a guard
given up before `exec` or kept after it, a missing reset, a refused command that
still takes effect, an error path without a response.

### What the violations say

* `deadlock`: `api` waits in `exec` with the mutex; inquiry results arrive before
  the answer; `cmd` has one command in hand and waits for the mutex; eight more
  fill the channel; `hci` blocks in `send` and never reads the answer. All three
  wait for good. host/mod.rs:25 promises that "API operations don't block event
  processing".
* `names`: two clients call `get_device_name`; the one that sent second receives
  first, and returns the other's address and name as its own result.
* `acl_complete`: a PDU for a dynamic channel arrives whole in one first
  fragment. Its expected length is taken from the octets of the channel id, so it
  waits for octets that will not come; the next first fragment discards it.
* `a2dp_endpoints`: a device disconnects while it has a stream; the stream goes,
  its endpoint stays in use, and no call of the profile frees it again (short of
  another stream on it that is closed). The same property fails when
  `create_stream` finds the stream table full, and when two streams share an
  endpoint and one is closed.

### Seen while modelling, without a run of its own

In the models:

* an inquiry that completes with an error clears the flag and leaves the reported
  state at `Discovering` (processor.rs:181) with no inquiry under way, although
  lib.rs:306 documents that state as "Currently discovering devices"; `StateTracked`
  therefore speaks of pages and links only;
* `AttributeEntry::size` (attribute.rs:174) is "3 + encoded_size", for "ID (2 bytes) +
  type descriptor (1 byte) + value", but `encoded_size` has counted the descriptor
  (its test at record.rs:403 expects it), so the size is one octet more than the
  parser takes, and whoever skips attributes by it is off after the first.
  `SizesAddUp` says both: that two octets and `encoded_size` are right, and that
  this function is wrong by exactly one;
* a connection response that says pending makes the host close its channel and
  forget the request (l2cap/processor.rs:253); with `Deferring = TRUE`,
  `EndsAgree` and `AskedIsPending` fail;
* four SDP requests that are never answered stop the client (client.rs:278), and a
  search result for which the cache has no room is lost though its request counts
  as completed (client.rs:227);
* `add_service_record` uses up a handle when it fails, and the record-state
  attribute it writes is not updated by a later `add_attribute` (server.rs:94);
* `parse_message` refuses every response but an error (protocol.rs:436), does not
  read the parameters of requests (412-418), and `encode` writes only those of an
  error;
* a list of UUIDs is sliced out of bounds when the data ends inside a UUID
  (attribute.rs:335), and is accepted shorter when it ends between two;
  `CutIsNoticed` says what remains true;
* the attribute lists a server writes have a length where the parser expects a
  type, so the parser cannot read them (server.rs and attribute.rs).

Outside the models: `ConfigurationResponse` is sent with the identifier as its
channel id (l2cap/processor.rs:277; nothing transmits it yet); only the first
command of a signalling packet is processed, and its response is dropped
(acl.rs:472, 484); `ServiceClassId::to_uuid` has the base UUID 32 bits too far
left (record.rs:188); `encoded_length` of SBC capabilities is 6 and `encode` writes
7 octets (codec.rs:252, and both are in its tests).

## 4. Proofs

All for arbitrary sets of addresses, handles, clients and requests, and any
capacities that satisfy the assumptions of the modules (`HostStateAssumption`,
`ControllerAssumption`, `HostTasksAssumption`: capacities are positive, null
values are not members).

* `TypeSafe` (`HostTasksProofs`). `TypeOK` is not inductive: what a task has in
  hand may be nothing in general, and must be a call or a command where it is
  used. `IndType == TypeOK /\ Held` adds that. The proof has a lemma per action,
  resting on what `Put`, `Apply`, `Served`, `HciFor` and `ProcessHciEvent` return.
* `ExecIsExclusive` (`HostTasksProofs`). Relative to the types `ExecExclusive` is
  inductive. Its core is where the answer can be: written and unanswered, on the
  wire, or delivered. The lemmas follow it: `ExecStarts` from nowhere to written,
  `AnswerSent` to the wire, `ExecReadsAnswer` along and off it, `AnswerTaken` to
  nowhere.
* `ExecIsUndisturbed` and `TasksImplementPipeline` (`HostTasksProofs`). From
  `ExecExclusive`: while a handler is in `exec` nobody else has the mutex, and no
  step without it changes the record (`AwaitKept`, one case per action), so the
  record is the one it read; that the command out is the one this record calls for
  is `SentIsOwn`, part of the invariant `Base` that the theorems about the controller
  rest on. The refinement then goes step by step: `HciRead`
  reports, `HciSend` and `CmdReceive` move a mutation along without changing the
  sequence, `CmdLock` or `CmdExec` applies the oldest, `ApiInit` boots, `ApiExec`
  serves, everything else stutters.

* `TypeCorrect`, `BuffersAreGenuine`, `RoutedWasSent` (`AclManagerProofs`), for any
  handles, addresses, PDU shapes, buffer size and number of PDUs. The invariant
  adds to the types that a link has octets of a PDU only if it is up
  (`LinkSane`), that a connection is that of the present link of its handle
  (`ConnectionCurrent`), and `BufferGenuine`: a buffer with an expected length is
  exactly what the peer has delivered of the PDU under way, or that PDU is too
  long for any buffer and its header is in place. From the last it follows that
  `L2capPacket::from_bytes`, which checks the true length, accepts only a whole
  PDU: the wrong expected length costs PDUs, but never joins or truncates them.

* `TypeCorrect`, `TablesAgree`, `StreamsOfOthersStay` (`A2dpProfileProofs`), for any
  devices, handles, configurations and sizes. `Agreement` is `StreamsListed` with
  its count of a list replaced by `Once`, which a step can be shown to keep;
  `ListCounts` turns it back. The table of streams is asked for room and the list
  is not, and a stream that no list has would break the agreement; `ListHasRoom`
  shows that it cannot happen, because a list names only streams of the table, none
  twice, and is no smaller than the table (`A2dpAssumption`).
* `PendingAreAwaited` and `AnswersAreOwn` (`SdpDiscoveryProofs`), for any devices,
  services, tables, and number of transaction ids. `IndInv` says, besides the
  shapes of the tables, that until an id comes round a pending request is under way
  (`Awaited`), that an id is under way once only (`OnceUnderWay`), and that what is
  under way is of the device and kind of its entry (`MessagesBelong`). The second
  is what makes the third survive a new request, and the first survive an answer:
  when one message is taken off a channel, no other carries its id. What the
  servers answer plays no part, but for its id and kind (`ResponseIs`).

* `TypeCorrect`, `CacheNamesServices` and `CombinedAnswersFit` (`SdpDiscoveryProofs`).
  `TypeInv` holds the types of servers, table, cache, messages and counters.
  `CachedHandlesMatch` is not inductive: the search result it is about has first
  been on a channel, and the server has meanwhile changed. `HandlesInv` says of
  results, on the channel and in the cache, that until handles wrap every handle in
  them is below the server's next one, and a record that has it matches or was given
  its class list after the search; a new record takes the next handle, so it can
  break neither. A record only ever changes by attributes added (`AmendedFrom`), which
  count its changes up: it keeps its classes, and with them the match (`MatchedKept`),
  or its new class list is younger than any search that saw the old. `CombinedAnswerFits`
  speaks of recursive functions over a record table of any size. `Recursion` shows
  that what is built step by step exists, with a set of values in the place of an
  operator, `Induction` that a set with 0 and successors has every number up to N;
  on them rest what `FlattenSeq` computes (`FlattenIs`, `FlattenAppend`), that the
  attributes of a record fit the response (`ServiceAttributesIs`), and `CutAt`: after
  n records, either all octets are used up or there are n lists and all are whole.
* `LoneCallsReturn` (`HostTasksProofs`): a client that is alone and drops no call
  (`Lone`, as in the run `connections`) gets the answer to its own call.
  `CallInFlight` says where the one call is: on the request channel, served, or
  answered on the response channel. With two clients the code breaks it (`names`).
* `InquiryTracked`, `ActivityTracked`, `LinksTracked` (`HostTasksProofs`). The
  properties speak of quiet moments; in between, the record is behind the controller
  by the packets on the wire, the mutations that `hci` and `cmd` have in hand, and a
  request that the controller has accepted and `exec` has not returned from. `StepIs`
  reduces every step of the tasks to one of nine by what it does to these
  (`TrackedStep`), and each invariant says what the record will be once they are
  applied. `InquiryInv`: at most one end of an inquiry is under way, and the flag is
  on if and only if the controller inquires or that end is under way, but for the
  accepted request. `ActivityInv`: a state that names a page has a page outstanding
  or its outcome under way; one that names a link has a link, or its end under way
  after the state. `LinksInv`: the mutations in hand lead from the record's maps to
  maps of which one inverts the other (`Leads`), and reading the wire leads from
  those to the controller's links (`Reads`), through maps that are within the
  capacities at every step. `ConnectionsTracked` needs the hypothesis `[]FewLinks`:
  the maps drop what they have no room for, and the fifth link is in one of them
  and not in the other. The run satisfies it, with two devices and maps of two. It
  is no assumption about the code but about the peers: a controller that never
  holds more than four links. These theorems are about `Spec`; the runs that start
  after an earlier inquiry (`SpecKnown`) are checked by TLC.
* `Typed`, `BothEnds`, `PendingAsked`, `OwnChannel` (`L2capSignalingProofs`), for any
  handles, ids and table sizes; all but the first for peers that do not answer
  "pending" (`~Deferring`: the code closes the channel on that answer, and the
  properties are then false) and, as the properties themselves say, until a counter
  meets a pending request. `Undisturbed` strengthens the two invariants with what
  the requests under way say of the table: a request names a channel of its own link
  (`HandlesMatch`), a channel that is being connected is in the table, without a
  remote id, and connected once (`ConnectingAreHere`, `ConnectingOnce`), one that was
  configured or disconnected has a remote id (`RemotesAreKnown`), and link and remote
  id tell the peers' channels apart (`PeersAreKnown`). That a local id is given once
  rests on `CidAfterIs`: as many ids as the table has places, and two steps more, come
  before the first is met again.

* `ReadersTyped` and `NothingIsMadeUp` (`FormatsProofs`), for any values the host or
  a peer may send (`FormatsAssumption` says which: those that `SignalingProcessor` and
  `create_error_response` build, and attributes within the host's capacities), any
  capacities of at most 65535, any damage. They are statements about each reader,
  one lemma per reader (`AclIsThere`, `L2capIsThere`, `CommandIsThere`,
  `MessageIsThere`, `ClassIsThere`, `AddressIsThere`, `AttributeSound`), for any
  octets: the reader's result is typed and its own writer gives back what was there.
  Under them lie the two byte orders (`OctetsOfWord`, `ValueOfTwo`), the flags of an
  ACL header and the fields of a class (`Flags`, `Bits` in `DataLemmas`), words joined
  one after the other (`PairsJoin`) and an address split at its colons, where 17
  characters with at most six parts of two leave no other places for them
  (`WellFormedIs`). The invariant `IndInv` brings the lemmas to the steps: in every
  layer the data are octets (`Carried`), so what is written must be (`FramedTyped`),
  and only the class of a device is read as one (`Layered`).

* `ArrivesWhole`, `CutIsSeen`, `SizesAddUpAlways` (`RoundTripProofs`), under the same
  assumptions and one more, `ErrorsAreNoValues`: the two model values that stand for
  an error and for a panic are none of the values read, which the types of the code
  keep apart. Here the octets come from a writer, and the question is what the
  reader makes of them. `Agrees(d, p, x)` says that the data hold `x` from `p` on, or
  the beginning of it that is left before they end; the whole, the padded and the cut
  octets all agree with what was written, and differ only in their number. So there
  is one lemma per reader (`AclRead`, `L2capRead`, `CommandRead`, `MessageRead`,
  `AddressRead`, `AttributeRead`), each with two halves: if all of `x` is there, the
  reader returns what `x` was written for, the rest of the data notwithstanding; if
  not, it fails. A list of UUIDs is the exception: it may be taken shorter than it
  is, and then the parser is at the end of the data. `RoundInv` brings them to the
  steps. `Intact` says of every layer that its octets agree with those written there,
  `Answered` what became of a value that is no list. For a list `Progress` says where
  the parser stands: behind the first k attributes (`Start`) having read exactly
  them, or at one of the two ends a cut can bring it to; `AlongList` gives where an
  attribute begins, and that the list ends nowhere before its last one does. That
  `FlattenSeq` of the octets grows by those of one attribute at a time (`BeginningIs`)
  is the recursion of `DataLemmas` again. `SizesAddUp` then follows from the same
  step (`AttributeStep`) and `SizeOfAttribute`, which compares `encoded_size` with
  the octets of a peer that uses the shortest lengths. Its branch for values of 256
  octets and more is not reached: the capacities of the code are smaller, and
  `FormatsAssumption` says so.

What the provers cannot do is take a lemma about every operator, so the induction
theorems of the library are out of reach; least elements of sets of numbers
(`LeastIs`, from `WFMin`) and the two lemmas over sets above serve in their place.

Every invariant and action property of a passing run is proved, under the hypotheses
named above where there are any. Only model-checked:
the two liveness properties `EventsApplied` and `CallsAnswered` (fairness and ENABLED
are beyond the prover), and the runs that start after an earlier inquiry
(`SpecKnown`).

## 5. Plan

1. Done: the task system, its abstraction, its proofs.
2. Done: `AclManager`, its runs and its proofs.
3. Done: `L2capSignaling`, its runs and its proofs. Left: a composition with
   `AclManager` on shared handles.
4. Done: `A2dpProfile`, its runs and its proofs. Left: an abstract specification
   in which a connection owns its streams.
5. Done: SDP and the octets: `SdpServer`, `SdpDiscovery`, `Formats`, their runs
   and the proofs about discovery.
6. Done: the proofs that the record follows the controller.
7. Done: that the readers are typed and make nothing up, that what is written is
   read again, and where the attribute parser stands in a list.

## 6. Not modelled

* `a2dp/codec.rs`: structures that describe SBC; only its own tests encode or
  compare one, so no step of the system depends on it.
* `AttributeFilter` and `AttributeRange` (sdp/attribute.rs): no user in the crate.
* The names of minor classes and services and the text made of them
  (class_of_device.rs), `Display` of errors, `defmt` output: wording.
* The contents of service records (names, protocol and profile lists): carried,
  never interpreted; the model keeps their sizes.
* `examples/` and the pieces of `bt_hci` and Embassy, which appear only as the
  controller, the channels, the mutex and `select3` that `src/` uses.
