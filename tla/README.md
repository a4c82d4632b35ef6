# goxdr in TLA+

A verification of [goxdr](../src/README.md): the RPC runtime (`rpc/`), the runtime of
the generated code and the XDR compiler (`cmd/goxdr/`), and small libraries (`xdr/`,
`stat/`). The RPC runtime holds nearly all of the concurrency, so it comes first.

Line numbers refer to the files under `src/`. Operators keep the names of the code they
translate; `PROJECT.json` maps each to its lines. A definition whose comment starts with
"Faulty" is a plausible bug, kept beside the operator it would replace to show which
property notices it; nothing else uses it.

## Inventory

| Component | State | Operations | Hard part | What makes it correct |
|---|---|---|---|---|
| `CallSet` (`rpc/util.go` 86-199) | XID counter, map XID to `PendingCall`, pool of them | `NewCall`, `Delete`, `Cancel`, `CancelAll`, `GetReply`; the callback runs after the unlock | races for one call, XIDs that wrap | one callback per call at most, none lost, none to the wrong call |
| `StreamTransport` (`rpc/transport.go`) | `okay`, `err`, `Conn` | `Send`, `Receive`, `Close`, `CloseBecause` | lock-free protocol on `okay`; framing over partial reads | no race on `err`, one close, atomic behaviour; messages whole and in order |
| `Driver` (`rpc/driver.go`) | context, queues `in` and `out`, `CallSet`, pool of `Message`s, `Lock` | `SendCall`, `Go`, `Close`, `doMsg`; goroutines for sending, receiving, closing, one per message | shutdown, selects, queues at their limit, ownership of messages | each call gets one truthful answer; everything ends on shutdown |
| `RpcSrv` (`rpc/util.go` 203-293) | map of programs and versions | `Register`, `GetProc` | error replies, version ranges | the reply says what is wrong with the call |
| pools (`rpc/*pool.go`, `xdr/`) | free objects | `Get`, `Recycle`, reports | reset and sharing outside of the lock | no object with two users, none with another's contents |
| `RpcDecoder`, `ReceiveFile` (`rpc/decode.go`, `rpc/filerpc.go`) | calls by XID | decode one message | replies after their calls | a reply is decoded with its call's type |
| XDR runtime (`cmd/goxdr/header.go.in`) | a byte stream | marshal, unmarshal | bounds, padding, short input | decoding inverts encoding; bounds hold |
| compiler (`cmd/goxdr/*.go`, `parse.y`) | scanner position and waiting comment, symbol table, output | scan, parse, emit | comments between lines, default arms, constants followed as text | the tokens written, comments on the right declaration, methods that agree with it |
| `stat/` | counters | add a sample, summarize | samples that arrive between reads | the summary is consistent |
| `cmd/gorpc/` | the JSON not yet consumed | to and from JSON | two traversals that must agree | round trip |

How they interact: callers enter `Driver.SendCall`, which registers in the `CallSet`, puts a
`Message` on `out` and waits on a channel, its own context and the driver's. The sender
goroutine takes from `out` and calls `Transport.Send`; on an error it calls back into
`CallSet.Cancel`. The receiver calls `Transport.Receive` and puts on `in`; the loop of
`Go` starts a `doMsg` per message, which either completes a pending call through
`CallSet.GetReply` or runs a service routine under `Lock` and puts its reply on `out`. A
closer goroutine waits for the context, closes the transport and stops the sender. The
hazards at each of these lines are listed in `PROJECT.json`.

## Modules

| Module | Models | Role |
|---|---|---|
| `CallSet` | `rpc/util.go` 86-199, `rpc/callpool.go` | one action per locked operation, and one for the callback run later |
| `CallSetProofs` | | inductive invariant and the theorems |
| `StreamTransport` | `rpc/transport.go` 102-129 and the paths of `Send`/`Receive` through them | one action per atomic operation or access to `err`, `Conn` |
| `AtomicTransport` | the contract in `rpc/transport.go` 13-31 | abstract specification; `StreamTransport` refines it |
| `StreamTransportProofs` | | invariant, theorems, refinement |
| `RecordMarking` | the loops of `Send` and `Receive`, `rpc/transport.go` 133-200 | two ends of one byte stream |
| `RecordMarkingProofs` | | how messages are cut, invariant and theorems |
| `Driver` | `rpc/driver.go` | callers, four goroutines, handlers, peer |
| `DriverProofs` | | invariant and theorems |
| `RemoteCalls` | what `rpc/driver.go` promises of a call and of a request | abstract specification; `Driver` refines it |
| `DriverRefinement` | | refinement, step by step, and what follows from it |
| `NestedCalls` | `rpc/driver.go` 355-496, the service lock | calls made by service routines, at both ends |
| `RpcServer` | `rpc/util.go` 175-266 with `rpc/driver.go` 450-496 | one call from `GetProc` to what its caller is told, while services are registered |
| `RpcServerProofs` | | invariant and theorems |
| `XdrCodec` | `cmd/goxdr/header.go.in` 613-736 and the methods emitted by `cmd/goxdr/goxdr.go` | marshalling and unmarshalling of a value of any type |
| `XdrJson` | `cmd/gorpc/jsonxdr.go` 19-101, 109-186, 307-343 | a value of `XdrCodec` written as JSON and read back |
| `RpcTrace` | `rpc/decode.go`, `rpc/filerpc.go` 9-33 | a recorded exchange of messages and its decoder |
| `ObjectPool` | what a pool promises | abstract specification; `MessagePool` refines it |
| `MessagePool` | `xdr/arena.go`, `xdr/pool.go`, `rpc/msgpool.go`, `rpc/msg.go`, `stat/` | goroutines that take, stamp, pass on and recycle messages, and a meter |
| `MessagePoolProofs` | | invariant, theorems, refinement |
| `Lexer` | `cmd/goxdr/lex.go` | the scanner, as operators on its state |
| `UnionDecl` | `cmd/goxdr/parse.y` 75-260, `cmd/goxdr/goxdr.go` 259-284, 493-501, 640-659 | from tokens to constants, enums and unions, as operators on the parser's state |
| `UnionMethods` | `cmd/goxdr/parse.y` 183-203, `cmd/goxdr/goxdr.go` 733-993 | the arms of a union and the methods that choose among them |
| `UnionProofs` | | theorems about the methods, for any number of arms |
| `Compiler` | `cmd/goxdr/goxdr.go` 65-74, 1391-1399 | composes `Lexer` and `UnionDecl`: a file printed, scanned, parsed, compiled |
| `MC*` | | instances and symmetry sets for TLC |

`Driver` composes the rest in short form: its table is `CallSet`'s with one entry per XID
and each operation as one action (every `CallSet` operation holds its lock throughout),
with the callback of `GetReply` a step of its own; its transport is `AtomicTransport`'s
(`up` until something fails, then every operation fails). It adds what the others do not
have: the queues, the contexts, the pool and who holds which `Message`. `NestedCalls` takes two
`Driver`s, each as far as the service lock and the waiting of `SendCall` are concerned, and lets
the routines of each call the other. What `GetProc`
answers is in `RpcServer`, which in turn leaves queues and XIDs to `Driver`; that headers
and bodies arrive as they were sent is what `XdrCodec` shows of the bytes in between. The
pool that `Driver` and `CallSet` take for granted, one that never hands out an object in
use, is `ObjectPool`, which `MessagePool` implements twice. `XdrJson` EXTENDS `XdrCodec`
and adds an action to its program; `Compiler` EXTENDS `Lexer` and `UnionDecl`, which EXTENDS
`UnionMethods`. `RemoteCalls` has no queue, table, pool or goroutine: it is a driver as its
callers and its peer see it.

### State and code

* `CallSet`: `calls` is the map (`nil` for an absent key), `object` the fields of the
  `PendingCall`s, `pool` those free. `held` holds the callbacks `GetReply` returned that
  `doMsg` has not run, `fired` those that ran. `order`, `xidOf`, `serverOf`, `deleted` and
  `busy` (the XIDs that were in the table when a call was made) are
  history, used by properties and guards of the environment only: each call is made once
  and deleted by its maker only after it was made. A reply message may be stale, repeated
  or from another server.
* `StreamTransport`: `okay` and `err` are the fields; `pc` and `op` place each thread in
  `failed`, `fail` or the I/O; `entry` remembers whether the transport was down when the
  operation began.
* `RecordMarking`: `stream` holds the bytes between the two ends; `got`, `need`, `last` are
  the locals of `Receive`. A byte says which message and place it comes from, so that a
  stream that loses its framing shows.
* `Driver`: `caller[c]` is where a `SendCall` is: `send` in the select of `safeSend`,
  `wait` in its own select, `delete` between leaving that and `cs.Delete`. `handler[i]` is
  a `doMsg`: `start` before `GetMsg`, `callback` between `GetReply` and `cb`, `do` or
  `detached` in the service routine, `send` in `safeSend`. `body` and `pool` are the
  `Message` objects: a message is passed by reference and emptied by `Recycle`. A `select`
  is one action per branch, enabled when the branch is ready.
* `RemoteCalls`: `stage` is where each `SendCall` is, `mail` what has become of the message to be sent for
  a call, or in reply to a request: `none` yet, `kept` by its maker, `posted`, `sent` or `dropped`. `arrived`
  are the answers and requests read, `ended` the contexts that are over. `Driver` maps to it by `Stage`, in which a call has
  returned once it has left its select, and `Mail`, which looks for the message in `out` and with the sender
  (`Outgoing`), then among what was written (`wire`), and else asks its maker whether it still has it.
* `NestedCalls`: `caller[c]` and `routine[c]` are the two ends of a call, `lock` the field `Lock`
  of each driver, `holder` the call whose routine has it. A call made by a routine has that
  routine's call as its `Parent`.
* `RpcServer`: `srvs` is the map of maps. `header` is `rmsg`, `result` whether the caller
  will be able to unmarshal the result; `ran`, `returned` and `negotiated` are history.
  `Register` and `GetProc` are not synchronized in the code, so a program must not run them
  at once; each is one step. `Negotiate` is a caller's use of the range that comes with
  `PROG_MISMATCH`; the repository has no such caller.
* `XdrCodec`: a type is a record, a value the Go storage of it, with what vectors keep
  beyond their length and unions of an earlier arm, since unmarshalling writes into them.
  `Marshal` and `Unmarshal` are recursive on the type and return what was written or what
  is left of the input, and how the call ended: `"XdrError"` is a panic with that type,
  `"panic"` any other. The state machine around them marshals a value, lets its bytes be
  cut off or changed in one place, and unmarshals them into the same variable each time.
  Enums, ints and floats are words. Input is a `Message`, whose `Read` returns what there
  is.
* `XdrJson`: JSON is what `json.Unmarshal` makes of the text. `Get` is `jsonIn.get` and
  returns the value and the new `j.obj`. `Hidden` stands for the names that `HideFieldName`
  leaves out. `Sscan` is the `float64` of a JSON number printed with `%v` and read again.
* `RpcTrace`: `underway` and `decoded` are history, `Calls` the decoder's map, `last` what
  `Decode` returned last.
* `MessagePool`: `free` is `Arena.free` or what a `sync.Pool` holds, `at` and `msg` where
  each goroutine is and the object it has. Each field of a `Message` holds the number of
  the use in which it was written, so that what is left over shows. `meter` is the `Counter`,
  `seen` what `String` has read of it.
* `Lexer`: `pos` is how much of the file is consumed, `col`, `mid` and `block` are `colno`,
  `midline` and `blockComment`. Comments are places in the file. Keywords are one letter.
* `UnionDecl`: `names` and `map` are `newsymbols` and `SymbolMap`. What Go makes of constants is
  external (`GoValue`, `GoAccepts`); `Compiled` is a union with its labels so replaced by numbers. A
  program that Go refuses is not judged; it takes a truth value in more than one case.
* `UnionMethods`: generated methods are functions of the discriminant (`Accessible`, `Valid`,
  `ValidTag`, `BodyName`, `Recurse`, `Initialize`); what a Go `switch` selects (`GoSwitch`) and which labels
  Go takes (`GoTakesLabels`) are external.
* `Compiler`: `file` is the author's pieces, `decl` what is meant; `Scan` and `Compile` are
  the two passes. The parser really asks for tokens one by one, but nothing it does reaches
  the scanner except the text of error messages.

## Runs

| Run | Instance | Shows | Distinct states |
|---|---|---|---|
| `callset` | 3 calls, 2 servers, 3 objects, 2 XIDs | all safety properties of the table | 630 thousand |
| `transport` | 3 threads, 2 errors | safety, refinement, nobody spins for ever | 175 thousand |
| `framing` | 3 messages of 0 to 5 bytes, fragments of 2, limit 4 | delivery, limits, termination | 48 thousand |
| `driver` | 2 calls, or 1 call and 2 requests; queues of 1 | one answer per call, no entry left, service lock, ownership, replies | 331 thousand |
| `driver_live` | 1 call, 1 request, queues of 1 | shutdown, contexts, replies, with fairness; refinement of `RemoteCalls` | 106 thousand |
| `nested` | 2 ends, a call from each, both called back; locks separate, shared or none | calls return unless in a knot of locks; closing unties it, with fairness | 24 thousand |
| `rpcutil` | the pools: 2 goroutines, an arena of 1, 2 other objects, 3 uses; or dispatch: 1 call, 2 programs, versions 0, 2, 3 | refinement, own contents, nothing lost, consistent summary; truthful status, reliable ranges | 726 thousand |
| `goxdr` | the compiler: files of up to 5 pieces, unions of up to 3 arms with constants or an enum; or the codec: 5 types, bytes damaged to 0, 1 or 3 | tokens, comments, methods, initial values; round trips in XDR and JSON, one encoding per value, bounds on input, how input cut off is refused | 494 thousand |
| `driver_senderr` | as `driver_live` | violation, see Findings | |
| `trace` | 2 peers, 1 XID, 2 procedures | violation, see Findings | |
| `codec_bounds` | the codec of `goxdr` | violation, see Findings | |
| `codec_panics` | the codec of `goxdr` | violation, see Findings | |

Two runs hold two instances each, side by side: in `MCRpcUtil` and `MCGoxdr` a variable `half`
says of which of the two a behaviour is, and the variables of the other stay as they begin. The
two share nothing; their actions and properties are those of their modules.

Bounds. Two XIDs for three calls make the counter wrap and an XID be shared by calls that
are pending, deleted, and answered late; more XIDs only postpone that. Three threads let
one fail the transport, one lose the race and one enter late. Fragments of two bytes
against sizes 0, 2, 3, 4, 5 give an empty message, one exact fragment, a spill of one
byte, two exact fragments at the limit and one byte over it. Queues of one message are full
or empty at every step, which is where `select` matters. The number of `Message`s in each
`Driver` run is one more than the calls and requests can hold at once, so that, like the
real pool, it never runs out. `TrafficBound` of `MCDriver`, the constraint of `driver`, bounds
the traffic rather than the sets: two calls compete for the table, the queues and the connection, or one
call does with two requests, which is what a shared lock and XIDs that collide take. With both requests
the context of the call does not end, which one request covers. All of it
at once exceeds five minutes. `lastXid` of `Driver` does not wrap: `CallSet` covers that.
Two calls that are called
back are enough for routines to wait for one another's locks, and one with a shared lock.
One call is enough for
dispatch: calls share only `srvs`, which `Register` changes at any time; the versions leave a
gap at 1 and include 0, the initial value of `High`. The types of the codec are a union with
arms of one Go type and different bounds and without an arm for some tags, a vector of
unions, a struct with padding and a union with a default arm, an array of pointers, and a
union whose arm is a struct that JSON hides; their values are empty, at the bound and over it. They are reached through every value and
every damaged input before, so that the variable holds stale elements, arms and targets.
One object in the arena is missed, and shared, by two goroutines; the third use finds what
the first two left. The pieces of a file are tokens with and without a
successor on their line, the two blanks, the end of a line, a line and a block comment, one
over two lines, one never closed, and a `%` line: five of them hold a comment with a line
before and after it. Three arms of one label, or one and two arms of up to two, put the default
in each place, twice, and next to labels that are equal, zero, negative, hexadecimal, or constants
of constants, in a loop too; two arms of a truth value stand for the same one, too.
Deadlock is checked in the `Driver` runs (a driver that has stopped may stay so, the
disjunct `Stopped`) and in `rpcutil`; in the others the environment
is bounded and may come to an end.

### Fairness

* `StreamTransport`: each thread is scheduled; I/O on a closed `Conn` returns, as `net.Conn`
  promises. I/O on an open one may block for ever.
* `RecordMarking`: a `Read` returns when there are bytes or the connection has ended.
* `Driver`: each goroutine is scheduled and a `select` with a branch that stays ready is
  left in the end; service routines return; `Go` is called; I/O on a failed transport
  returns. Nothing is assumed of a `Send` or `Receive` while the connection is up, nor of the
  peer, nor that any context ends.
* `NestedCalls`: as in `Driver`, and a connection with both ends open delivers; that a routine waits
  for no call is part of the guard of its return. A lock that is free stays free until one of those
  who wait takes it, and each waits once.

## Findings

* `driver_senderr`. `SendChan` reports a failed message by XID (`rpc/driver.go` 144-149) and
  the driver cancels the pending call of that XID (301-303). If the message was a reply,
  the XID is the peer's, and since each side counts from 1 it may be that of a call of our
  own that was sent properly. That call is told `SEND_ERR`, "Transport-level error when
  sending call" (`rpc/util.go` 27), though the peer may have executed it.
* `trace`. `RpcDecoder` promises that reply types "are taken from a cache based on the
  calls" (`rpc/decode.go` 21-26), but nothing stores a call in `Calls`. A reply is therefore
  never found, and goes on to `Cbody()`, which panics for a reply (48).
* `codec_bounds`. The README (line 34) says that the bounds of strings and opaques "are strictly
  enforced by generated marshaling functions", and `goxdr.1.md` (38-40) that "length limits are enforced
  during both marshaling and unmarshaling". On the way out only vectors are checked
  (`cmd/goxdr/goxdr.go` 332): `XdrOut` writes a string or `opaque<>` of any length
  (`cmd/goxdr/header.go.in` 650-657), and the reader refuses it.
* `codec_panics`. `goxdr.1.md` (386-387) promises an `XdrError` for invalid input, and `rpc/util.go`
  (68-69) that `GetMsg` returns "an error instead of throwing an exception". Input that ends inside a
  word or padding ends in a nil dereference (`cmd/goxdr/header.go.in` 691-695), and inside a
  fixed opaque in the error of `io.ReadFull` (728-730); `safeMarshal` passes both on (`rpc/util.go` 38-51).

### Observed

What the models had to reproduce, that a reader may not expect. The properties are stated
so that they hold of the code as it is.

* `Receive` reads a fragment header with a single `Conn.Read` (`rpc/transport.go` 173) and fails
  the transport when it returns fewer than four bytes, as a stream socket may
  (`ReadPartHeader`). `MessagesArrive` therefore allows that `Receive` fails.
* How input that is cut off is refused depends on where it ends: by an `XdrError` inside a string and
  just before a word or padding, by another panic everywhere else. `CutOffRefused` says which,
  and that it is never accepted.
* An argument that cannot be written makes `Serialize` panic in `SendCall` (`rpc/driver.go` 364), which leaves the
  table entry and the `Message` behind. `NoOrphanEntry` and `MessageOwnership` exempt callers that panicked,
  and so say that nothing else leaks. A message that `safeSend` puts on the queue of a closed
  driver (332) stays there; the queue counts as its owner.
* The scanner never returns from a comment that is not closed (`cmd/goxdr/lex.go` 253;
  `TokensAsWritten` says that this is the only case), reports a
  bad character for blanks or a block comment at the end of a file without a newline (123-130: `IndexFunc`
  finds nothing) and for a line comment after a block comment at the start of a line
  (238-276), and takes a sign without a digit for the end of the file (355-371).
* A union whose default arm is not the last makes the parser index out of range
  (`cmd/goxdr/parse.y` 197-199); `CompilesAsMeant` says that no other declaration does.
* In a union over `bool` the same truth value may stand in the cases of two arms: `goxdr` looks for no
  duplicates, its `_XdrTags` has calls for keys (`cmd/goxdr/goxdr.go` 783-788), and Go refuses equal cases of
  a switch for numbers but not for truth values. The switches over all arms then take the
  first (886-963), while the accessors, each with a switch of its own (807-860), return the other too, which is not
  marshalled. `CompilesAsMeant` and `MethodsAlwaysAgree` say that the methods disagree just then.
* With `-lax-discriminants` a union without a label for zero gets an `XdrInitialize` that Go may refuse.
* JSON: a number of 32 bits from a million on is read back as its first digits (`cmd/gorpc/jsonxdr.go` 19-25:
  `float64` with `%v`); a pointer that is present as the element of an array takes two elements
  (27-41); `%q` writes control characters in a way that is not JSON, and the error of
  `json.Unmarshal` is ignored. `Carried` excludes the three.
* `ReceiveFile` returns no error whatever it could not read (`rpc/filerpc.go` 19-21).
* `Arena` counts only the hits in `numGet`, `Pool` all (`xdr/arena.go` 32-52, `xdr/pool.go` 34-37). A
  `Counter` leaves the first sample out of the average.

## Proofs

All theorems hold for any values of the constants that satisfy the named assumptions of
the modules (`CallSetAssumption`: at least one XID, `nil` is none of the other values;
`TransportAssumption`: `nil` is not an error;
`PoolAssumption`: the arena is finite and the heap's objects are none of its own;
`RecordMarkingAssumption`: fragments hold at least a byte, and lengths are numbers;
`DriverAssumption`: queues hold at least one message, calls and requests are different things,
and there are as many XIDs as calls, since `lastXid` of `Driver` does not wrap).

`CallSetProofs`. The invariant `IInv` is `TypeOK`, the ownership of objects, the match
between table and history, at most one callback per call, no call lost, and that every
completion, held or run, matches its call. Ownership is needed for nearly all of the rest:
only because no object is in two entries does removing an entry, which resets its object,
leave the other entries alone; `TableEntriesMatch` then says whose callback an entry
carries, and `CallbackAtMostOnce` that it has not run. `ReplyMatchesCall` speaks of the
callbacks that ran; `CompletionsMatch` extends it to those still held. `CompletesInv` is the
common part of `Cancel`, `CancelAll` and `GetReply`. `XidsReusedLast` needs a second invariant, `XidInv`.
The search goes round the XIDs; `Covered(c)` are those given to calls made
after `c` and those that were in the table when `c` was made. `SearchInv` says that
from the XID of `c` to `lastXid` all are covered, or that all are, and `PassedInv` that
the entries of the table that the search passes over are that of `c` or at covered XIDs; so it cannot come round
to the XID of `c` before all others are (`SearchStep`). That is why the property speaks of `busy`: an XID passed
over because it was in use may be free again by the time that of `c` comes back, and nobody
has been given it since.

`StreamTransportProofs`. `OkayInv` says that a thread is in the failing section exactly when
`okay = -1`, and only one is; `ConnInv` and `ErrInv` tie `closes`, `connOpen` and `err` to
where it is. From these follow the absence of a race on `err`, the single close, and the
refinement: the compare-and-swap is the step at which the atomic transport goes down
(`Down` is then the winner's argument, before it is stored in `err`), and every other
step either starts or ends an operation or changes nothing abstract. `RInv` adds that an
operation that began when the transport was down can only take the path that reads `err`.

`RpcServerProofs`. The properties speak of calls that are done; `Progress` says for every phase
how far the procedure has come. For `NegotiationSettles` the invariant has to follow a range
from the moment it is reported: both ends are registered (`RangeHolds`) and stay so, since
`Register` removes nothing (`RegisterInv`), so that a repeated call meets its version
(`Settled`).

`MessagePoolProofs`. `PoolInv` has three parts beside the types. `Owned`: an object is with one
goroutine, or once in `free`. `Contents`: what a goroutine has is of its present use
(`Current`), and blank from the reset until it is taken again; this is why the reset may
run before the lock is taken, as nobody else has the object. `Complete`: each object of the arena is in
one of these places. `TakeStep`, `WriteStep`, `MoveStep` and `LeaveStep` are what the operations
have in common. `ContentsAreOwn`, `ArenaLosesNothing` and the refinement follow; every
step but `Get`, `Pass` and the two ends of `Recycle` changes nothing abstract. That an arena
starts complete needs `Cardinality`: a sequence as long as the set it covers has no element
twice. `MeterInv` says that the range of a meter only grows, so that an average read
earlier lies in a range read later; in the other order it need not (`RangeFirst`).

`RecordMarkingProofs`. `Receive` knows only counts of bytes, so the invariant gives every byte on the
stream a label, its message and its place in that message's encoding (`StreamInv`). The
labels begin at the place the receiver is about to read, run on without a gap, and end at the end of the
last message unless a `Send` has failed, when nothing more is written. `Encoding` says in
closed form which byte is at which place; `FragmentsFit` and `FragmentBytes` say that
the last fragment ends it and that behind each other one stands the next header, which is what a
`Receive` that takes any number of bytes at a time needs (`Drop`, `Advance`). Hence `DeliveredIntact`.
`RefusesOnlyTooLong` follows because what has been counted of a message when it is refused is a part of
it (`SizeInv`), and `MemoryBounded` because the limit is compared before the bytes are read.

`DriverProofs`. Three things are tied together in `IInv`. Answers: the answer due to a waiting call is in
exactly one place, its table entry, the `doMsg` about to call back, or its channel
(`AnswerInv`, over `TableInv` and `XidInv`), and what is in the channel is already as true as
`ResultTruthful` wants it of what is returned, since that can only become truer (`TruthInv`); `OneAnswer`,
`ResultTruthful` and `NoOrphanEntry` follow. Messages: what a `Message` holds tells in whose hands it can
be. One with the call `c` is `c`'s own until `c` has handed it to `out` (`CallerInv`, `OutInv`); one with
a request is on its way in until a handler has it, who then is the only one for that request
(`InInv`, `HandlerInv`, `WireInv`). So no two places can have the same message (`Apart`, `OnePlace`), and what is in none
and not in the pool is one per call that panicked in `SendCall` (`LostInv`): together `MessageOwnership`.
Handlers: who has the service lock is the only routine inside (`OneRoutineAtATime`), and a request that
has been handled has its reply queued, being sent or sent while the transport is up (`RequestAnswered`);
both are inductive beside the rest.

`DriverRefinement`. A `Driver` is seen to `Post` a message when `safeSend` puts it on `out`, to `Transmit` it when
`Transport.Send` succeeds, to `Answer` or `Request` when `Receive` returns, to `Return` when `SendCall` leaves its
select, and to `Refuse` when a handler ends without a reply. Starting a goroutine, moving a message between a queue and its
reader, `GetReply`, `Cancel`, the service routines and the end of a goroutine change nothing that a caller or the
peer sees. `RInv` adds to `IInv` what the mapping cannot do without: that no two messages in `Outgoing` are for the same call or
request, and none there has been written before (`SentOnce`), without which a message sent would have two
places; that the peer answers what it was sent (`AnswersSent`); and that the loop of `Go` ends only when
told to (`LoopStopped`). `MailPlaced` derives from `IInv` where the message of each call and request can be;
`TrafficKept`, `Unseen` and `QuietSteps` deal with the steps that leave it there, and there is a lemma for each
of the others (`StepPromise`). `PromiseHonoured` follows from `RInv`, `SettledForGood` from the refinement, as a step of
`RemoteCalls` has few ways to change `mail`. That what a call is told is true
(`ResultTruthful`) is part of the refinement, as the guard `Entitled` of `Return`, and a theorem about the driver's own variables too
(`ResultsAreTruthful`).

`UnionProofs`. The accessors, `XdrValid`, `XdrValidTags`, `XdrUnionBody`, `XdrUnionBodyName` and `XdrRecurse` are emitted by
eight loops over the arms, each of which treats the default in its own way. All but the accessors agree because
only the last arm is the default and the union knows it (`WellBuilt`, kept by `AddFieldBuilds`),
so that a union without default has no label outside of its switch (`ValidMeansSelected`), and because
`GoSwitch` picks the first arm that is declared for a discriminant (`SelectedArm`). The accessors of the arms
after it (`Shadowed`) answer too; there are none when no label is repeated (`NoneShadowed`), which
Go sees to for numbers but not for truth values (`GoTakesLabels`). That there is a first arm with a given
label is part of the invariant (`HasFirst`). `Parsing` is the parser as a behaviour that reads one arm after another; with it the
induction over the arms is that of an invariant (`MethodsFollowParsing`). `FreshUnionValid` takes for granted that the compiler
calls no label zero that is not, which depends on a recursive search through names and is what `InitializedValid` checks.

Model-checked only: liveness (`EveryoneReturns`, `MessagesArrive`, the three of
`driver_live`, `CallbacksReturn`), since neither fairness nor `ENABLED` can be reasoned about with
the provers used; and `XdrCodec`, `XdrJson`, `RpcTrace`, `Lexer` and the rest of `Compiler`, where what matters is
computed by recursive operators and would take induction over types, values or the text of a file.

## Not modelled

Logging and the text of messages; the context values that carry the peer's name; `NewCall` with all 2^32 XIDs in use (it never returns); a
panic while serializing a result (it ends the process). Of the compiler: programs, structs and
typedefs, the names made up for inline types, `-scoped-enums`, imports, and the text that is emitted, all
of them sequential and without state beyond the output. Of the runtime of generated code:
printing and scanning (`XdrPrint`, `XdrScan`). Of `gorpc`: `AnyToJson` and its command line. Generated code, tests and
build files are not subjects.

## Plan

Done: the table, the transport, framing, the driver, dispatch, the codec with JSON, the pools
with the meter, recorded exchanges, the scanner, and unions from declaration to use. Proved:
the safety of the table, the transport, framing, the driver, dispatch and the pools; that transport, pools
and driver implement their abstract specifications; when the methods of a union agree.

1. Names of inline types and of enum tags (`cmd/goxdr/goxdr.go` 110-160, 1260-1308),
   against clashes.
2. That the table inside `Driver` implements `CallSet`. The two have the same actions, but the
   history that `CallSet` keeps of XIDs in use would have to be added to `Driver`.
