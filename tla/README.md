# Verification of temporal-determinizer

temporal-determinizer runs a Temporal workflow written as an ordinary Go program. It
compiles the program to SSA form and *interprets* it inside the worker process
(`src/interpreter`), so that calls into the runtime can be replaced by their
deterministic counterparts; a small package the program is written against
(`src/workflow`) joins Go contexts with the workflow's own. The interpreter is the one of
`golang.org/x/tools/go/ssa/interp` with changes between the comments `TEMPORAL_BEGIN` and
`TEMPORAL_END`.

This directory holds TLA+ modules translated from that code, TLC configurations that
check them on small instances, and proofs that TLAPS checks for every instance.
`PROJECT.json` is the index: it maps every definition to source lines, lists the runs,
the mutants, the hazards and the findings.

Contents: 1 inventory, 2 modules and how they correspond to the code, 3 runs, bounds and
fairness, 4 mutants, 5 findings, 6 proofs, 7 what is not modelled, 8 plan.

## 1. Inventory

| Component | Source | State it keeps | Operations |
|---|---|---|---|
| Activation records, defer, panic, recover | `interp.go` | a host stack of `frame`s: `defers`, `panicking`, `panic`, `caller` | `callSSA`, `runFrame`, `runDefers`, `runDefer`, `doRecover`, `Interpret` |
| Hash map and iterator | `map.go`, `value.go` | `hashmap.table` (buckets of linked entries), `length`; `hashmapIter.cur` | `makeMap`, `insert`, `delete`, `lookup`, `len`, range |
| Values | `value.go`, `ops.go` | boxed values; the process-wide memo table of `hashType` and its lock | `equals`, `eqnil`, `hash`, `usesBuiltinMap`, `zero`, `typeAssert` |
| Memory | `value.go`, `interp.go`, `ops.go` | slots (`*value`), aggregates as host slices of slots | `load`, `store`, Alloc, FieldAddr, IndexAddr, MakeSlice, Slice, `append`, `copy` |
| Arithmetic | `ops.go` | the registers of a frame | `binop`, `unop`, `conv`, `asInt`, `asUint64` |
| Workflow execution | `temporal.go`, `build.go` | `completed`, the interpreter's goroutine count, `entireWorkflowDoneCh` | `BuildFunc`'s function, `InterpretWorkflow`, its panic handler |
| Joined contexts | `workflow/context.go` | `goContextDoneErr` and its mutex, a cancelable child context | `withGoContext`, its watcher goroutine, `Err` |
| Goroutines, channels, select | `interp.go`, `ops.go` | host goroutines, host channels of boxed values; the list of cases and the result tuple of a select | Go, Send, receive, `close`, Select |
| Blocks, jumps, phi nodes | `interp.go` | `frame.env`, `block`, `prevBlock` | Phi, Jump, If, Return |
| Emulated reflect | `reflect.go` | `reflect.Value`s (a type and a boxed value), opaque `reflect.Type`s; the program's variables behind them | the tables `reflect.*` and `(reflect.Value).*`, `(reflect.rtype).*` |
| External functions | `external.go` | a table of replacements | forwards to the host |
| Symbol reflection | `internal/dynreflect` | the types of the host's binary; the host's stack | `ReflectType`, `findReflectType`, package and function lookup |
| Program building | `build.go` | an SSA program | `Prebuild`, `BuildFunc`'s checks |
| Workflow API | `workflow/workflow.go` | none | forwards to the SDK |

How they interact:

- `BuildFunc` makes a dynamic function; the SDK calls it to start an
  execution, and it calls `InterpretWorkflow`. That sets up an `interpreter`
  value with the program's globals, calls the program's `init` and the workflow function
  through `callSSA`, and answers with the result or a `WorkflowPanicError`.
- `callSSA` runs target code *on the host's stack*, so a target panic is a host panic. Two
  kinds of host-deferred functions (in `runFrame` and in `runDefer`) catch it and turn it
  into the state of a `frame`; the handler of `InterpretWorkflow` is the last.
- Instructions work on boxed values in slots (`Memory`, `Values`, `Arith`); map
  instructions use the host's map or the interpreter's own by `usesBuiltinMap` of the
  key type (`Values`), and the interpreter's own map calls `hash` and `equals` (`HashMap`).
- An interpreted goroutine is a host goroutine that calls `call`. It shares slots with
  the others, without a lock, and outlives the execution that started it. Goroutines
  communicate over host channels: the host decides who waits and what is delivered, the
  interpreter builds the cases and turns the answer into the register that the program reads.
- `runFrame` works through the blocks of a frame; calls and panics come between two
  instructions (`Frames`), jumps and phi nodes between two blocks (`Blocks`).
- The program's calls of package reflect end in functions of `reflect.go`, on the same boxed
  values and slots as its own instructions; what a program imports from the host
  is found by `symreflect`, which turns a type of the program into a type of the host.
- All interpreters of a worker process share the memo table of `hashType` and its lock.
- The workflow package, itself interpreted, starts one watcher goroutine per joined context; the
  watchers wait for the Go context to fail or for `entireWorkflowDoneCh`, which `InterpretWorkflow`
  means to close at the end and does not (finding 4).

What is hard, and which part it is hard in:

- *panics raised while others are propagating* (Frames): three nested handlers, a list of
  deferred calls that is walked twice, `recover` acting two frames away;
- *a loop body that changes the map it ranges over* (HashMap): the iterator keeps a pointer
  into a list, and a host iterator over a table that grows;
- *aggregates as host slices* (Memory): a copy forgotten anywhere makes two variables one;
- *threads* (GoContext, whose mutex excludes nobody under the interpreter; the lock of `hashType` in
  Values; goroutines in WorkflowRun);
- *three numberings of the cases of a select* (Channels): the program's states, the host's
  cases, shifted by a default, and the places of the received values in the tuple;
- *doing one by one what is meant to happen at once* (Blocks): phi nodes that name each other;
- *a Value without its variable* (Reflect): some calls give the variable's slots, others a
  copy, and every call takes on trust the type that the one before wrote down;
- *a walk over a type that may contain itself, and a table in which types share names* (SymReflect);
- *what comes after the last guard* (WorkflowRun): the handler and the `completed` flag;
- *what goes on when the execution has ended* (WorkflowContexts): the watchers.

The full list, each at its line, is in `PROJECT.json` under `hazards`, with the properties
that would catch it.

What makes each component correct, in one sentence:

- Frames: deferred calls run once, latest first, however a function is left; a panic ends
  by a `recover`, by a younger panic or by ending the program, and in no other way.
- HashMap: to the program it is Go's map, also under a range.
- Memory: to the program a slot is a Go variable; only pointers and slices alias.
- Values: equality is Go's, hashing is a function of the equality class, a hash ends.
- Arith: every operation has Go's result at every width and signedness.
- WorkflowRun: every execution ends in an answer to its caller, with the right reason.
- GoContext and WorkflowContexts: `Err` and `Done` of a joined context tell the same story as far as no
  lock is needed for it, a cancellation arrives, and a watcher whose Go context failed ends.
- Channels: what a statement tells the program is what the host's channel did, so that
  messages are neither lost nor repeated nor overtaken, and a closed channel holds nobody.
- Blocks: a phi node defines the value its edge had when the block was entered.
- Reflect: a boxed value fits the type beside it, a call that package reflect allows answers,
  and what it shows is what the variable holds, each but for deviations that are named.
- SymReflect: the host's type looks as the emulated one does, or another type had its name, or there
  is a reason to fail.

## 2. Modules

| Module | Models | Abstract specification it implements |
|---|---|---|
| `Frames` | activation records, defer, panic, recover, `Interpret` | `PanicLedger` |
| `HashMap` | `map.go`, `hashmapIter` | `GoMap` |
| `Memory` | slots, aggregates, slices | `GoMemory` |
| `Values` | equality, hashing, zero values, type assertions, `hashType`'s lock | (reference operators in the module) |
| `Arith` | integer operations and conversions | (reference operators in the module) |
| `WorkflowRun` | one execution, its handler, its goroutines | - |
| `GoContext` | joined contexts and their watchers | - |
| `WorkflowContexts` | an execution and the contexts its program joins: `WorkflowRun` and `GoContext` together | (both of them: `CompositionIsBoth`) |
| `Channels` | goroutines, channels, select | (the host's channels, in the module) |
| `Blocks` | blocks, jumps and phi nodes of one frame | - |
| `ReflectTypes` | the types of the program, as the next two see them | - |
| `Reflect` | the emulated package reflect | (a history of Go's Value, in the module) |
| `SymReflect` | `findReflectType` | (the type the emulation shows) |
| `FramesProofs`, `HashMapProofs`, `MemoryProofs`, `ChannelsProofs`, `BlocksProofs` | theorems about the module of the name | - |
| `WorkflowProofs` | theorems about `WorkflowRun`, `GoContext` and `WorkflowContexts` | - |
| `DataProofs` | theorems about `Values` and `Arith` | - |
| `ReflectProofs` | theorems about `Reflect` and `SymReflect` | - |
| `MC...` | instances for TLC | - |

A definition marked *Mutant* in a module is not part of the specification; see section 4.
A variable or record field marked *(history)* is not in the code: it records what a
property speaks of, and no guard reads it.

### Frames

`stack` is the chain of `frame.caller` from the outermost frame. A frame's `pc` is where
the *host* is in it: in `"body"` in the loop of `runFrame`, in `"returning"` in the
`runDefers` that the RunDefers instruction makes, in `"unwinding"` in the one that
`runFrame`'s deferred function makes. `flight` is the host panic on its way up.
`UnwindBody` is `runFrame`'s deferred function, `UnwindDefer` is `runDefer`'s, `PanicAgain`
is the `panic(fr.panic)` at the end of `runDefers` when it is `runFrame` of the *same* frame
that catches it, which then walks `fr.defers` once more; that this second walk finds the list
empty is one of the points of the module. `Recover` and `RunDeferRecover` are `doRecover`
called in the body and by `defer recover()`: `doRecover` clears the panic first and looks
at its type afterwards, so an `exitPanic` is replaced by a string panic. The target program
is arbitrary; instructions that cannot panic or call are no steps. Host panics are
numbered in the order they are raised, which is what the properties need to tell them apart.

`disableRecover` is chosen initially and stands for the mode of that name.

### HashMap

`entry` is the sequence of allocated `entry` structures; a list is a chain of `next`
indices. New entries go to the front. `Delete` of the last entry of a bucket leaves the key in
the table with a nil list, as `map.go` does. `due` and `visited` model the *host's* iteration
over `table`, of which the Go language says only that a bucket present throughout is
visited once and one that is added or removed may or may not be: `NextBucket` chooses any
bucket not yet visited. `BeginRange` is the Range instruction; `NextInBucket` and `NextBucket` are the call of `next`. Keys are written values; `Eq` and `HashOf` are related
by the ASSUME that `hash`'s comment states. That `value.go`'s own `hash` and `equals` are
so related is checked in `Values`.

### Memory

A type is the set of the paths of its parts; a boxed value is a scalar, the host's nil, or
an aggregate, a sequence of cells of `heap`. `Load` copies an aggregate slot by slot, as
`load` does, `Store` writes into the slots that are there, as `store` does. A slice
variable is a length and a window of cells. `Moved` is the host's `append` or `copy` of the
boxed elements: memory-safe for scalars, and a move *by reference* for aggregates.

The host's `append` leaves spare slots that hold its nil and not a zero value. The program can
reslice into them; `SliceSlice` has no guard against it, as the code has none. `exposed` (history) says that a slice was
made to reach one. From then on the variables hold what no Go program can see (a load from such a slot
panics, or gives a nil where a number should be), and the refinement claims nothing of the steps that follow.
`NoSharing` and `PointersStay` hold on.

### Values

Values of a static type, over a universe of scalars, named types, interfaces, arrays and
structs. `Nested` gives the values of a type that are nested to a given depth; `MaxDepth` bounds it, and
what the code does recursively is a recursive function over the values of that depth
(`Comparison` for `equals`, `HashOf` and `StepsOf` for `hash`). The reference, `GoCompare`, does not use them
nor what they leave out: `Atoms` lays a value out as the sequence of *all* its scalars and dynamic types,
with a mark on those in embedded fields, and Go's answer is told by the first place where two such sequences
differ (`Verdict`), where an interface may also hold a type that Go does not compare (`CanCompare`). In three cases
the code answers otherwise, which `DecidedOtherwise` names one by one: an embedded field decides, two interfaces
hold a struct or array of a type that cannot be compared, a nil func is to the left of a closure.
Blank fields, rtypes and tuples are left out. A hash is broken into the calls of `hashType` it
makes (`StepsOf`): each takes the process-wide lock, calls the hasher of `x/tools`, and releases it, and the call
panics with the lock held when the type is the nil of a nil interface. Several threads
hash at once; the operations that share nothing with another thread are taken while no hash is under way.

### Arith

One register and one instruction at a time. Integers are their mathematical values within the
range of their type, operations wrap them at the width, and an instruction that panics
in Go does so. `Widen` is the conversion through int64 or uint64 by which `conv` and `asInt` work.
The reference, `GoResult`, is stated bit by bit or by the law that defines the result
(congruence, the division law), never by the same formula. The host's bitwise operations act
on the set of the bits that are set (`Ones`), which `Word` puts together again. Powers of two are the module's own
recursive function, because the provers know nothing of `^`.

### WorkflowRun

`phase` is the call under way in `InterpretWorkflow`; the interpreted code is a choice
between returning and one of four kinds of panic. `given` is the number of
arguments passed: the function that `BuildFunc` makes drops the context, so
`Wrapped = TRUE` fixes it to one less than `params`. `goroutines` is the counter of the
interpreter, `live` the goroutines themselves.

### GoContext

One watcher and one reader (a call of `Err`) per joined context, interleaved at every lock,
unlock, assignment and `select`. Its initial states, next-state relation and
specification are `CtxInit`, `CtxNext` and `CtxSpec`, so that it can be used beside `WorkflowRun`.
The Go context and the SDK's workflow context are external and do what their documentation says.

The package runs interpreted. Four things follow for the model:

- *The mutex.* `interp.go:26-29` says of interpreted `sync/atomic` that it is not atomic and that
  "Mutexes are currently broken". `Lock` and `ReadDoneErr` therefore exclude nobody: a call of `Err` may
  read between the watcher's two writes of `goContextDoneErr`, and returns an untranslated error when it does.
  `torn` (history) says that it did, and `UntranslatedOnlyTorn` that nothing else gives such an error. That an
  interpreted `Lock` returns at all is assumed.
- *The done channel.* `entireWorkflowDoneCh` is never closed (finding 4), so the second case of the watcher's
  `select` is no action.
- *The table of externals* has no entries for `sync/atomic` at this commit, so that the first locked
  operation would end in "no code for function" (`interp.go:519-521`).
- *`workflowContext()`*, the first thing `withGoContext` asks for, compares a host value with nil
  in a way the interpreter refuses ("comparing uncomparable type").

The last two stop the package before it does anything. The module shows what it does where they do not.

### WorkflowContexts

An execution (`WorkflowRun`) whose program joins contexts (`GoContext`). `withGoContext` is a Go instruction of the
program (`Join`), so a watcher is one of the goroutines that the interpreter counts, and its `cancel()` is
their return (`WatcherReturns`). Watchers go on when the execution has ended, and stop when an unrecovered
panic of a goroutine takes the host down; the program's code runs in the main goroutine while it is in `init` or in
the workflow function, and in the goroutines that are no watchers (`CodeRuns`). The server
cancels a workflow only while it is running (`Cancels`); a Go context may fail at any time (`Fails`).

### Channels

A message is the number of the instruction that sends it. `Put`, `Take`, `TakeClosed`,
`HandOver`, `Default` and `SendPanics` are what the host may do with a waiting goroutine, on
the cases that it was given (`HostCases`: the program's states, after the default if
there is one). What the interpreter makes of the answer is in
`Chosen` (the host's index back to a state), `Received` (the host's nil of a closed channel
becomes the zero value) and `SelectTuple` (index, flag, and a value for every receive
state in turn). `Outcome` reads the register by the code that go/ssa emits after the statement, so
the histories `sent` and `got` follow what the *program* believes to have sent and received,
while the buffers follow what the host did: the properties compare the two. A panic
that no deferred function recovers ends the main goroutine's workflow (its handler is in
WorkflowRun); in any other goroutine it takes the host down (`Dies`).

### Blocks

One frame's `env`, `block` and `prevBlock` over an arbitrary control-flow graph. `VisitPhi`
visits one phi node and takes the edge of the first predecessor equal to `prevBlock`, as the loop with its
`break` does. `Compute` is any other instruction that defines a register. `entered` keeps `env`
as it was when the block was entered.

### Reflect and SymReflect

The program has one Value or Type at hand (`val`, `typ`) and one interface value that
`Interface` made (`kept`). It may call any of the functions on it, well typed or not in
reflect's sense, and store to its variables in between; `told` is what the last call
answered, or that it failed a type assertion of the host. Boxed values carry the host's dynamic
type as `tag`. A slot is known by its place, the number of a variable and the path of a part
of it (`<<3, <<2>>>>` is the second part of variable 3); `heap` is the function from places to slots,
and `Slots` is what Alloc and `New` add to it for a variable. An aggregate is either in place (`cells`,
the slots of a variable) or a fresh one (`parts`, slots that nothing else reaches). `view` and `bound` are histories: the variable that Go's
Value would refer to, the content when the Value or the interface value was
made, and the known deviations on its way, which the properties except by name: `mapindex`
(the element has the type of the keys), `unset` (the program's `var v reflect.Value`), `nested`
(an interface value in an interface value), `shared` (Interface of an aggregate in a
variable). What is no Value is no state of reflect's: the tables have no method
that stores through a Value (`Set` is a function that does nothing).

`SymReflect` walks the type it is asked for (`Start`) as `findReflectType` does, one call at a time on
`stack`, until the caller takes the result and goes on (`Leave`). A named struct or interface is looked up by
package path and name, of which `name` is one value in the model, in `Linked`, the table that
`allTopLevelTypes` leaves. Types declared in functions have the names of others, and the table
keeps the last it met: what is found may be another type (`Mistaken`), of another kind. `MaxDepth` is
the room on the host's stack, which is assumed to be no less than the number of types. Nothing in the
repository calls `ReflectType` yet, so the run asks for any type of the program, a method's signature too,
before the program reflects. It goes no further from a state in which a call has only answered: no action
reads `told`, so what can follow the answer can follow without it.

## 3. Runs, bounds and fairness

| Run | Shows | Bounds and why they are enough |
|---|---|---|
| `frames` | every frame invariant, LIFO and once-only execution of deferred calls, `recover` only where `doRecover`'s comment allows it, refinement of `PanicLedger`, termination | five calls, defers or panics. The deepest interaction, a deferred function that defers and panics while its caller panics and is then recovered from, takes four; both modes, all panic kinds |
| `hashmap` | lists well formed, refinement of `GoMap`, what a range produces, that it ends | five keys: two equal and written differently, one that collides with them, one apart, NaN; three allocations fill one bucket or two, with one bucket emptied and refilled |
| `memory` | no two variables share a slot, pointers stay, refinement of `GoMemory` | a struct of two scalars, a struct in a struct, slices of length two and capacity three cut in two ways (so that copies overlap and spare slots are reached), two slice variables, six cells |
| `values` | comparison, hashing and its lock, host-map choice, type assertion | every pair of values of fourteen types, nested to depth three: an interface in a struct in an interface is the least in which all the recursions meet; six of the types are dynamic types of interface values, among them a func, a struct with a func in it and one with an embedded field; two threads; two types collide, two values collide |
| `arith` | every integer operation, shift, conversion and index | widths 2, 3 and 4 with an int of 4: a narrower type, an unequal one and the widest; all operands |
| `workflow` | panics are contained and told apart, an answer comes; `Err` and `Done` agree, cancellations arrive, watchers whose Go context failed end | one parameter with more or fewer arguments, two Go instructions, either of which may join a context: two joined contexts, enough for one to be canceled when the other should not be, or one and a goroutine of another kind, which may panic; every interleaving, also after the execution has ended |
| `channels` | registers agree with the host's channels, order of messages, a close releases every waiter | a channel without a buffer, one with a buffer of one, the nil channel; two goroutines and four instructions: a select against any statement or another select, and one more on each side; four selects: both directions on one channel and a receive after a send, the nil channel, no case, a default |
| `reflect` | boxed values fit, allowed calls answer, content, the host's type | nine variables: a struct with an interface field that holds a pointer to a struct, a named pointer type, an array and a slice of its elements, a map with struct keys, a channel, a function of a named type, a string, a slice of itself; for the search also an interface, a method's signature and a struct that has its name from a type in a function; `MaxVars` leaves room for one more, which `New` makes; `MaxNesting` is as deep as values are nested in this program (`TypesAssumption` and `ValuesAssumption` say so, and TLC evaluates them); as many nested calls of `findReflectType` as there are types, the least that `HostAssumption` allows |
| `blocks_swap`, `workflow_error`, `memory_shared`, `workflow_leak` | one finding each, see section 5 | |

The type invariants of `Frames`, `HashMap`, `GoContext` and `WorkflowRun` are proved
(section 6), and so are `GoroutinesCounted`, `WatchersCounted`, `Filled` of MemoryProofs (until a spare slot is
reached) and `HasherGuarded` of DataProofs; no run repeats them.

Symmetry is used in `memory` only (slice variables, a run without liveness properties).
Deadlock is off where the system may stop: every thread
waiting for a lock never released (`values`), the heap's bound reached (`memory`), every
goroutine ended or waiting for a message that nobody sends (`channels`), the host's stack
exhausted or a call answered (`reflect`), the function returned (`blocks_swap`).

Fairness, where a liveness property is checked:

- `Frames`: weak fairness of `Next`: one goroutine that the host schedules. The bound `MaxWork`
  makes the target program finite; that the interpreter adds no loop of its own
  is what `Ends` shows.
- `HashMap`: weak fairness of `next()`: `RangeEnds` is about a program that keeps
  calling it. The program may insert and delete between any two calls.
- `WorkflowContexts` (`AllFairSpec`): weak fairness of the main goroutine, for which the worker waits, and of each
  watcher that has left its `select`, which the host schedules like any goroutine (that the interpreted
  `Lock` returns is the assumption named above). Nothing is assumed of the other goroutines of the program.
- `Values`: weak fairness for each thread and strong fairness for `LockMu`, because a
  `sync.Mutex` hands itself to a waiter that has starved.
- `Channels`: weak fairness, per goroutine, of its going on with the statement it waits
  at (`GoesOn`): the host wakes a goroutine that can go on. Nothing is assumed of what
  the program does next, nor of which ready case the host takes.

## 4. Mutants

Each property of each passing run has a mutant, an operator placed before the
definition it replaces and commented `Mutant:`. It is the same code with one plausible slip: a guard
dropped, a list not cleared, a counter left alone, a lock released late. TLC finds
the property violated with the mutant in place; the property is therefore not true merely
by the shape of the model.

## 5. Findings

Those with a run, whose one property is a statement of the repository and is violated:

1. `blocks_swap` (`interp.go:374`): phi nodes are visited one after another and each reads
   the registers as the one before left them. The loop of `a, b = b, a`
   leaves both with one value. `BlocksProofs` says for which functions nothing can go wrong.
2. `workflow_error` (`build.go:109`): the context is taken off the arguments while
   `callSSA` binds every declared parameter; a workflow started through `BuildFunc`'s
   function ends in `INTERPRETER_PANIC` although its code did not panic.
3. `memory_shared` (`ops.go:952`, `960`): `append` and `copy` of struct elements move them
   by reference; a store through one slice changes the other.

4. `workflow_leak` (`workflow/context.go:52`): the watcher of a joined context waits for its Go context or for
   `entireWorkflowDoneCh`. With all arguments, closing that channel fails (`temporal.go:135` asserts a host
   `chan struct{}`, an interpreted channel is a `chan value`), and a workflow that panics does not
   come to it. When the execution has ended, the watcher of a Go context that does not fail waits on,
   for as long as the worker lives.

Those that came up while modelling and are in the models, without a run of their own:

5. `workflow/context.go:42`: the watcher keeps the Go context's error when the workflow
   context's error *is* already set; the comment above says "Only set if the workflow context
   error isn't already set". A deadline is lost, and an `Err` that said `ErrCanceled` may say
   `ErrDeadlineExceeded` later. `ErrAfterDone` is what holds in spite of it.
6. `workflow/context.go:43-49`: the error is stored untranslated and translated afterwards, under a mutex
   that the interpreter does not make exclusive (`interp.go:26-29`): `Err` may return the host's
   `context.Canceled`. `UntranslatedOnlyTorn` says when.
7. `temporal.go:135`, again: the close fails after `completed` was set, so the
   handler that is to "Handle any panic" (`temporal.go:101`) lets the panic through.
   `PanicsContained` speaks of the panics of the workflow's code, which it does contain.
8. `value.go:152`: the equality of structs skips embedded fields, and so does their hash; the comment at
   `value.go:197-198` calls it Go's equivalence. Two interfaces that hold a struct or an array
   with a part that cannot be compared do not panic before such a part is met, and a nil func to the left of a
   closure is equal to it. `EqualsIsGo` names the three.
9. `reflect.go:299`: `MapIndex` gives the element the type of the map's keys.
10. `reflect.go:496`: `Interface` of an aggregate in a variable gives the variable's own slots, so
    that the interface value changes when the variable does.
11. `reflect.go:240`: `Kind` of a Value without a type, as of `ValueOf(nil)` or of a key that the map lacks, panics,
    where package reflect answers `Invalid`.
12. `package.go:173`: `findReflectType` does not end for a type that contains itself other
    than through a named struct or interface, and panics for one that the binary lacks, where the comment
    at line 32 leaves room for an error.
13. `package.go:275`: the table of host types keeps one type for a package path and name. A type declared in a
    function can take the place of the package's, or of another function's, and is then found for it.
14. `ops.go:236-276` with `952`: the spare slots of an `append` hold the host's nil; a slice expression up to the
    capacity gives them to the program.

Smaller ones are in the properties themselves, which say what the code does: `HashEnds` (a nil interface hashed leaves
the lock held for good), `ArithIsGo` (a negative shift count does not panic), `CallsAnswer`
(Elem of a nil pointer, Index of a string, In and Out of a named function type fail).

## 6. Proofs

TLAPS checks every theorem to the last leaf, for all values of the constants that satisfy the
modules' ASSUMEs, which TLC evaluates on every run.

**FramesProofs** (for any `MaxWork`, kinds of panic and both modes):

- `TypeCorrect`: `Spec => []TypeOK`, an action at a time, over lemmas about pushing, popping and
  replacing a frame.
- `DefersStayInOrder`: `Spec => []DefersInOrder`. `InOrder(f)` is inductive by itself once
  types are known: a body has run nothing and holds its whole list in reverse order of
  pushing; a frame running its list has run the top `n` ranks and has exactly the rest
  before it. The delicate case is `PanicAgain`, where a second walk begins: `Cleared`
  leaves it nothing to walk.
- `DefersAllRun`: `Spec => DefersRunLIFO`, the action property: a step that shortens the stack
  is `ReturnFn`, `PanicOut` or, in DisableRecover mode, `UnwindBody`; in the first two
  `todo` is empty and `InOrder` says the rest.
- `FramesNest`: `Spec => []WellNested`. The inductive invariant is `NestInv`: it adds to
  `WellNested` that a frame panics exactly when it holds a panic and that every panic has a number.
- From there on the proof does not look at frames but at three things: `ages`, the function
  from a frame's place to the number of the panic it holds (0 for none), `AgeInFlight`,
  the number of the panic in flight, and what was raised and recovered. `StepSeen` shows once, over
  all actions, that each step has one of eight forms in these terms: unnoticed, raised in a body,
  raised in a deferred call, caught by a frame, left the frame, returned by `recover`,
  returned and replaced by a new panic, the program's end.
- `PanicsStayOrdered`: `Spec => []PanicsOrdered`, with the inductive `OrderInv`: the ages
  grow towards the top, the panic in flight is younger than all, no number exceeds
  `raised`, and a recovered number is held nowhere. The last two are what
  makes it inductive: a new panic is younger than all before, and `recover` cannot return one twice.
- `RecoverReaches`: `Spec => RecoverDirect`, from `OrderInv` and the form of a recovering step.
- `FramesImplementLedger`: `Spec => PanicsAccounted`, the refinement: each of the
  eight forms is a step of `PanicLedger` under `LivePanics`, or leaves it alone
  (`StepImplements`). `LiveIs` says that the panics alive are the numbers of `ages` and of the flight;
  `HighestYoungest` that the highest frame with a panic holds the youngest, so the one that the
  code displaces or recovers is the one the ledger means; `DoneInv` that nothing happens after the end.

**HashMapProofs** (for any keys, values, hash and equality related as the ASSUME says, and
any bound): everything that the run checks but `RangeEnds`.

- A list is a chain of `next` indices. `Reach(a, x)` says that `x` is on the chain from `a`,
  as membership in every set closed under links. The lemma `Least` then takes
  the place of induction, and `WalkIs` and `FindIs` tie the
  recursive functions of the module (the entries of a list, the entry for a key) to `Reach`.
- `ListInv` is the inductive invariant for the lists: links lead to older entries (so a
  chain ends) of the same hash, a bucket's list has that bucket's hash, no two entries in the map have equal
  keys, and `length` counts them. `Unlinked` says what `delete` does to every walk, for the
  head, the middle and the end of a list.
- `ListsCorrect` and `HashMapImplementsGoMap` follow; the latter shows
  the map as the keys and values of its entries (`Assoc`), which every operation changes as GoMap's does.
- `RangeInv` is the one for a range: an entry that was there all along was produced, or is met from `cur` on
  (`ReachJoined`: deletes behind or before the iterator leave it a way), or its
  bucket is still due. `NoEntryTwice`, `RangeIsComplete`, `RangeIsFresh` follow.

**ChannelsProofs** (for any goroutines, channels, capacities and selects):

- `TypeCorrect`, from the invariant `Shape`, which adds to the types the form that a
  statement has by its kind: one case for a send or a receive, any list of them for a select.
- `Reading` is the lemma on which the rest stands: the code after a statement reads, in the
  register that `Result` builds, exactly the case the host took, its value and its flag, for every
  list of states, with or without default.
- `MessagesInOrder`: `Spec => []InOrder`, an action at a time, by what `Reading` says is added to the
  histories (`DeliverAdds`, `HandOverAdds`).
- `CasesAreTold`: `Spec => CaseTold`.

**BlocksProofs**: `PhisAgreeWithoutForwarding`: `PhisParallel` holds in every function in SSA
form in which no phi node names an earlier one of its block. The inductive part is
`Untouched`: what is not yet defined by a phi node of the block is as it was when the block was entered.

**WorkflowProofs, about GoContext** (for any set of joined contexts):

- `CtxStrengthening`: the invariant `CtxInv` relates the watcher's place to the stored error
  (unset before the lock, a Go error only just after the assignment, translated or unset
  afterwards) and says that an error that is stored, noted or returned
  implies that the child context is done, and that one noted untranslated was read in between. Without the
  watcher's place none of it is inductive.
- `CtxTypeCorrect`, `OnlyTornUntranslated`, `ErrOnlyAfterDone`, `CancelHasReason` follow from it.

**WorkflowProofs, about WorkflowContexts** (the same, for any number of parameters and goroutines):

- `CompositionIsBoth`: `AllSpec => Spec /\ CtxSpec`: every step of the composition is one of the execution or none,
  and one of the contexts or none (`StepIsBoth`). What is proved of either holds in the composition.
- `WatchersCounted`: the watchers that have not ended are among the live goroutines of the interpreter, so that the
  guard `Others > 0` counts what it says.

**WorkflowProofs, about WorkflowRun** (for either way of calling, any number of parameters and goroutines):

- `Strengthening`: `Counts /\ Kinds /\ Course`. The properties look at the end of an
  execution; `Course` says what is true on the way: a panic that the program raised is in flight
  until the handler has it (`RaisedInFlight`), it is raised where `completed` is not yet set
  (`CompletedLate`), only runtime errors are the interpreter's own (`OwnPanics`), and the
  caller has an answer exactly when the execution is over (`EndedOnce`). `Counts` holds the
  arithmetic apart from the rest.
- `TypeCorrect`, `PanicsAreContained`, `ReasonIsTold`, `GoroutinesCounted` follow from it.

**MemoryProofs** (for any types, capacities, cuts and spare slots, in a program whose slices have
scalar elements; with struct elements `append` shares slots, which is the finding of `memory_shared`):

- A type is assumed to be a set of paths closed under prefixes, with parts numbered from 1
  (`TypesAssumption`). `IsTree(v, T, L, h)` says that the boxed value `v` is a value of type `T` whose
  parts are in the slots `L`, one for each path. `PartIs` and `CellIs` tie the recursive
  functions of the module to `L`; `TreeAt` says that a part of a tree is one, `FreshTree` that
  `zero` and `load` build one, `TreeKept` that a tree stays one while only scalars change.
- The inductive invariant `Inv` says that there is an assignment of slots to owners: every variable,
  and the register, is a tree in slots of its own (`Separate`), and the pointer and each slice
  point at the slots of their spots (`Pointing`). Without the pointers' part it is not
  inductive: a store through a pointer to a slot of the register would change that.
- Four lemmas say what the steps of a kind have in common: only scalars change (`ScalarStep`),
  the pointer moves (`PointerStep`), the register gets a value (`RegisterStep`), a variable gets a
  new value (`AllocStep`).
- `SlotsHaveOneOwner`: `Spec => []NoSharing`; `PointersAreForGood`: `Spec => []PointersStay`.
- `MemoryIsGo`: `Spec => ImplementsGoMemory`, the refinement, step by step. `GoMem` shows a variable
  as the values of the parts that its tree has slots for (`ValueIs`); writing one part of a tree changes that
  part of the value and no other variable (`WriteSpot`). Each action has a lemma that ends in `Seen`;
  the hard ones are `append` and `copy`, because the host moves the elements one at a time between
  windows that may overlap: `MoveAll` says what the slots hold after `i` of them, in the direction
  that the host takes, and `MovedIs` that in the end it is what copying all at once gives.
  An `append` that grows makes new slots *and* spare ones, which the specification does not know of (`ExtendsSeen`).
- It needs one more invariant, `Filled`: what the program can reach is no host nil. It holds until a slice
  expression reaches a spare slot of an `append` (`NilsOnlyExposed`: `Spec => [](~exposed => Filled)`); from
  then on `ImplementsGoMemory` claims nothing, and `exposed` stays (`ExposedStays`).
- All four have the hypothesis `Elem = {}`, slices of scalars. That is not for the proof's sake: for
  struct elements the refinement and `NoSharing` are false, which is what `memory_shared` shows.

**DataProofs, about Arith** (for any widths of the integer types, any width of int no less, and lengths that are
ints; so for 8, 16, 32 and 64 bits):

- `Pow2Is` ties the recursive function `Pow2` to its equation, by the least number for which it would fail
  (`LeastOne`); that argument is used wherever one would use induction. `Wrap` is tied to division with
  remainder (`WrapIs`, `WrapSame`, `WrapCongruent`), bits to division by a power (`BitShift`, `TopBit`), and
  `Word` to the bits it was made of (`SumsHaveBits`).
- `ArithmeticIsGo`: `ArithSpec => []ArithIsGo`, one lemma per group of operations: exact modulo the width
  (`ExactOps`), division (`QuoOK`, `RemOK`, with the least number divided by -1), bit by bit (`BitOpsOK`,
  `UnOpsOK`), shifts by less than the width and by more (`ShiftLeftOK`, `ShiftRightOK`).
- `ConversionsAreGo`: `ArithSpec => []ConvIsGo`. `WidenSame` is the core: the detour through int64 or
  uint64 changes no number. `IndexOK` says why an unsigned index that int does not have
  cannot come out as a small one.
- The invariant is the two properties with the typing of the register; what had to be found are the lemmas.

**ReflectProofs, about SymReflect** (for any types, cyclic ones too, any table of the host's types by name and any room on the
stack that `HostAssumption` allows):

- `Shown` and `Met` recur on the number of levels; `ShownIs` and `MetIs` give their equations.
- `SymInv` is the inductive invariant. A frame of the walk at place `i` holds results that are `Finished`:
  from `MaxDepth - i` levels on they are all that the emulation shows of their types. (Without
  the number of levels it is not inductive for a type that contains itself.) That is so unless the walk was `Misled`,
  by a type for which the table has another of its name. Neighbouring frames are a type and
  the part it is at (`Below`), so the stack is a `Chain` of calls.
- `FoundIsShown`: `SymSpec => []FoundAsEmulated`, from `ConstructDone`, `NamedDone` and `LookedUpDone`: but for a
  type of the same name nothing leads the walk astray.
- `FailsWithReason`: `SymSpec => []FailsForReason`. A stack that is exhausted holds more calls than there are
  types, so two are for one type (`ChainCircular`, the pigeonhole principle), which is the circle claimed.

**DataProofs, about Values** (for any types with finitely many parts, any dynamic types that are no interfaces, any scalars
on which the conversion to int agrees with `==`, any nesting, any number of threads, any hash of types):

- The recursive functions of the module recur on the depth at which a value is nested. `NatsIn` is
  the induction principle as a statement about a set of numbers; it gives each function its equation (`NestedIs`,
  `ComparisonIs`, `HashOfIs`, `StepsOfIs`, `AtomsIs`), and from it `TypedIn` and `PairsIn`: a set that has every
  value (every pair) whose parts and content it has, has them all.
- `AllTold`: the steps of a hash meet a nil interface or what cannot be hashed exactly if the
  atoms of the value that are in no embedded field hold a nil interface, a func, a slice or a map.
- `AllCompared`: what `equals` answers, part by part and stopping at the first that decides, is what the first
  place at which the atoms of the two values differ tells; and values that it finds equal have one hash. The
  hard case is an aggregate, whose atoms are those of its parts one after the other: `Tells` is the
  statement about a prefix, `ThenTells` appends one part, `DecidedTells` all of them, and `Laid` says
  what the library's `FlattenSeq` does one sequence at a time. `EmbeddedTells` and `HeldRefused` are the two
  places where the code and Go part (`Odd`).
- `ComparesAsGo`: `Spec => []EqualsIsGo`, Go's answer but for the three cases of `DecidedOtherwise`; `HostMapFinds`: `Spec => []BuiltinMapAgrees`; `AssertsWhatIsHeld`:
  `Spec => []AssertTells`. The last answer is right at first and after each step (`AnswersStep`), because it is
  made in one.
- `EqualKeysHashAlike`: `Spec => []HashAgrees`. This one is about several steps of several threads, and `HashAgrees` is
  not inductive: it says nothing of a hash that is not yet returned. `ThreadsFit` does: what a thread has
  still to do stops the hash exactly if its key does, unless it panicked; and the hash it returned is its key's.
- `HasherIsShared`: `Spec => []HasherGuarded`: one thread at a time uses the hasher's table, and the lock is held
  exactly while one does, or for good once a nil interface was hashed.

**ReflectProofs, about Reflect** (for any types that go/types could make, any variables and initial values of
their types, any bounds; `TypesAssumption` and `ValuesAssumption`):

- The recursive functions (`Zero`, `Laid`, `Loaded`, `Within`) recur on a type, a place or a number of
  levels. `Nesting` says how deep a type is nested, which is what the arguments go along: `ZeroIs`, `LaidIs`,
  `LoadedIs` and `WithinIs` give each function its equation.
- `Fits` speaks of all values nested in a value. In the proofs its place is taken by `Whole`: the value is in a set
  of typed values of which each fits outside, is in no slot and has what is inside it in the set (`Closed`); such a
  set stays one whatever is stored, since only types of slots matter to it. `Sits` is that, or to be the
  aggregate in a slot, which fits because its slots do (`SlotFits`). `SitsFits` leads back to `Fits`.
- The inductive invariant is `RInv`: every slot holds what fits its type, an aggregate the places
  of its own parts, and the slots of the beginning keep their types (`HeapInv`); the Value and the interface value
  at hand are `Good`: they sit as their types say but after a named deviation, then as *some* type does; what is in
  place is the aggregate at the place of Go's Value, unless `Interface` shared it; and what is not in place is what it
  was made with (`ValInv`, `KeptInv`). `ValuesFit` alone is not inductive: it says nothing of what `Elem` finds in a slot, nor
  of a Value of the wrong type, which the program may still take apart.
- A lemma per call says that it leaves `RInv`: `Gives` needs a good value, `New` and `Store` that slots keep
  their types (`NewFits`, `StoreFits`, `GoodMoves`).
- `SlotsFitTheirTypes`: `Spec => []RInv`. From it `ReflectedValuesFit`: `Spec => []ValuesFit`, and `ShowsAsGo`:
  `Spec => []ContentAsGo`.
- `AllowedCallsAnswer`: `Spec => []CallsAnswer`. It looks at the value before the call: what fits a type has the tag and
  the form that the call asserts, or the call is one of those that `CallsAnswer` names (`Excused`). `IsNil` is compared with the zero value kind by kind.

Only model-checked: every liveness property (the prover has no ENABLED or fairness reasoning). `BlocksProofs` proves
`PhisParallel` only for functions without forwarding phi nodes, because it is false otherwise (`blocks_swap`).

## 7. What is not modelled

- *cap, len and range of a channel*: forwards to the host, or receives of go/ssa's own.
- *runtime.Goexit*: the code marks it as a TODO (`external.go:214`).
- *What a program does with the host's nil* that it reached in the spare slots of an append, beyond the loads and
  stores of `Memory`.
- *Blank fields, rtypes and tuples* in `Values`.
- *`initReflect` run by two executions at once*: it writes to the program that all executions share;
  a data race in the host, in which all write the same.
- *Data races of the target program* (two interpreted goroutines on one map or slot):
  undefined in Go as well; `map.go:9-12` leaves them to the program.
- *Strings, floats, complex numbers, unsafe.Pointer*: operations that forward to the host's.
- *Of reflect*: String, Float, Size and NumMethod, which forward without state; a StructField's
  Offset and PkgPath; methods that are in none of the tables.
- *Of symbol reflection*: `loadFuncs` and `allTopLevelTypes` read the linker's tables; the table that the latter
  leaves is the constant `Linked`.
- *`sync`, under the interpreter*: `GoContext` takes from the comment at `interp.go:26-29` that a mutex excludes nobody.
- *External functions and the workflow API*: tables and forwards without state of their own.
- *Program building*: `Prebuild` and the checks of `BuildFunc` run once, sequentially, before any execution.
  One point for its users: the function's name is looked up as the host's runtime prints it, where
  a dot in the last element of a package path is escaped, so that such a
  package is not found.
- *The conversion of results in BuildFunc*: no execution of this code comes to it.
- *Tracing mode* and printing.

## 8. Plan

The order is by importance: what a panic does to a program first, since every other part
relies on it; then what the program sees of its data; then concurrency.

Done, in this order: `Frames`/`PanicLedger`, `HashMap`/`GoMap`, `GoContext`, `WorkflowRun`,
`WorkflowContexts`, `Memory`/`GoMemory`, `Values`, `Arith`; the proofs about Frames, GoContext and WorkflowRun;
`Channels` with its proofs, `Blocks` with its proofs, `Reflect` and `SymReflect`, the proofs about
HashMap and Memory, that Memory implements `GoMemory`, and the proofs about Arith,
SymReflect, Values and Reflect.

Left:

1. `Calls`: resolution of a call (`prepareCall`): closures, bound methods, interface
   methods and externals; composed with Frames.
2. Comparison and string operators in `Arith`; range over a string in `Memory`.
3. `BuildFunc`'s checks and the conversion of results, once an execution comes to them.
