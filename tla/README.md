# A TLA+ model of rclmine

rclmine is an experiment on top of rcl, the C library under the ROS 2 client
libraries: a small header-only client library of its own (node, publisher,
subscription, service, client, executor, parameters) and five programs that use it.
This directory holds TLA+ modules that model the library and its programs, TLC
configurations that check them on small instances, and TLAPS proofs of the main
theorems. Paths below are relative to `src/`; `include/rclmine/` is left off the
names of the headers, `src/rclmine/usecase/` off the names of the programs.

## 1. The system

### Components

| component | state it keeps | operations | interacts with |
| --- | --- | --- | --- |
| `RCLUtils` (`rcl_utils.h`) | none; hands out the `rcl_context_t` | `init`, `shutdown` | every program, first and last |
| `MyNode` (`my_node.h`) | the node handle, one list per kind of entity | constructor, `create*`, `get*`, destructor | owns subscriptions and services, shares clients with the application, does not own publishers |
| `MySubscription`, `MyService`, `MyClient` | a handle, a callback, a raw pointer to the node's handle | constructor, `get*`, `request`, destructor | the middleware's queue behind the handle |
| `MyPublisher` (`my_publisher.h`) | a handle, a raw pointer to the node's handle | constructor, `publish`, destructor | the middleware |
| `MyExecutor` (`my_executor.h`) | lists of handle/callback pairs, a wait set | constructor, `addMyNode`, `spin`, destructor | copies the node's lists, runs the callbacks |
| `MyParameter` (`my_parameter.h`) | a map from names to values | `declare_parameter`, `set_parameter`, typed getters, names | shared by the program and the parameter service |
| `MyParameterService` (`my_parameter_service.h`) | a reference to the storage | a constructor that registers four services, their handlers | a node's services, the storage |
| programs (`main_executor_pub`, `_sub`, `_service`, `_client`, `main_parameter`) | local variables of one block | set-up, one endless loop | each other, through the middleware |
| `old/my_node.cpp`, `old/main_*.cpp`, an earlier version that `CMakeLists.txt` does not build | the node handle, one member per kind of entity, a copy of the context | constructor, `create*`, `publish`, `subscribe`, `service`, `sendRequest`, destructor | its own entities |
| `old/my_subscription_old.h` | two handles | `subscribe`, a loop with a wait set and a guard condition of its own | the middleware, the system clock |
| `old/my_client_old.h`, `old/my_service_old.h`, `old/my_publisher_old.h` | a handle | `sendRequest`, `service`, endless loops with a wait set of their own; `publish` | each other, through the middleware |

A program has one thread. All that happens at the same time as it happens in the
middleware (discovery, transport, queues) or in other processes. An error of rcl is
thrown as `std::runtime_error`, and no program catches one.

### What is hard about it, and what makes each part correct

* **Executor.** `spin` walks its own lists but indexes the arrays of the wait set,
  which were sized by an earlier call. `rcl_wait` blanks slots; every return code
  but a timeout counts as success, even if all slots still hold their handles.
  Correct means: reads stay inside the arrays; an occupied slot belongs to the list
  entry with its index; only entities of the one successful `addMyNode` are served;
  none of them starves.
* **Node and entities.** Entities need the node's handle to be finalised; clients
  have two owners, publishers only the application. Any call may fail half-way
  through the set-up. Correct means: what was initialised is finalised, once, before
  its node; what the executor can call exists as long as the executor.
* **Publishing.** Discovery takes time and a subscription keeps the ten latest
  messages. Correct means: messages of a publisher are received in their order and
  none twice, only old ones are lost, and the newest arrives.
* **Service and client.** `request` waits for nothing and forgets the sequence
  number; requests and responses sit in bounded queues; the service may end and come
  back. Correct means: every answer is that of the request whose number it bears,
  answers come in order, no lost request is answered later, none stays undecided.
* **Parameters.** A value's tag is not tied to the field that is filled in, and the
  storage has a numbering of types of its own. Correct means: an update never makes
  a getter throw that worked, and a value with the tag of a type is read as it.
* **Parameter service.** Requests are carried out item by item, while others arrive,
  and the answer may be lost. Correct means: to its callers the service looks like a
  server that carries out each request at one moment, at most once, and each request
  in a queue is served.

* **Parameter program.** Each spin serves the four services in the order of their
  registration, so a request may overtake an older one to another service. Correct
  means: within one service the order of sending is kept, and every request is served
  in the spin after the one it arrived in, if it is the first of its queue.
* **The earlier version.** The node resets its members in an order of its own, and
  forgets some handles. `subscribe` runs for a time, measured by a clock that can be
  set. `sendRequest` blocks without a time limit and takes any response for its
  answer. Correct means: exactly the handles that the code visibly forgets are never
  finalised; the loop ends, and on time; neither topic starves; a call returns with
  the answer to its own request.

`PROJECT.json` lists these hazards one by one, at the line where they bite.

## 2. The modules

```
EventDispatch      what an executor promises                 (abstract)
  <- MyExecutor    node lists, addMyNode, spin, queues       (implements it)
       MyExecutorBypass   with a history variable
         MyExecutorProofs   (of both)
RclLifecycle       what rcl demands of its user              (abstract)
  <- Lifetime      the programs' block, ownership, exceptions (implements it)
       LifetimeProofs
  <- OldNode       the earlier node and its programs' blocks  (implements it,
                   but for the handles it forgets)
       OldNodeProofs
ParameterValue     values, tags, types
  MyParameter      the storage
  ParameterAnswers what a request does and returns
    ParameterServer      one request at one moment           (abstract)
      <- MyParameterService   queues and handlers, over MyParameter (implements it)
           <- ParameterProgram  the same, served by the loop of spin (implements it)
                MyParameterServiceProofs   (of both, and of the storage)
KeepLast           a KEEP_LAST queue
  KeepLastProofs
  PubSub           publisher and subscriber processes
    PubSubProofs
  AddTwoInts       service and client processes
    OldAddTwoInts  the earlier client and service
      AddTwoIntsProofs   (of both)
OldSubscribe       the earlier subscribe loop
  OldSubscribeProofs
MC*                values of the constants for TLC
```

Composition. `PubSub`, `AddTwoInts` and `MyParameterService` are whole systems of
processes. In each of them the executor appears as what `EventDispatch` promises:
one callback at a time, for any entity with data, in any order, no entity starved.
`MyExecutor` is the detailed executor; that it keeps the promise is proved as far as
safety goes and shown by the run `executor_main` for the rest. `MyParameterService` uses `MyParameter` through `INSTANCE`.
`ParameterProgram` replaces the promise by the loop itself: it adds to
`MyParameterService` the wait and the walk through the list of services, and is shown to
implement the specification it restricts. `OldAddTwoInts` adds to `AddTwoInts`, whose
queues, losses and restarts are those of the middleware and the same in both versions,
the blocking call of the earlier client.

Definitions whose name has a suffix after an underscore and a comment `Mutant`, or
that stand next to the definition of that name without suffix
(`Taken_WithoutCheck`, `Enqueue_DropsAll`, ...), are not part of the model. They say what the definition would be
if the code had the mistake that the suffix names. Replacing the definition by one
of them violates the property that `PROJECT.json` pairs it with.

### MyExecutor

| variable | in the code |
| --- | --- |
| `created` | `MyNode::subscriptions_`, `services_`, `clients_`, of every node |
| `registered` | `MyExecutor::subscriptions_`, `services_`, `clients_` |
| `valid`, `size`, `slots` | `wait_set_`: initialised, sizes of its arrays, contents (`NULL` for a blank slot) |
| `pc`, `loop`, `index` | the thread: between calls, in `rcl_wait`, in a dispatch loop; which loop; its `i` |
| `pending` | the number of data in the middleware's queue of each entity |

Actions: `createSubscription`, `createService`, `createClient` (with a failing
constructor), `AddMyNode`, and `spin` in pieces: `SpinBegin` (clear and refill),
`WaitTimeout`/`WaitReady`/`WaitError`, then per list entry `SkipEntry`,
`InvokeCallback` or `BadRead`, and `NextLoop`. `Arrive` is the middleware and can
happen between any two of them. `AddMyNode` and `SpinBegin` are single steps, since
nothing they read is shared. `WaitReady` reports all ready entities and possibly
others, since the middleware may report an entity from which nothing can be taken.

`AppCatches` says what an exception does. `FALSE`: it ends the process, as in every
program of the repository. `TRUE`: the application catches it and goes on with the
objects. The programs do not do this, but nothing in the library rules it out, and
it is the only way to a second life of an executor whose `addMyNode` failed. There
the lists are longer than the wait set's arrays and `spin` does read beyond them:
`NoOutOfBoundsRead` holds only for `AppCatches = FALSE`. An out-of-bounds read is
undefined; the model lets it yield either answer or end the process (`BadRead`).

### Lifetime

The block of a program is a sequence of statements (`program`), and the five
programs, which `MCLifetime` lists as `Mains`, differ only in it. `line`, `made` (the
number of entities a statement has created, for the four services of a parameter
service) and `scope` (the local variables that exist, in the order of their
construction) are the control state; `context`, `node`, `waitSet` and `entity` are
states of rcl objects; `holders` says whose `shared_ptr` keeps an entity; `watched` is
what the executor's lists hold. Every call of rcl may fail whose failure
the library throws for. With
`AppCatches = TRUE` a handler around the block catches the exception: the local
variables are destroyed in reverse order and the program goes on to `shutdown`, the
lines after the block. The programs themselves never leave their loops and catch
nothing; for them (`AppCatches = FALSE`) an exception ends the process with nothing
finalised, and nothing can be said of destruction.
The executor's destructor throws if `rcl_wait_set_fini` fails; as a destructor it is
`noexcept`, so the process ends there (`DestroyExecutor`). Errors that the other
destructors only report do not change what the code does next and are left out. An
application that catches *inside* the block an exception of `MyParameterService`'s
constructor, and goes on to spin, would run handlers that refer to an object that was
never finished: `WatchedOutliveExecutor` holds because of where the handler is.

### MyParameter, MyParameterService

`parameters` is `parameters_`, a function on the declared names. `NameOrder` is the
order `std::map` keeps its keys in, which `get_parameter_names` shows. A value is a
record of its tag and the four scalar fields. A getter that throws returns `Threw`.

`MyParameterService` has the queue of each of the four services, the request the
handler has taken, the position of its loop and the response under construction.
Handlers are cut into the take, one step per item, and the send, so that requests may
arrive in between. `Declare` and `Update` are the program's own use of the storage,
in the same thread, so never inside a handler. `Send` puts a request into a queue or
loses it. A caller does not wait for an answer before it sends the next request.

`ParameterServer` is what a caller may rely on: a request is carried out at one moment,
and `decided` is the decision until the answer is sent. `StoreAfter` and `Reply`
(`ParameterAnswers`) say what a whole request does and is answered without recursion: the
last update of a name that fits its type is what is stored, and the answer of a get is the
values of the declared names among those given, in their order. `MyParameterService`
decides a request when its handler takes it: `Store` is what is left of the request applied
to `parameters`, `Decided` its final answer, `Waiting` what the queues hold and `Issued`
the requests sent so far. That a request keeps this answer and this effect although its
loop has only begun is what the refinement says.

### ParameterProgram

`turn` is the position in the executor's list of services (0 outside of `spin`),
`reported` what `rcl_wait` left in the wait set. `SpinWait` begins a spin, `ServeTurn`
and `PassTurn` walk the list, `EndSpin` returns to `main`. A wait that times out changes
nothing and is no step. `last` and `missed` are history.

### PubSub, AddTwoInts

Processes that discover each other (`Match`), queues with the KEEP_LAST history of
`KeepLast`, reliable transport as under the default options. In `PubSub` transport is
a step (`Arrive`), since a publisher overrunning a queue is the point. In
`AddTwoInts` sending enqueues directly, and the service process may end at any time
(`Crash`) with its queue and its current request, and be restarted.
`AddTwoInts` adds integers of `Width` bits with wrap-around: overflow of the C++
`+` is undefined, and wrapping is what compilers produce for this loop-free sum.
A client process may end (`End`): `request` throws when rcl refuses to send.

### OldNode

`OldNode` has the shape of `Lifetime`, but ownership is simpler: `member` is what the
node's `unique_ptr` of each kind holds. A line that creates an entity is a step of its
constructor and a step of the assignment (`Assign`), which destroys what the member held
before. Leaving the block destroys the node: three resets in the order of the code
(`ResetOrder`), `rcl_node_fini`, and what is left with the members (`DestroyMember`). A
handle that is finalised without its node is `refused`. `my_node.cpp` hands
`rcl_node_init` the address of a parameter. What rcl does with it later is undefined, so
every construction and every use may also end the process. `Programs` of `MCOldNode` are all sequences of
up to four creations, with or without a use of the entities after them, of which the
blocks of the four programs are four.

### OldSubscribe

`elapsed` is what the system clock has advanced since `start`, in ticks; it passes in
`rcl_wait` and, up to `Slack`, between two waits. `SetClock` sets the clock. `pc` goes
through the function: the wait set and the guard condition are initialised, then rounds
of `BeginWait`, the wait, and one `Take` per slot, then both are finalised. `LoopGoesOn`
compares as C++ does: the signed number of seconds is converted to `size_t`, that is, taken
modulo `Modulus`. A failing `rcl_wait` is treated like one that reports everything, as the code
does.

### OldAddTwoInts

`OldClients` are the clients of the earlier version; the others pipeline as in
`AddTwoInts` (`Pipeline`), so both can share a service. `pc[c]` is where an earlier client
is in `sendRequest`; `SendRequest` is `Request` of `AddTwoInts`
plus entering the call, `HearResponse` is `TakeResponse` inside of it. `FillWaitSet` and
`NextRound` are the rounds of its loop. `CatchException` is an application that catches an
exception of the call and goes on; the program of the repository does not (`Uncaught`).
`Serve` is a round of the loop of the earlier service, or the end of its process.

## 3. What is checked

| run | question | bounds | states |
| --- | --- | --- | --- |
| `executor_main` | Does `spin` stay inside the arrays, and is each of its steps one of the dispatcher, and does it serve every entity in the end? | 2 nodes, 2 subscriptions, 1 service, 1 client, queues of depth 1, lists of at most 3; `AppCatches = FALSE` | 128 thousand |
| `executor_catch` | In an application that survives exceptions: do slots and entries match, is what fits in the wait set still served? | 2 nodes, 2 subscriptions, 1 service, `AppCatches = TRUE` | 464 thousand |
| `executor_bypass` | How many callbacks of others may run before an entity that waits is served? | queues of depth 2, 1 node, symmetric subscriptions | 262 thousand |
| `lifetime` | Is everything finalised once, in the right order, wherever the set-up fails or the loop throws? | the 5 programs and 2 that combine them | 421 |
| `parameter_bool_tag` | Is a value with the tag `PARAMETER_BOOL` read as a boolean? (violated, see below) | values of eight tags | - |
| `parameter_service` | Do the handlers implement a server that carries out each request at one moment, is no request forgotten, and can any sequence of updates change which getters work? | 2 callers, 1 request each, 5 kinds of requests, queues of depth 1, 5 values | 28 thousand |
| `pubsub` | Which messages may be lost, and in which order do the others come? | 2 publishers of 3 messages, a queue of depth 2 | 22 thousand |
| `add_two_ints` | Does every client hear the right sums, in order, is the fate of each request decided, and does a blocking call return with the answer to its own request? | 1 client that pipelines and 1 that blocks, 2 requests each, queues of depth 2 and 1, 1 crash, 2-bit integers | 260 thousand |
| `parameter_program` | What order of its requests may a pipelining caller rely on, how long does a request wait, and does the loop keep what `MyParameterService` assumes? | 1 caller with 3 requests, 3 kinds of requests, queues of depth 2 | 174 thousand |
| `old_node` | Which handles of the earlier node are finalised, in which order, and which never? | all blocks of up to 4 creations, entities used or not, a failure at every call that the code reacts to, a handler around the block | 41 thousand |
| `old_subscribe` | Does the earlier loop end, on time, and serve both topics? | 3 seconds of 3 ticks, queues of depth 2, the clock set up to twice, unbounded traffic | 25 thousand |
| `old_subscribe_clock` | Is the loop left only when the time has elapsed? (violated, see below) | 2 seconds of 2 ticks, the clock set once | - |

Why the bounds are enough to meet the hard cases:

* Two nodes and lists of three allow a second `addMyNode`, of the same node or
  another, and one before any entity exists. One subscription too many for the wait
  set suffices for a read out of bounds. The three loops each have work, and two
  subscriptions give the first loop an order. Depth one keeps `pending` small;
  `executor_bypass` has depth two, where a callback can leave a datum behind.
* In `lifetime` the statements are those of the programs; the two combined programs add
  a node that owns all kinds, and entities created after `addMyNode`. One node and
  one executor are what every program has.
* The values of `parameter_service` have tags of two getters, and two tags behind the
  last one the code knows (9 and 255), which it takes for the same type.
* In `parameter_service`, requests name a parameter twice, name an undeclared one,
  and hold an update that does not fit between two that do. With queues of depth one,
  the second request to a service displaces the first.
* Three messages through a queue of two is the smallest overrun. Two publishers mix
  in one queue.
* Three requests of one caller in queues of two overrun a queue and overtake each other
  between services. One caller is enough: the queues keep callers apart only by `id`.
* Four creations are the four kinds of entities once each, or one replaced several times.
* In `old_subscribe` the slack of 2 ticks is less than a second, so a round can end on
  either side of a full second; a depth of two lets a queue stay non-empty over rounds;
  16 as `Modulus` exceeds all times that occur, as 2^64 does.
* Two requests per client pipeline; four requests through queues of two and one
  overrun both; 2-bit operands overflow.

`pubsub`, `add_two_ints`, `lifetime` and the runs of the earlier version switch the deadlock check off, because
these systems come to rest: every message or request of the bound was sent, or the
program has ended. `PubSub` and `AddTwoInts` state what must happen as liveness
properties. The executor never comes to rest (`Terminated` stutters explicitly).
`add_two_ints` checks invariants only up to the bound of two requests a client; three
multiply the states without a new kind of interleaving.

### Fairness

* `MyExecutor`: weak fairness of `SpinBegin` once the wait set is valid (the programs
  call `spin` in an endless loop and do nothing else in it), of the wait (a timeout of
  one second bounds it) and of the dispatch loops (a single thread that goes on).
  Nothing is assumed of arrivals, of `addMyNode` or of the creation of entities. The
  abstract `EventDispatch` states its fairness as a formula (`Served`) since `Deliver` is not
  an action of one process.
* `PubSub`, `AddTwoInts`: weak fairness of taking (what `EventDispatch` promises), of
  transport, and of a callback that has begun. No publisher must publish, no client
  must ask, no process must be discovered or restarted.
* `MyParameterService`: a handler that began goes on (weak), and a service with
  requests is taken from again and again (strong, because it is not possible while
  another handler runs; `EventDispatch` promises exactly that).
* `ParameterProgram`: the one thread goes on (weak fairness of `Spin`); what
  `MyParameterService` assumes follows.
* `Lifetime`, `OldNode`: the thread goes on as long as there is something to destroy.
* `OldSubscribe`: the thread goes on, and time passes, however fast messages come.
* `OldAddTwoInts`: both loops go on (weak), a wait is over after a second, and the take of
  a response that is there does not fail for ever (strong fairness of `HearResponse`: each
  round of the loop disables it for a moment).

### Properties worth knowing

* `ImplementsEventDispatch`: a callback runs only for an entity of the one successful
  `addMyNode`, with a datum that has arrived, one at a time, and nothing runs any more
  once the process has ended.
* `NoEntityStarves`, `WatchedServed`: an entity that was part of the
  successful `addMyNode` is served infinitely often, also if `rcl_wait` fails time and again,
  and whatever the others receive.
* `BoundedBypass`: while an entity has data, no other is served more than twice
  before it; only once if it comes later in the loops. (A datum that just misses one
  `rcl_wait` is in the snapshot of the next.)
* `RawPointersValid`: entities keep the raw handle of their node, node and executor that of
  the context. Nothing in their types says that these live long enough; it follows from the
  order in which the variables of the block, the lists of the node and the node go.
* `WatchedOutliveExecutor`, `ImplementsRclLifecycle`: see Lifetime above.
* `LeavingReleasesAll`: after an exception that is caught, everything is released, or the
  process has ended at one of two places: in the destructor of the executor, with the wait
  set still there, or in `shutdown`, with nothing left but the context.
* `GettersStable`: in spite of the odd numbering, no sequence of calls changes which
  getters work for a declared parameter.
* `ImplementsParameterServer`: item-by-item updates look atomic, because one thread
  runs the handlers and the program's own updates. `AnsweredPromptly`: a request that is
  kept in its queue is carried out, and a handler always gets to its response.
* `EveryFateDecided`: each request is heard of, or lost for one of the reasons the code
  allows. A client whose request is lost is never told; it spins for ever.
* `InSendingOrder`, `ServedNextSpin`: a caller that does not wait for answers can rely on
  the order of its requests within one service only; a get may overtake an earlier set,
  but every request at the head of its queue is served in the next spin. (A caller that
  does wait reads what it wrote: that is a consequence of `ImplementsParameterServer`,
  since each request takes effect between its sending and its answer.)
* `OnlyKnownLeaks`: exactly the last client's handle, the second handle of every
  subscription and the first one of a subscription that failed half-way are not
  finalised by the earlier node; all others are, once, also those of replaced entities.
  The client's destructor does try, after the node is gone, and is refused.
* `OwnAnswer`, `OneUnderWay`: the earlier client compares no sequence numbers, and need
  not: since a call never gives up, no answer is left over for the next one. It stops
  being true for an application that catches an exception and calls again.
* `OnTime`, `LoopEnds`, `NoStarvation`: the earlier subscribe loop, for a clock nobody
  sets, and for any clock and any traffic.

### What no property forbids

Some hazards of `PROJECT.json` have no property, because the code does nothing against
them and no document says that it should. A request that is sent before the service is
discovered may be lost, and its client then spins for ever (`EveryFateDecided` counts this
as an end). A sum may overflow. The context that the earlier node hands to rcl dangles, so
its process may end at any construction or use (`OldNode` allows it everywhere). And an
application that caught an exception of `MyParameterService`'s constructor inside the
block would run handlers of an unfinished object; `Lifetime` has no such handler.

### Findings

`parameter_bool_tag`: `get_parameter_type` (`my_parameter.h:130`) numbers the tags of
a value from 0 for booleans, but returns constants of `rcl_interfaces`, which number
them from 1 (0 is "not set"). A value tagged with `PARAMETER_BOOL` is taken for an
integer, and `get_parameter_bool`, whose comment says that it gets the value of a
boolean parameter, throws for it. `main_parameter.cpp` follows the storage's
numbering (0 for a boolean), so the programs work with each other but not with tools
that tag their values as `rcl_interfaces` says.

`old_subscribe_clock`: the loop of `old/my_subscription_old.h` compares a signed number
of seconds with a `size_t` (line 108). When the system clock is set back by a second or
more, the number is negative, becomes huge in the comparison, and the loop is left at
once, while the comment on line 103 says that it is left when the elapsed time exceeds a
given time. (A clock set forward ends it early, too; `steady_clock` would not.)

## 4. What is proved

The eight proof modules hold for all sets of nodes, entities, names, values, processes
and programs, all depths and all bounds.

* `TypeCorrect` (`Spec => []TypeOK`): one step per action; the refill of the wait set
  is the only place where sequences of two kinds meet (`RefillCleared`).
* `SlotsMatchEntries` (`[]HandleMatchesEntry`): inductive together with `TypeOK`. After
  `SpinBegin` slots are a prefix of the list (`RefillCleared`), `rcl_wait` only blanks
  (`OnlyKeepsOrBlanks`), and lists only grow, at their ends, between two spins. It
  needs no assumption on exceptions.
* `ReadsInBounds` (`[]NoOutOfBoundsRead`), for `AppCatches = FALSE`: the property says
  something only inside a dispatch loop, so it is not inductive. `SizedToLists` is: as
  long as the process lives, an initialised wait set has as many slots as the lists
  have entries, and `spin` is past its beginning only with an initialised wait set. A
  second `addMyNode` breaks the equality, but in the same step the exception ends the
  process.
* `ImplementsDispatchSafety` (`Spec => ImplementsEventDispatch`), for `AppCatches = FALSE`: each step
  maps to a step or a stutter of the dispatcher. `AddMyNode` is `Watch` the first time,
  and `Halt` with the same `watched` afterwards, since lists only grow at the end
  (`AppendKeepsWatched`); `InvokeCallback` is `Deliver` or, when nothing could be taken,
  a stutter. That the entity is watched follows from `SizedToLists`.
* `OvertakenTwiceAtMost` (`[]BoundedBypass`), for `AppCatches = FALSE`: `Allowed(e, f)`
  is how often f may have overtaken e at a point of the loops: once if f's turn in this
  spin is over, and once more if e's is still to come and its slot is occupied, for the
  spin before. Whatever is due when `rcl_wait` returns has its slot occupied, because the
  arrays were filled completely (`Full`); and a turn is one callback, because the entries
  of the lists differ and are of one kind (`ListsInv`), so places are unique
  (`PlaceOfWatched`, `EntityOfPlace`).
* `LifetimeTypeCorrect` is part of one inductive invariant, `IInv` (`Invariance`), and
  `PointersStayValid` (`[]RawPointersValid`) follows from it. Its heart is `ScopeInv`, the scope as a stack: its lines
  increase, the node is at the bottom, and inside the block it holds every local
  variable declared so far. `HeldInv` ties holders to it: who is held belongs to a node
  that is initialised, the application holds only through a variable of the scope.
  `LiveIffHeld` says that an entity is initialised as long as it is held.
  `FreshInv` says what has not been created yet. One step per action; the lemmas
  `NextLineKeepsScope` and `PopKeepsScope` carry the stack.
* `FollowsRclLifecycle` (`Spec => ImplementsRclLifecycle`): each step maps to a step or
  a stutter of `RclLifecycle`. A `Drop` finalises only if `LiveIffHeld` says the entity
  is live; that nothing is live when the node or the context goes follows from
  `HeldInv`, and that no wait set is, from the executor's place in the scope. That the
  wait set is initialised once needs `ProgramsAssumption` (one `addMyNode`).
* `EndsReleased` (`[](phase = "ended" => AllReleased)`): what `LeavingReleasesAll` says
  of the end of a process, without the claim that the end is reached. By `NodeInv` a node
  is initialised only as long as it is in the scope, which is empty at the end; by
  `HeldInv` and `LiveIffHeld` no entity is without a node; the wait set needs the executor.
* `WatchedOutlive` (`[]WatchedOutliveExecutor`), for programs that declare their
  parameter services before the executor, as `main_parameter.cpp` does. Nothing in the
  library enforces that order; without it the theorem is false, since the handlers keep
  referring to the service. The argument: the executor is above the service and above
  the node in the scope, so it is destroyed first.
* `StorageTyped`, `GettersNeverChange` (`Spec => GettersStable`): an update is accepted
  only if `get_parameter_type` agrees on both values, and all getters look at nothing
  else.
* `ServiceTypeCorrect`, `UsesStorage`, `ServiceKeepsGetters`: `SInv` adds to `TypeOK` what
  the requests of each service are made of, so an update inside a handler is one of the
  storage's own operations (`UpdateInUse`). Hence `Spec => Storage!Spec`, and what is proved
  of the storage holds of the service and its program (`MyParameterService!GettersStable`).
* `RequestsAreAtomic` (`Spec => ImplementsParameterServer`): `RInv` adds to `SInv` that the
  requests in a queue were issued and differ (`Queued`), and that the response under
  construction is the reply to the part of the request that has been worked off
  (`ReplyInv`). A `Take` then maps to `CarryOut`: its reply and its effect are decided by
  the storage of that moment. The steps of the loops are stutters (`LoopStutters`). For a
  set this needs that an update does not change which other updates fit, which is the
  type check itself (`FitsByType`), and that the last update of a name wins wherever the
  loop is (`LatestOfLater`, `StoreAfterNext`); for a get, that the values found so far are
  those of the declared names in the part looked at (`NextArgument`). `Respond` sends just the
  reply that was decided, by `ReplyInv` at the end of the loop. `Send` is `Issue`: a full
  queue loses its oldest request (`EnqueueElements`).
* `ProgramRequestsAreAtomic` (`ProgramSpec => ImplementsParameterServer`): each step of
  the program is one of `MyParameterService` or a stutter (`ProgramStepIsStep`), so what is
  proved of its steps (`StepsAreAtomic`) holds for the program.
* `ServedInNextSpin` (`[]ServedNextSpin`), of the program's loop: a service that has missed
  a spin has a request, and its turn in the spin under way is still to come
  (`MissedInv`). Arrivals cannot take the request away, since a queue that drops one
  takes another in.
* `ServedInSendingOrder` (`[]InSendingOrder`): in each queue the numbers of a caller rise,
  from the one taken last to the one sent last (`Rising`); the lemmas `EnqueueRises` and
  `TakeRises` say so of the two operations of a queue.
* `AnswersHeardInOrder`, `LostRequestsStayLost` (`[]HeardInOrder`, `[]LostNeverHeard`):
  neither is inductive, since the order of what is heard comes from the queues behind it.
  `WInv` follows the way of each client's requests backwards: heard, in the response
  queue, in the callback, in the service's queue. Numbers rise along that way, and the
  lost ones are nowhere on it (`Way`); each queue is itself in order (`RequestsRise`,
  `Rising`). A full queue loses its first element (`EnqueueShifts` of `KeepLastProofs`),
  which therefore comes after all that was heard and before all that is left.
  They are theorems of `OldSpec`, so they hold next to clients of the earlier version.
* `HeardSumsAreRight` (`[]HeardSumIsAsked`): a sum that fits is exact. `SumInv` says of every request and response
  on the way that it is true to what was asked under its number (`Asked`,
  `RightAnswers`), which stays so when more is asked (`AskingMore`). `WrapsAround` is the
  arithmetic of a sum that wraps, for every modulus. The prover knows no powers, so
  `PowersAssumption` states the two facts about 2^Width that are needed.
* `CallsHearTheirOwn`, `NeverTwoUnderWay` (`[]OwnAnswer`, `[]OneUnderWay`): `BlockInv` says
  where the numbers of a blocking client can be at all (`UnderWay`: the two queues and the
  callback). Nothing is under way when it calls, the new number at most during the call,
  and nothing again once a response is taken, because numbers are unique along the way
  (`WInv`) and every other step only removes some (`OthersKeepBlockInv`).
* `MessagesInOrder` (`[]ReceivedInOrder`): `PInv` is the same idea, from a publisher
  through the transport and the queue to a subscriber.
* `LatestKept` (`[]OnlyOldMessagesLost`): `LInv` says that the queue is the end of what
  has arrived (`IsEnd`); so what a full queue displaces is just old enough to be lost.
* `OldNodeFollowsRclLifecycle` (`Spec => ImplementsRclLifecycle` of `OldNode`): the
  invariant says of every handle which states it may be in by its place (`Expected`): not
  reached yet, under construction, held by a member, replaced, or forgotten; `MemberInv`
  ties members to lines: the client's member is the last client created as long as the node
  exists. Each step then maps to one of `RclLifecycle` or, for a handle that is
  forgotten, to a stutter (`Remembered`).
* `OnlyKnownLeaksAtEnd` (`[](phase = "ended" => LeaksAreKnown)`): what `OnlyKnownLeaks`
  says of the end of a process, from the same invariant, since no member is left then.
* `NeitherTopicStarves` (`[]NoStarvation`): the counters are bounded by which slots are
  still to be read in this round, which is the strengthening.
* `LoopLeftOnTime` (`OnTime`): while nobody sets the clock, the elapsed time is bounded by
  the bound at the last comparison plus what may pass since.

Assumptions are those the modules name: `ConstantsAssumption`, `ValuesAssumption`,
`ThrewAssumption`, `ServiceAssumption`, `NoneAssumption` (the value for "no request" is not a request),
`ProgramsAssumption`, `OldProgramsAssumption`, `AddTwoIntsAssumption`, `PowersAssumption`,
`OldClientsAssumption`, `PubSubAssumption`, `SubscribeAssumption`, which TLC evaluates in its runs, and the
conditions stated in the theorems themselves.

Every invariant that a passing run checks is thus proved, and so are the four refinements
by `MyExecutor`, `Lifetime`, `OldNode` and `MyParameterService`, for those specifications
whose exceptions end the process where the theorem says so (`executor_catch` checks the
others on its instance).

Only model-checked is what must happen in the end, which TLAPS does not reach:
`NoEntityStarves`, `WatchedServed`, `NewestReceived`, `EveryFateDecided`, `CallReturns`,
`AnsweredPromptly`, `LoopEnds`, that `LeavingReleasesAll` and `OnlyKnownLeaks` reach the end
of the process, and that the loop of `ParameterProgram` has the fairness that
`MyParameterService` assumes (`ImplementsHandlers`; that its steps are steps of the
handlers is `ProgramStepIsStep`). Which of the typed getters throws for which value
(`BoolReadAsBool`) needs no proof: the run refutes it.

## 5. What is not modelled

* The bodies of `publish` and of the handlers' output in `old/`: they keep no state.
  The exceptions of the earlier `service` loop end its process, as `Crash` does.
* Array fields of parameter values: no getter reads them.
* The contents of descriptors: `describe_parameters` returns none.
* Guard conditions, timers, events: the executor has lists for them that nothing
  fills.
* Log output, names, types of messages, type support.
* Memory of `rcl_context_t` and of the init options, which is never freed; it ends
  with the process.
* The sleep of 100 ms between two spins: time is abstracted to "eventually".

## 6. Plan

Every component of the repository is modelled. What could be added:

1. A composition of `MyExecutor` with a program whose callbacks publish or request.
2. The safety part of `ImplementsHandlers` as a theorem of its own.
