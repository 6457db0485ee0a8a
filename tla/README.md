# TLA+ verification of ngx_lua_select_module

`ngx_lua_select_module` adds `ngx.select({sockets}, [timeout])` to OpenResty's
stream Lua module: a light thread waits until one of several cosockets is ready
or a timeout has passed. This directory models that module, checks the models
with TLC and proves theorems about them with TLAPS. File references are to
`src/src/`; "stream.c" is `ngx_stream_lua_select_module.c`.

## The system

| Part | State | Operations |
| --- | --- | --- |
| Select call (stream.c 17-289) | the context: `socket[]`, saved handlers, timer, completion event, registry references | argument and entry checks, FIONREAD test, handler installation, yield, failure clean-up |
| Events and completion (stream.c 291-404) | the request's single module-context slot, the posted event | five event handlers that queue one completion event; the posted handler, which reads the ready flags, builds the result and resumes the thread |
| Clean-up (stream.c 406-455) | handlers, timer, references, slot | discards the context in the slot, on completion, on the early return, on `ngx.thread.kill` and at the end of the request |
| Shared library (`ngx_lua_select.c`, `.h`) | none of its own | socket type, FIONREAD test, returned table |
| Debug functions (`ngx_lua_select.c` 85-281) | the Lua stacks of the dumped and the described threads | `luaS_dbgval`, `luaS_printstack_named` |
| OpenResty and nginx (external) | light threads, cosockets, event registrations, ready flags, handlers | receive, send, close, sleep, kill, finalise; edges, timers, posted events |
| Registration, HTTP skeleton, test harness, build files | - | not modelled, see below |

The parts meet in three places: the per-request slot
(`ngx_stream_lua_set_ctx`), the read and write event handlers, which select
replaces and later restores, and the registry references that keep a context
(a Lua userdata) alive. One worker thread runs everything, so the hard
behaviour is not parallelism but order: what another light thread, the peer,
the kernel or a timer does between the FIONREAD test, the yield, the event,
the posted completion and the clean-up; a thread killed in between; a table
refused after some of its entries were taken; several selects that share one
slot. `PROJECT.json` lists these hazards line by line.

What makes each part correct:

- select call: it loses no wake-up, takes no handler away from another
  operation, and a refusal leaves nothing behind;
- completion: it resumes the thread that was woken, which is yielded in select,
  and returns what was asked for;
- clean-up: handlers, timer and queued event go with the context, and no
  reference is released twice;
- debug functions: a dump put into the middle of other code leaves every Lua
  stack as it was and pushes no more than it has made room for.

## Modules

| Module | Models |
| --- | --- |
| `NgxLuaSelect` | `ngx_lua_select.h/.c`: directions, socket type, FIONREAD test, returned table |
| `Cosockets` | external: threads (`pc`, `waits`), sockets (`sstate`, `data`, `buf`, `eof`), events (`active`, `edge`, `ready`), `unsent`, `hdlr`, `worker` |
| `StreamSelect` | stream.c: `slot`, and per thread `socket`, `armed`, `timedout`, `posted`, `result`; `stray`, `refs`, `referenced` |
| `SelectAPI` | abstract: what select promises its callers, without contexts, handlers, timers or events |
| `SelectProperties` | the properties, and the refinement mapping to `SelectAPI` |
| `MCStreamSelect` | the calls and initial socket states of the runs |
| `LuaDebug`, `MCLuaDebug` | the stack discipline of the debug functions |
| `StreamSelectProofs`, `SingleSelectProofs`, `HandlerProofs`, `RefinementProofs`, `CrashProofs` | the theorems; each extends the one before it |
| `ActionProofs` | theorems about single steps; extends `HandlerProofs` |
| `RegistrationProofs` | theorems about which events are registered; extends `ActionProofs` |
| `LuaDebugProofs` | the theorems about `LuaDebug` |

`StreamSelect` extends `Cosockets`, which extends `NgxLuaSelect`. An action is
one uninterrupted piece of C code. `Select` has an action for each way out of
`lua_select_module_select`: `SelectBadArgs`, `SelectBadEntry`,
`SelectIoctlError`, `SelectAlreadyReady`, `SelectYield`. `SelectEvent` and
`timeout_handler` are the five event handlers, `post_completion_handler` the
completion including `ngx_stream_lua_select_resume`, `KillSelecting` and `Abort`
the uses of `ngx_stream_lua_select_cleanup`, `Exit` the end of a Lua function.

Correspondence worth knowing:

- A context is named by its thread: a thread has at most one that matters.
  `slot` is the thread whose context is the request's module context. Completion
  events of contexts that a new call of the same thread has replaced are counted
  in `stray`.
- A handler is "idle" (OpenResty's own, nothing waits), "op" (a blocked receive
  or send) or "select". Only read handlers are saved in `socket[i].prev`,
  because stream.c never reads the saved write handlers.
- `refs` counts `luaL_ref` minus `luaL_unref`; `referenced` holds the threads whose
  context is kept alive by one of them. An event still queued for a context that is
  not may be read after the collector has freed it (`FreedEvent`).
- `unsent` is `r->connection->buffered`. A send on the client socket may leave
  output there, and the request's own write handler writes it out. It is not the
  opposite of the write-ready flag: a client that is not writable but has no
  buffered output may be selected for writing.
- Dereferencing a NULL or freed context and a failed `assert` set `worker` to
  the kind of crash, and nothing happens after that. The properties of the
  passing runs hold up to a crash; the crashes themselves are the subject of
  violation runs, of `DiesOnlyOnWaitingBytes` and of `CrashProofs`.
- `read_ready`/`write_ready` are uninitialised on the early return
  (stream.c:208): `SelectAlreadyReady` chooses them arbitrarily. So does
  completion for a socket closed under select, whose connection structure is
  no longer the socket's.
- A receive takes everything the kernel holds. If its caller wanted one line of
  several, the rest stays in OpenResty's buffer (`buf`), where FIONREAD does not
  see it.
- Events are edge-triggered, as with epoll: an edge is reported once, to the
  handler in place at that moment, and only if the event is registered. Edges of
  the two directions are reported separately. A receive that takes the bytes takes
  their edge too, unless it is already in the batch of events the loop works off:
  `Receive` allows both.

Data is abstract: unread bytes are a Boolean, a table is a sequence of entries in
`lua_next` order, a mode string is the set of its letters among `r` and `w`.

### The abstract specification

In `SelectAPI` a thread asks for some ends (a socket and a direction) and waits.
`Answer` returns exactly those of them that are ready, and there is at least
one; `Expire` returns "timeout", if the call has a time limit and nothing is
ready; `Refuse` raises an error and changes nothing else of the abstract state; `Cancel` ends a killed
thread. Readiness changes as the world likes, and the worker may stop. The
mapping reads `waiting` off `pc`, `asked` off the thread's `socket[]`, `timed` off
the timer (running or expired), `up` off the ready flags and `answer` off the
returned table. A completion that meets somebody else's context, an empty table
returned without a timeout, a timer that fires into another call: each is a step
`SelectAPI` does not have.

The mapping leaves out which events are registered: that a refused call deletes some
is the subject of `SelectedAreActive` and `BlockedOpsStayRegistered`.

The refinement needs a discipline of the Lua code. With two selecting threads the
slot is overwritten; with a socket shared while it is under select the answer can
be empty; with a killed thread a queued event hits the next call; a socket listed
twice leaves a handler behind; and after a call for "rw" the write handler stays
and wakes a later call for reading, which then returns an empty table. The `core`
run and the theorem `SelectImplementsAPI` have exactly this discipline.

### The debug functions

`LuaDebug` models a call of `dbgval` as the sequence of its stack operations, one
of those that the contents of `_G` and `package.loaded` allow (`Scans`: how far
`lua_next` gets), and `printstack_named` as the loop around it. A stack is a
sequence of types; what the functions push is "temp", and "piece" is text that
`luaL_Buffer` has moved to the stack. The assertion at the end of `dbgval` fails
when `_G` is on top of the stack, because :122 compares the top of the stack and
not the value described, and :125 pops it: `AbortsOnlyOnGlobals` says that this is
the only case.

## Runs

All runs but `luadebug` use `MCStreamSelect`. `Does` in the configuration lists
the optional behaviour of the environment. Deadlock is not checked: a request may
end, a worker may die, and a dump returns.

| Run | Instance | Shows |
| --- | --- | --- |
| `core` | one selecting thread and a helper, client and upstream socket in every initial state, read tables with and without timeout, every kind of refused call, FIONREAD failures, peers that close, Lua code that receives and closes | `SlotWaits`, `HandlersLive`, `TimersLive`, `EventsLive`, `NobodyStranded`, `NoLostWakeup`, `OpsKeepHandlers`; `ImplementsAPI`; `TimeoutSwallowsNothing`; `DiesOnlyOnWaitingBytes` |
| `wakes` | one selecting thread, the helper receives from and closes the very sockets under select, under `FairSpec` | `TimedReturns`, `BytesReturn` |
| `modes` | modes r, w, rw on the client socket, a table refused after both directions were taken, the helper reads and writes the socket under select, peers close, threads are killed, the request is cut short | `TypeOK`, `HandlersLive`, `TimersLive`, `BlockedOpsStayRegistered`, `ReleasesOwnRefs` |
| `many` | two selecting threads, repeated sockets, empty table, kill, abort | `SlotWaits`, `OpsKeepHandlers`, `NoDoubleUnref` |
| `luadebug` | every stack of up to three values of every type, a thread that may or may not call Lua | `StackRestored`, `SlotsReserved`, `AbortsOnlyOnGlobals` |

The violation runs show where the code departs from what README, comments or
assertions say; each has a finding in `PROJECT.json`.

| Run | What TLC finds |
| --- | --- |
| `already_ready` | bytes wait at the call: the early return discards through the slot, which is still empty |
| `write_only` | a write-only select completes and the assertion on the read handler fails |
| `ready_before` | a socket that is writable before the call, or at its end, or has bytes in OpenResty's buffer, gives no edge; the call waits for ever (fair behaviour) |
| `write_handler` | after an "rw" select the write handler stays; its next event finds no context |
| `two_selects` | the second select takes the slot; the first thread is never resumed |
| `kill_posted` | a thread is killed after its completion was queued; the handler finds no context |
| `refused_then_select` | a refused call deletes the events of the entries it took; the next select waits on an unregistered socket |

Bounds. Two threads are the smallest number in which one acts while another
waits, two sockets the smallest in which the client's and an upstream's handlers
differ, a table repeats a socket, and a refusal comes after an accepted entry.
Bytes and edges are Boolean, so they need no bound. `MaxRefs` is the only counter
bound: no call starts with more registry references. Only refused calls leak them
for good, so it limits how many of these a behaviour has: with 1 (`core`) a
refusal that leaks is followed by further calls, with 3 (`many`, `modes`) a call
with two entries is overlapped by another of any size, and several leaks precede
the next call. `wakes` has 0, which
is enough for calls that follow each other. In `luadebug`, `MaxHeight` 3 puts
values above and below the one described, `MaxMisses` 1 lets a table walk stop at
its first value, at a later one and at the end, and `MaxPieces` 1 lets text wait
on the stack.

Fairness (`FairSpec`). Lua code yields or returns at last (weak fairness of
`Yields`); each turn of `ngx_process_events_and_timers` reports pending edges,
expires timers and runs the posted events however often Lua code runs in between
(strong fairness of `SelectEvent`, `timeout_handler` and
`post_completion_handler`). Peers owe nothing: the liveness properties speak of
bytes that are there and timers that run or have expired. `BytesReturn` excuses a
call that another thread has disturbed, by closing a socket or by putting its own
handler in place of select's, and bytes that another thread takes, whose edge the
kernel then does not owe; `TimedReturns` excuses none.

`NoLostWakeup` and `BytesReturn` speak of sockets whose event is registered. The
refused calls of `core` delete events, and a later select on such a socket waits in
vain: `refused_then_select` shows it, and `RegistrationProofs` that, with one selecting
thread and unshared sockets, there is no other way to miss a byte.

## Proofs

For every set of threads, sockets and calls, from the two named assumptions on
the constants (`CosocketConstants`, `SelectConstants`):

- `TypeCorrect`: `Spec => []TypeOK`. The non-trivial part is that a clean-up
  restores real handlers: `RestoredType` needs the assertion on the saved ones
  and `LastIn`, the existence of the last entry of a socket, proved from the
  well-foundedness of `<`.
- `ResumesYieldedThread` (`SlotWaits`) and `RegistryNeverOverdrawn`
  (`NoDoubleUnref`), for any number of overlapping selects. The invariant
  `SlotInv` adds `Blocked`: a thread with a cosocket operation in progress is not
  in select, without which the wake-up of such an operation could appear to run
  the slot's thread.
- `OneSelectorIsResumed` (`NobodyStranded`) and `OneSelectorTimersLive`
  (`TimersLive`), if at most one thread of the request selects. `SoloInv` adds
  that only selectors are in select, so that a running selector meets an empty
  slot. `two_selects` shows that the hypothesis is needed.
- `OneSelectorEventsLive` (`EventsLive`) and `CompletionFindsContext`, if
  moreover nothing is killed or cut short; `kill_posted` shows why.
- `BlockedOpsKeepHandlers` (`OpsKeepHandlers`), for any number of overlapping
  selects, if nobody uses a socket while it is being read by select (`NoSharing`).
  `HandlerInv` adds that no two threads block on one direction (`OneWaiter`), that
  the sockets the slot's context reads have select's handler (`Held`), and that it
  saved handlers of such sockets only (`SavedIfRead`): so the clean-up never
  writes over the handler of a blocked operation.
- `WakeupsAreKept` (`NoLostWakeup`), with one selecting thread and `NoSharing`.
  At the yield FIONREAD has reported nothing, so later bytes bring an edge
  (`EdgeKept`); `Held` and `NobodyStranded` send it to select's handler, which
  queues the completion.
- `NoHandlerOutlivesItsCall` (`HandlersLive`), with one selecting thread whose
  tables list a socket once. Here sockets may be shared and threads killed.
  `SavedForeign`, that the live context saved no handler of select, is what the
  restoration needs and what a repeated socket breaks.
- `SelectImplementsAPI`: `Spec => ImplementsAPI`, under all of these hypotheses and
  for calls that only read (`Disciplined`). `RefInv` adds that no write handler is
  select's (`Reading`), that the sockets under select stay open (`Open`), and that
  a queued completion has a reason that lasts until it runs (`Woken`). Each action
  is then shown to be one action of `SelectAPI`: the yield is `Ask`, a refusal
  `Refuse`, the completion `Answer` or `Expire` (`CompletionLists` computes the
  table), a crash `Stop`, all else `World`.

- `OneSelectorReleasesOwnRefs`: `Spec => ReleasesOwnRefs`, an action property, with
  at most one selecting thread. `LeavingSelect` shows that a thread leaves select
  only through a step that discards the context in the slot, and `SoloInv` that
  this context is its own.
- `TimeoutsSwallowNothing`: `Spec => TimeoutSwallowsNothing`, for any number of
  selecting threads with `NoSharing`. `TellInv` adds that the kernel has reported
  the bytes it holds or will (`Told`), and that the sockets the slot's context
  reads are open (`OpenRead`): a completion then reads the flag of the socket
  itself, a set flag puts it in the table, and a clear one means that the edge is
  still to come.
- `RefusalsSpareBlockedOps` (`BlockedOpsStayRegistered`), without any hypothesis on
  the Lua code. The clean-up of a refused call deletes the events of sockets that
  are not its own; `TakenAreFree` shows that the entries it got to were found not
  busy, in the directions it deletes.
- `OnlyRefusalsUnregister`: `KeepingSpec => []SelectedAreActive`, where `KeepingSpec`
  are the behaviours in which no refused call deletes an event, again without any
  other hypothesis. So the deletion at stream.c:43 and :49 is the only cause of what
  `refused_then_select` finds. `Registered`, that every open socket of a live request
  is registered, needs that no dead thread comes back (`NobodyRevives`), because the
  end of the request deletes everything.
- `OnlyRefusalsLoseWakeups`: `KeepingSpec => []BytesArrive`, with one selecting thread
  and `NoSharing`. It is `NoLostWakeup` with the registration in the conclusion
  instead of the premise: bytes on a selected socket are behind a queued completion,
  or behind an edge of a registered event that meets select's handler. It joins
  `EdgeKept`, `Held`, `OpenRead` and `Registered`.
- `AssertionHoldsForReaders` (`PrevHandlerSaved`), for any overlapping selects,
  kills and shared sockets, if every entry reads its socket (`EntriesRead`).
  `SavedInv` adds that the context in the slot saved a handler for every entry.
  The run `write_only` shows the remaining case.
- `EventsFindContext` (`EventFindsContext`), with one selecting thread that only
  reads and lists a socket once, kills included. `QuietInv` joins `HandlersLive`
  with the absence of write handlers. The run `write_handler` shows what a call
  for "rw" does.
- `OnlyWaitingBytesKill` (`DiesOnlyOnWaitingBytes`): under that discipline, and if
  nothing is killed or cut short, one crash is left, the one of `already_ready`.
  Sockets may be shared while they are under select. It combines the two theorems
  above with `CompletionFindsContext` and `NoCleanupCrash`.

For every set of stacks, any number of values that a walk passes and any number
of pieces of text, from `LuaDebugConstants`:

- `DumpsRestoreStacks` (`StackRestored`), `DumpsStayWithinRoom` (`SlotsReserved`)
  and `DumpsAbortOnlyOnGlobals` (`AbortsOnlyOnGlobals`). What a sequence of
  operations does to a stack would be defined by recursion, out of the provers'
  reach; `LuaDebugProofs` has a witness instead. `Run(s, x, y)` says that a
  sequence of accounts (values pushed, room made, the same for the other thread)
  leads from `x` to `y` along the operations `s`, each a legal move: no push beyond
  the room, no pop of the caller's values. Runs compose (`RunsCompose`), so each
  description is shown to balance piece by piece, the walks with the explicit
  accounts of `RunMisses`; and they lose their first move when it is executed
  (`FirstMove`), which is how `DebugInv` is kept. It says that what `dbgval` has
  still to do returns the stacks to where they were (`Returning`), with the
  caller's values in place and none of them above (`Intact`); or that it has found
  `_G` on top of the caller's stack and pops it (`Popping`). `Intact` is why a
  value of `dbgval` is never taken for `_G`.

Only model-checked: liveness under fairness (`TimedReturns`, `BytesReturn`), which
is out of the prover's reach.

## Not modelled

- Module registration (stream.c 457-517): static tables and empty callbacks.
- UDP branches: unreachable, `ngx_lua_select_get_socket_type` returns TCP types
  only.
- The branch of `post_completion_handler` outside the content phase: it reaches
  the same `resume` through `ngx_stream_lua_core_run_phases`. Its return for a
  missing Lua context: nothing removes that context while a thread is in select.
- Missing request or coroutine context and failed allocation (stream.c 86-105):
  they raise before any state changes.
- `ngx_http_lua_select_module.c`: an empty skeleton.
- `module_sigstop` stops the process with a signal and changes no state. The text
  that the debug functions format, and what a `__tostring` metamethod might do.
- `dev/` and `config`: tests and build glue.
- The length of a timeout: an armed timer may expire at any time.

## Plan

Modelled and checked: every operation of the select module and of the debug
functions that changes state. Every invariant and action property of the passing
runs is also proved. `SelectedAreActive`, which a violation run disproves in general,
is proved for the behaviours in which it does hold. Left is the same for
`PostedFindsContext`, where the killed thread's completion is not queued.
