------------------------- MODULE SelectProperties -------------------------
(***************************************************************************)
(* What the select module has to guarantee, stated over StreamSelect.      *)
(***************************************************************************)
EXTENDS StreamSelect

SocketEntry == [sock : Socks, rw : SUBSET Dirs, prev : Handlers \cup {None}]

\* Every variable of the worker, the cosockets and the contexts has its type; in
\* particular no call leaves a NULL event handler behind.
TypeOK ==
  /\ CosocketsTypeOK
  /\ worker \in Crashes \cup {"up"}
  /\ result \in [Threads -> Results]
  /\ slot \in Threads \cup {None}
  /\ socket \in [Threads -> Seq(SocketEntry)]
  /\ armed \in [Threads -> BOOLEAN]
  /\ timedout \in [Threads -> BOOLEAN]
  /\ posted \in [Threads -> BOOLEAN]
  /\ stray \in Nat
  /\ refs \in Int
  /\ referenced \subseteq Threads

\* The context that a completion would resume belongs to a thread that is yielded in
\* select: ngx_stream_lua_select_resume never runs a thread that runs or is dead.
SlotWaits == slot # None => pc[slot] = "select"

\* A socket whose read handler is one of select's is being waited for: the context in
\* the slot asks for it. Otherwise ngx_stream_lua_select_socket_event_activated would
\* meet no context, or wake a call that has nothing to do with the socket.
HandlersLive ==
  \A s \in Socks : hdlr[<<s, "r">>] = "select"
                    => slot # None /\ Asks(socket[slot], <<s, "r">>)

\* A running timer belongs to the context in the slot: ngx_stream_lua_select_timeout_handler
\* never wakes another call, and never runs when there is none.
TimersLive == \A t \in Threads : armed[t] => slot = t

\* A queued completion event belongs to the context in the slot: what
\* ngx_stream_lua_select_post_completion_handler resumes is the call that was woken.
EventsLive == stray = 0 /\ \A t \in Threads : posted[t] => slot = t

\* A thread that waits in select is the one that the next completion resumes.
NobodyStranded == \A t \in Threads : pc[t] = "select" => slot = t

\* Bytes that wait on a socket selected for reading, whose event is registered, are on
\* their way to the thread: its completion is queued, or the kernel is still to report
\* them, and to a handler of select. The FIONREAD test and the handlers installed after
\* it leave no gap. Of an event that a refused call has deleted (select_fail_cleanup)
\* nothing is said here: see SelectedAreActive.
NoLostWakeup ==
  \A t \in Threads, s \in Socks :
    /\ worker = "up" /\ pc[t] = "select"
    /\ Asks(socket[t], <<s, "r">>) /\ data[s] /\ active[<<s, "r">>]
    => posted[t] \/ (edge[<<s, "r">>] /\ hdlr[<<s, "r">>] = "select")

\* select never takes the event handler from a receive or send of another thread.
OpsKeepHandlers == \A t \in Threads : waits[t] # None => hdlr[waits[t]] = "op"

\* The event of a receive or send in progress stays registered with the kernel, so it is
\* woken: a call of another thread that is refused half-way deletes the events of the
\* entries it has taken (select_fail_cleanup), which must not be those of a busy socket.
BlockedOpsStayRegistered == \A t \in Threads : waits[t] # None => active[waits[t]]

\* The registry still holds every reference that discarding the context in the slot
\* will give back: no clean-up releases a reference twice.
NoDoubleUnref == refs >= IF slot = None THEN 0 ELSE Len(socket[slot]) + 1

\* The thread was told of no bytes that still wait: when a call returns "timeout" the
\* kernel has not reported them, so no edge was spent on a call that did not list them.
SwallowsNothing ==
  \A t \in Threads, s \in Socks :
    /\ pc[t] = "select" /\ pc'[t] = "lua" /\ result'[t].kind = "timeout"
    /\ Asks(socket[t], <<s, "r">>) /\ data[s]
    => edge'[<<s, "r">>]

TimeoutSwallowsNothing == [][SwallowsNothing]_vars

\* A thread that leaves select gives back the references its own call took: completed,
\* killed and aborted calls leak none and release nobody else's.
ReleasesOwn ==
  \A t \in Threads :
    pc[t] = "select" /\ pc'[t] # "select" => refs' = refs - (Len(socket[t]) + 1)

ReleasesOwnRefs == [][ReleasesOwn]_vars

\* The worker survives everything but the early return for bytes that already wait,
\* lua_select_module_select's own clean-up: no event, completion or clean-up of a call
\* meets a missing or freed context, or an entry without a saved handler.
DiesOnlyOnWaitingBytes == worker \in {"up", "segv_select"}

(***************************************************************************)
(* select as its callers see it. A call waits from the yield until the     *)
(* thread runs again; it has a time limit while its timer runs and when    *)
(* the timer has expired.                                                  *)
(***************************************************************************)
Listed(r) == [kind |-> r.kind, ends |-> {e \in Ends : e[2] \in r.mode[e[1]]}]

apiWaiting == [t \in Threads |-> pc[t] = "select"]
apiAsked   == [t \in Threads |-> IF pc[t] = "select"
                                 THEN {e \in Ends : Asks(socket[t], e)} ELSE {}]
apiTimed   == [t \in Threads |-> pc[t] = "select" /\ (armed[t] \/ timedout[t])]
apiUp      == {e \in Ends : ready[e]}
apiAnswer  == [t \in Threads |-> Listed(result[t])]
apiAlive   == worker = "up"

API == INSTANCE SelectAPI WITH
  waiting <- apiWaiting, asked <- apiAsked, timed <- apiTimed,
  up <- apiUp, answer <- apiAnswer, alive <- apiAlive

\* The module implements SelectAPI: a completed call lists exactly the asked directions
\* that are ready, and at least one; "timeout" means that there was a time limit and
\* none is ready; a refused call disturbs nobody.
ImplementsAPI == API!Spec

\* A select with a time limit returns, even if other threads receive from its sockets
\* and take their handlers over, or close them.
TimedReturns == API!TimedReturns

\* Another thread has taken a handler over or closed a socket.
Disturbed(t) ==
  \E s \in Socks : /\ Asks(socket[t], <<s, "r">>)
                   /\ hdlr[<<s, "r">>] # "select" \/ sstate[s] # "open"

\* Bytes that wait on a socket selected for reading, whose event is registered, bring
\* the thread back, unless another thread has disturbed the call or takes the bytes.
BytesReturn ==
  \A t \in Threads, s \in Socks :
    (/\ pc[t] = "select" /\ ~Disturbed(t)
     /\ Asks(socket[t], <<s, "r">>) /\ data[s] /\ active[<<s, "r">>])
      ~> (pc[t] # "select" \/ Disturbed(t) \/ ~data[s] \/ worker # "up")

---------------------------------------------------------------------------
(***************************************************************************)
(* What the documentation, the comments and the assertions say, and the    *)
(* code does not do.                                                       *)
(***************************************************************************)
\* README.md:11. A call with bytes already waiting returns them; the clean-up of
\* lua_select_module_select must not meet an empty slot.
ReadyCallsReturn == worker # "segv_select"

\* ngx_stream_lua_select_module.c:424 and :431. Each entry has a saved read handler
\* when its context is discarded.
PrevHandlerSaved == worker # "assert_prev_read"

\* ngx_stream_lua_select_module.c:429, "restore request handler if needed". An event
\* handler of select never runs without a context.
EventFindsContext == worker # "segv_event"

\* ngx_stream_lua_select_module.c:327. The posted completion finds the context of its
\* request.
PostedFindsContext == worker # "segv_posted"

\* README.md:11. A select returns while a direction it asks for is ready: the socket is
\* writable, or holds bytes in the kernel or in OpenResty's buffer, or is at its end.
IsReady(e) ==
  IF e[2] = "w" THEN ready[e] ELSE data[e[1]] \/ buf[e[1]] \/ eof[e[1]]

ReadyReturns ==
  \A t \in Threads, e \in Ends :
    (pc[t] = "select" /\ Asks(socket[t], e) /\ IsReady(e))
      ~> (pc[t] # "select" \/ worker # "up")

\* README.md:11 and the comment at ngx_stream_lua_select_module.c:40. The events of the
\* sockets a thread waits for are registered with the kernel.
SelectedAreActive ==
  \A t \in Threads, e \in Ends :
    pc[t] = "select" /\ Asks(socket[t], e) /\ sstate[e[1]] = "open" => active[e]
===========================================================================
