--------------------------- MODULE StreamSelect ---------------------------
(***************************************************************************)
(* ngx_stream_lua_select_module.c: ngx.select() for the cosockets of one   *)
(* stream request. A light thread that calls select yields with a context, *)
(* a Lua userdata that holds the socket[] array, a timer and the posted    *)
(* completion event. The event handlers reach it only through the single   *)
(* module-context slot of the request.                                     *)
(***************************************************************************)
EXTENDS Cosockets

CONSTANTS
  Selectors,    \* the threads whose Lua code calls select
  Calls,        \* the calls they make, see BadArgs and BadEntry
  MaxRefs       \* bound: no select call starts with more registry references

EntryKinds == {"index", "mode", "other"}

ASSUME SelectConstants ==
  /\ Selectors \subseteq Threads
  /\ MaxRefs \in Nat
  /\ \A c \in Calls :
       /\ c.n \in Nat
       /\ c.timeout \in Int
       /\ c.table \in Seq([kind : EntryKinds, sock : Socks \cup {None},
                           chars : SUBSET Dirs])

VARIABLES
  result,       \* what the last select call of a thread returned
  slot,         \* the thread whose context is the request's module context
  socket,       \* ctx->socket[], with the saved read handler of each entry
  armed,        \* ctx->timer.timer_set
  timedout,     \* ctx->timer.timedout
  posted,       \* ctx->post_completion_ev is in ngx_posted_events
  stray,        \* queued completion events of contexts that have been replaced
  refs,         \* registry references the module holds, to contexts and sockets
  referenced    \* the threads whose last yielded context is among what they refer to

event   == <<posted, stray>>
context == <<slot, socket, armed, timedout, refs, referenced, event>>
vars    == <<pc, waits, sstate, data, buf, eof, active, edge, ready, unsent, hdlr, worker,
             result, slot, socket, armed, timedout, posted, stray, refs, referenced>>

\* The worker dies: by a NULL context in select, in an event handler, in the posted
\* handler or in a clean-up, by the assertion on the saved handler, or by reading a
\* context that the collector has freed.
Crashes == {"segv_select", "segv_event", "segv_posted", "segv_cleanup",
            "assert_prev_read", "use_after_free"}

Die(how) == worker' = how /\ UNCHANGED <<pc, waits, conn, kernel, hdlr, result, context>>

---------------------------------------------------------------------------
(***************************************************************************)
(* The arguments. A call is a record: n arguments, istable for the first,  *)
(* tkind ("number", "nil" or "other") and timeout for the second, and      *)
(* table, the entries in the order lua_next yields them. An entry of kind  *)
(* "index" is { socket }, of kind "mode" { [socket] = chars }; sock is     *)
(* None when what stands there carries no upstream userdata.               *)
(***************************************************************************)
BadArgs(c) ==
  \/ c.n = 0
  \/ c.n > 2
  \/ ~c.istable
  \/ c.n = 2 /\ c.tkind \notin {"number", "nil"}
  \/ c.n = 2 /\ c.tkind = "number" /\ c.timeout < 0

Timeout(c) == IF c.n = 2 /\ c.tkind = "number" THEN c.timeout ELSE 0

Readwrite(e) == IF e.kind = "index" THEN {"r"} ELSE e.chars

\* Output the request's connection still buffers.
Buffered(s) == s = Client /\ unsent

\* Mutant: the test for a receive in progress is missing.
BusyWriting(s, rw) == "w" \in rw /\ (Waiting(<<s, "w">>) \/ Buffered(s))

Busy(s, rw) ==
  \/ "r" \in rw /\ Waiting(<<s, "r">>)
  \/ "w" \in rw /\ (Waiting(<<s, "w">>) \/ Buffered(s))

BadEntry(e) ==
  \/ e.kind = "other"
  \/ Readwrite(e) = {}
  \/ e.sock = None
  \/ sstate[e.sock] # "open"
  \/ Busy(e.sock, Readwrite(e))

Bad(c) == {i \in DOMAIN c.table : BadEntry(c.table[i])}

(***************************************************************************)
(* select_fail_cleanup after n entries were taken: the context's reference *)
(* goes, those to the n sockets stay, and their events are deleted.        *)
(***************************************************************************)
select_fail_cleanup(c, n) ==
  /\ refs' = refs + n
  /\ active' = [e \in Ends |->
                  /\ active[e]
                  /\ ~\E i \in 1 .. n : /\ c.table[i].sock = e[1]
                                        /\ e[2] \in Readwrite(c.table[i])]

Raise(t) == result' = [result EXCEPT ![t] = [kind |-> "error", mode |-> Nothing]]

---------------------------------------------------------------------------
(***************************************************************************)
(* The handlers. Each entry saves the read handler it finds, so an entry   *)
(* that repeats a socket saves the select handler; the downstream entries  *)
(* share the context's one prev_request_read_handler. The write handlers   *)
(* are replaced as well, but nothing reads the copies saved of them.       *)
(***************************************************************************)
Reads(c, s) == {i \in DOMAIN c.table :
                  c.table[i].sock = s /\ "r" \in Readwrite(c.table[i])}

SavedBy(c, i) ==
  LET s == c.table[i].sock
  IN  IF \E j \in Reads(c, s) : j < i THEN "select" ELSE hdlr[<<s, "r">>]

\* Mutant: the handler is saved after it was replaced.
SavedLate(c, i) == "select"

Saved(c, i) ==
  LET s  == c.table[i].sock
      by == IF ngx_lua_select_get_socket_type(s) = "TCP_DOWNSTREAM"
            THEN Reads(c, s) ELSE Reads(c, s) \cap {i}
  IN  IF by = {} THEN None ELSE SavedBy(c, Last(by))

NewSockets(c) ==
  [i \in 1 .. Len(c.table) |->
     [sock |-> c.table[i].sock, rw |-> Readwrite(c.table[i]), prev |-> Saved(c, i)]]

Asks(list, e) == \E i \in DOMAIN list : list[i].sock = e[1] /\ e[2] \in list[i].rw

\* Mutant: the request's own connection keeps its handlers.
InstalledUpstream(c) ==
  [e \in Ends |-> IF e[1] # Client /\ Asks(NewSockets(c), e) THEN "select" ELSE hdlr[e]]

Installed(c) ==
  [e \in Ends |-> IF Asks(NewSockets(c), e) THEN "select" ELSE hdlr[e]]

(***************************************************************************)
(* ngx_stream_lua_select_ctx_cleanup_and_discard works on whatever context *)
(* the slot holds. It restores the read handlers only, entry by entry, and *)
(* asserts that each was saved. A posted event stays in its queue.         *)
(***************************************************************************)
Entries(s) == {i \in DOMAIN socket[slot] : socket[slot][i].sock = s}

\* Mutant: no handler is restored.
RestoresNothing == hdlr

Restored ==
  [e \in Ends |->
     IF e[2] = "r" /\ Entries(e[1]) # {}
     THEN socket[slot][Last(Entries(e[1]))].prev ELSE hdlr[e]]

\* Mutant: a build without assertions.
AssertsOff == TRUE

PrevSaved == \A i \in DOMAIN socket[slot] : socket[slot][i].prev # None

Discardable == slot # None /\ PrevSaved

\* Mutants: the slot keeps the context, the timer keeps running, the context is
\* released twice.
discard_keeps_ctx(leaked) ==
  /\ armed' = [armed EXCEPT ![slot] = FALSE]
  /\ hdlr' = Restored
  /\ refs' = (refs + leaked) - (Len(socket[slot]) + 1)
  /\ referenced' = referenced \ {slot}
  /\ UNCHANGED <<slot, socket, timedout>>

discard_keeps_timer(leaked) ==
  /\ hdlr' = Restored
  /\ refs' = (refs + leaked) - (Len(socket[slot]) + 1)
  /\ referenced' = referenced \ {slot}
  /\ slot' = None
  /\ UNCHANGED <<armed, socket, timedout>>

discard_unrefs_twice(leaked) ==
  /\ armed' = [armed EXCEPT ![slot] = FALSE]
  /\ hdlr' = Restored
  /\ refs' = (refs + leaked) - (Len(socket[slot]) + 2)
  /\ referenced' = referenced \ {slot}
  /\ slot' = None
  /\ UNCHANGED <<socket, timedout>>

ctx_cleanup_and_discard(leaked) ==
  /\ armed' = [armed EXCEPT ![slot] = FALSE]
  /\ hdlr' = Restored
  /\ refs' = (refs + leaked) - (Len(socket[slot]) + 1)
  /\ referenced' = referenced \ {slot}
  /\ slot' = None
  /\ UNCHANGED <<socket, timedout>>

DiscardDies(how) ==
  \/ slot = None /\ Die(how)
  \/ slot # None /\ ~PrevSaved /\ Die("assert_prev_read")

---------------------------------------------------------------------------
(***************************************************************************)
(* lua_select_module_select, called by the running thread t.               *)
(***************************************************************************)
Calling(t, c) == Running(t) /\ t \in Selectors /\ c \in Calls /\ refs <= MaxRefs

SelectBadArgs(t, c) ==
  /\ Calling(t, c)
  /\ BadArgs(c)
  /\ Raise(t)
  /\ UNCHANGED <<cosockets, context>>

SelectBadEntry(t, c) ==
  /\ Calling(t, c) /\ ~BadArgs(c)
  /\ \E i \in Bad(c) : (\A j \in Bad(c) : i <= j) /\ select_fail_cleanup(c, i - 1)
  /\ Raise(t)
  /\ UNCHANGED <<pc, waits, sstate, ready, unsent, kernel, hdlr, worker,
                 slot, socket, armed, timedout, referenced, event>>

Valid(t, c) == Calling(t, c) /\ ~BadArgs(c) /\ Bad(c) = {}

SelectIoctlError(t, c) ==
  /\ Valid(t, c)
  /\ "ioctl" \in Does /\ c.table # << >>
  /\ select_fail_cleanup(c, Len(c.table))
  /\ Raise(t)
  /\ UNCHANGED <<pc, waits, sstate, ready, unsent, kernel, hdlr, worker,
                 slot, socket, armed, timedout, referenced, event>>

\* Mutant: the FIONREAD test is missing.
NoBytesWaiting(c) == {}

BytesWaiting(c) == ngx_lua_select_sockets_ready(c.table, data)

(***************************************************************************)
(* Bytes already wait: the result is built at once, from ready bits that   *)
(* nobody has initialised but for those the test has just set. The new     *)
(* context is not in the slot yet, so the clean-up meets another thread's  *)
(* context or none; the new one keeps its references.                      *)
(***************************************************************************)
SelectAlreadyReady(t, c) ==
  /\ Valid(t, c)
  /\ BytesWaiting(c) # {}
  /\ \/ DiscardDies("segv_select")
     \/ /\ Discardable
        /\ \E up \in [DOMAIN c.table -> SUBSET Dirs] :
             /\ \A i \in BytesWaiting(c) : "r" \in up[i]
             /\ result' = [result EXCEPT ![t] =
                             ngx_lua_select_push_result(c.table, up, FALSE)]
        /\ ctx_cleanup_and_discard(Len(c.table) + 1)
        /\ UNCHANGED <<pc, waits, conn, kernel, worker, event>>

\* ngx_stream_lua_set_ctx, and its mutant: the call is missing.
keep_ctx(t) == slot' = slot

set_ctx(t) == slot' = t

(***************************************************************************)
(* No bytes wait: install the handlers, arm the timer, fill the slot and   *)
(* yield. The slot may hold the context of another thread.                 *)
(***************************************************************************)
SelectYield(t, c) ==
  /\ Valid(t, c)
  /\ BytesWaiting(c) = {}
  /\ socket' = [socket EXCEPT ![t] = NewSockets(c)]
  /\ hdlr' = Installed(c)
  /\ armed' = [armed EXCEPT ![t] = Timeout(c) > 0]
  /\ timedout' = [timedout EXCEPT ![t] = FALSE]
  /\ posted' = [posted EXCEPT ![t] = FALSE]
  /\ stray' = IF posted[t] THEN stray + 1 ELSE stray
  /\ set_ctx(t)
  /\ refs' = refs + Len(c.table) + 1
  /\ referenced' = referenced \cup {t}
  /\ pc' = [pc EXCEPT ![t] = "select"]
  /\ result' = [result EXCEPT ![t] = [kind |-> "none", mode |-> Nothing]]
  /\ UNCHANGED <<waits, conn, kernel, worker>>

Select(t, c) ==
  \/ SelectBadArgs(t, c)
  \/ SelectBadEntry(t, c)
  \/ SelectIoctlError(t, c)
  \/ SelectAlreadyReady(t, c)
  \/ SelectYield(t, c)

---------------------------------------------------------------------------
(***************************************************************************)
(* The five event handlers do the same: queue the completion event of the  *)
(* context in the slot, unless it is queued.                               *)
(***************************************************************************)
\* Mutant: each socket event queues a completion event of its own.
socket_event_queues_again ==
  \/ /\ slot # None
     /\ posted' = [posted EXCEPT ![slot] = TRUE]
     /\ stray' = IF posted[slot] THEN stray + 1 ELSE stray
     /\ UNCHANGED worker
  \/ /\ slot = None
     /\ worker' = "segv_event"
     /\ UNCHANGED event

socket_event_activated ==
  \/ /\ slot # None
     /\ posted' = [posted EXCEPT ![slot] = TRUE]
     /\ UNCHANGED <<stray, worker>>
  \/ /\ slot = None
     /\ worker' = "segv_event"
     /\ UNCHANGED event

SelectEvent(e) ==
  /\ Report(e)
  /\ hdlr[e] = "select"
  /\ socket_event_activated
  /\ UNCHANGED <<pc, waits, unsent, hdlr, result, slot, socket, armed, timedout, refs,
                 referenced>>

\* Mutant: the expired timer queues the event only if a socket is ready.
timeout_handler_looks(t) ==
  /\ EventLoop
  /\ armed[t]
  /\ armed' = [armed EXCEPT ![t] = FALSE]
  /\ timedout' = [timedout EXCEPT ![t] = TRUE]
  /\ IF \E e \in Ends : Asks(socket[t], e) /\ ready[e]
     THEN socket_event_activated ELSE UNCHANGED <<event, worker>>
  /\ UNCHANGED <<pc, waits, conn, kernel, hdlr, result, slot, socket, refs, referenced>>

\* ngx_event_expire_timers clears timer_set, sets timedout and calls the handler.
timeout_handler(t) ==
  /\ EventLoop
  /\ armed[t]
  /\ armed' = [armed EXCEPT ![t] = FALSE]
  /\ timedout' = [timedout EXCEPT ![t] = TRUE]
  /\ socket_event_activated
  /\ UNCHANGED <<pc, waits, conn, kernel, hdlr, result, slot, socket, refs, referenced>>

(***************************************************************************)
(* Completion. The ready flags are read when the posted event runs; those  *)
(* of a socket closed meanwhile are read from a connection structure that  *)
(* is free or serves somebody else.                                        *)
(***************************************************************************)
ReadyNow(s) == {d \in Dirs : ready[<<s, d>>]}

\* Mutants: the flags are not masked with the directions asked for, the last entry is
\* not looked at.
FlagsUnmasked(up) ==
  \A i \in DOMAIN socket[slot] : up[i] = ReadyNow(socket[slot][i].sock)

FlagsButLast(up) ==
  \A i \in DOMAIN socket[slot] :
    up[i] = IF i = Len(socket[slot]) THEN {}
            ELSE socket[slot][i].rw \cap ReadyNow(socket[slot][i].sock)

Flags(up) ==
  \A i \in DOMAIN socket[slot] :
    LET s == socket[slot][i]
    IN  /\ up[i] \subseteq s.rw
        /\ sstate[s.sock] # "closed" => up[i] = s.rw \cap ReadyNow(s.sock)

ngx_stream_lua_select_resume ==
  /\ \E up \in [DOMAIN socket[slot] -> SUBSET Dirs] :
       /\ Flags(up)
       /\ result' = [result EXCEPT ![slot] =
                       ngx_lua_select_push_result(socket[slot], up, timedout[slot])]
  /\ ctx_cleanup_and_discard(0)
  /\ pc' = [pc EXCEPT ![slot] = "lua"]
  /\ UNCHANGED <<waits, conn, kernel, worker>>

\* Which entry of the queue runs is immaterial: each carries only the request.
Dequeue ==
  \/ \E t \in Threads : posted[t] /\ posted' = [posted EXCEPT ![t] = FALSE]
                                  /\ UNCHANGED stray
  \/ stray > 0 /\ stray' = stray - 1 /\ UNCHANGED posted

Queued == stray > 0 \/ \E t \in Threads : posted[t]

post_completion_handler ==
  /\ EventLoop
  /\ Queued
  /\ \/ DiscardDies("segv_posted")
     \/ Discardable /\ Dequeue /\ ngx_stream_lua_select_resume

\* The collector has reclaimed a context that the registry no longer refers to and
\* whose event is still queued.
FreedEvent ==
  /\ EventLoop
  /\ stray > 0 \/ \E t \in Threads : posted[t] /\ t \notin referenced
  /\ Die("use_after_free")

---------------------------------------------------------------------------
(***************************************************************************)
(* coctx->cleanup of a thread in select, when the thread is killed or the  *)
(* request finalised: it discards the context in the slot.                 *)
(***************************************************************************)
Selecting == {t \in Threads : pc[t] = "select"}

KillSelecting(t, u) ==
  /\ "kill" \in Does
  /\ Running(t) /\ u \in Selecting
  /\ \/ DiscardDies("segv_cleanup")
     \/ /\ Discardable
        /\ ctx_cleanup_and_discard(0)
        /\ pc' = [pc EXCEPT ![u] = "dead"]
        /\ UNCHANGED <<waits, conn, kernel, result, event, worker>>

FinalizeIdle ==
  /\ Selecting = {}
  /\ Finalize
  /\ UNCHANGED <<hdlr, worker, result, context>>

Abort ==
  /\ "abort" \in Does
  /\ worker = "up" /\ \E t \in Threads : pc[t] # "dead"
  /\ \/ FinalizeIdle
     \/ Selecting # {} /\ DiscardDies("segv_cleanup")
     \/ /\ \E t \in Threads : Selecting = {t}
        /\ Discardable
        /\ ctx_cleanup_and_discard(0)
        /\ Finalize
        /\ UNCHANGED <<worker, result, event>>
     \/ \* the clean-up of the second thread finds the slot empty
        /\ \E t, u \in Selecting : t # u
        /\ Discardable
        /\ Die("segv_cleanup")

\* The Lua function of a thread returns; the request ends with its last thread.
Exit(t) ==
  /\ Running(t)
  /\ \/ /\ \E u \in Threads \ {t} : pc[u] # "dead"
        /\ pc' = [pc EXCEPT ![t] = "dead"]
        /\ UNCHANGED <<waits, conn, kernel, hdlr, worker, result, context>>
     \/ /\ \A u \in Threads \ {t} : pc[u] = "dead"
        /\ FinalizeIdle

---------------------------------------------------------------------------
Init ==
  /\ CosocketsInit
  /\ result = [t \in Threads |-> [kind |-> "none", mode |-> Nothing]]
  /\ slot = None
  /\ socket = [t \in Threads |-> << >>]
  /\ armed = [t \in Threads |-> FALSE]
  /\ timedout = [t \in Threads |-> FALSE]
  /\ posted = [t \in Threads |-> FALSE]
  /\ stray = 0
  /\ refs = 0
  /\ referenced = {}

Next ==
  \/ \E t \in Threads, c \in Calls : Select(t, c)
  \/ \E e \in Ends : SelectEvent(e)
  \/ \E t \in Threads : timeout_handler(t)
  \/ post_completion_handler
  \/ FreedEvent
  \/ \E t, u \in Threads : KillSelecting(t, u)
  \/ Abort
  \/ \E t \in Threads : Exit(t)
  \/ CosocketsNext /\ UNCHANGED <<result, context>>

Spec == Init /\ [][Next]_vars

(***************************************************************************)
(* Lua code yields or ends at last, and every turn of the event loop       *)
(* reports the pending edges, then the expired timers, then runs the       *)
(* posted events, however often Lua code runs in between.                  *)
(***************************************************************************)
Yields(t) ==
  \/ Sleep(t) /\ UNCHANGED <<result, context>>
  \/ \E c \in Calls : SelectYield(t, c)
  \/ Exit(t)

Fairness ==
  /\ \A t \in Threads : WF_vars(Yields(t)) /\ SF_vars(timeout_handler(t))
  /\ \A e \in Ends : SF_vars(SelectEvent(e))
  /\ SF_vars(post_completion_handler)

FairSpec == Spec /\ Fairness
===========================================================================
