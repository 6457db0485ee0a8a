----------------------------- MODULE Cosockets -----------------------------
(***************************************************************************)
(* What the select module runs on and shares state with: the light threads *)
(* and cosockets of one ngx_stream_lua request, the kernel's edges and the *)
(* event loop of one nginx worker. None of it is code of this repository;  *)
(* it is modelled from the fields the select module reads and writes.      *)
(*                                                                         *)
(* Everything runs on the worker's only thread: either the Lua code of one *)
(* light thread runs (pc = "lua", streamctx->cur_co_ctx), or the event     *)
(* loop is between two callbacks.                                          *)
(***************************************************************************)
EXTENDS Integers, NgxLuaSelect

CONSTANTS
  Threads,      \* the light threads of the request
  Main,         \* the one that runs first
  Does,         \* optional behaviour of the Lua code, the peers and the kernel
  Setups,       \* the states the sockets may start in
  None          \* NULL, and no socket

Behaviours ==
  {"fin",       \* peers close their side
   "write",     \* the Lua code sends, the kernel signals writability again
   "close",     \* the Lua code closes sockets
   "share",     \* a thread uses a socket that another one is selecting
   "buffer",    \* a receive takes one message of several and buffers the rest
   "kill",      \* the Lua code kills light threads
   "abort",     \* the request may be finalised at any time
   "ioctl"}     \* FIONREAD may fail

SockStates == {"open", "connecting", "closed", "foreign"}
Handlers   == {"idle", "op", "select"}

ASSUME CosocketConstants ==
  /\ Main \in Threads
  /\ Client \in Socks
  /\ Does \subseteq Behaviours
  /\ Setups \subseteq [Socks -> SockStates]
  /\ None \notin Threads \cup Socks \cup Ends \cup Handlers

VARIABLES
  pc,           \* "lua" runs, "select" yielded in select, "io" yielded elsewhere, "dead"
  waits,        \* the socket direction a thread in "io" is blocked on, None for a sleep
  sstate,       \* whether the upstream structure is usable by this request
  data,         \* the kernel holds unread bytes
  buf,          \* u->buffer, OpenResty's own, holds unread bytes
  eof,          \* the peer has closed its side
  active,       \* c->read->active, c->write->active: registered with the kernel
  edge,         \* an edge the kernel has yet to report
  ready,        \* c->read->ready, c->write->ready
  unsent,       \* r->connection->buffered: output of the request not yet written
  hdlr,         \* read_event_handler, write_event_handler (the request's for Client)
  worker        \* "up", or what killed it

kernel  == <<data, buf, eof, edge>>
conn    == <<sstate, active, ready, unsent>>
cosockets == <<pc, waits, sstate, data, buf, eof, active, edge, ready, unsent, hdlr,
               worker>>

Running(t) == worker = "up" /\ pc[t] = "lua"
EventLoop  == worker = "up" /\ \A t \in Threads : pc[t] # "lua"

\* u->read_waiting, u->write_waiting: a light thread is blocked on this direction.
Waiting(e) == \E t \in Threads : waits[t] = e

CosocketsTypeOK ==
  /\ pc \in [Threads -> {"lua", "select", "io", "dead"}]
  /\ waits \in [Threads -> Ends \cup {None}]
  /\ sstate \in [Socks -> SockStates]
  /\ data \in [Socks -> BOOLEAN] /\ buf \in [Socks -> BOOLEAN]
  /\ eof \in [Socks -> BOOLEAN]
  /\ active \in [Ends -> BOOLEAN] /\ edge \in [Ends -> BOOLEAN]
  /\ ready \in [Ends -> BOOLEAN] /\ unsent \in BOOLEAN
  /\ hdlr \in [Ends -> Handlers]

CosocketsInit ==
  /\ pc = [t \in Threads |-> IF t = Main THEN "lua" ELSE "io"]
  /\ waits = [t \in Threads |-> None]
  /\ sstate \in Setups
  /\ data = [s \in Socks |-> FALSE]
  /\ buf = [s \in Socks |-> FALSE]
  /\ eof = [s \in Socks |-> FALSE]
  /\ active = [e \in Ends |-> sstate[e[1]] = "open"]
  /\ edge = [e \in Ends |-> FALSE]
  /\ ready = [e \in Ends |-> e[2] = "w"]
  /\ unsent = FALSE
  /\ hdlr = [e \in Ends |-> "idle"]
  /\ worker = "up"

---------------------------------------------------------------------------
(***************************************************************************)
(* The Lua code of the running thread.                                     *)
(***************************************************************************)
MayUse(t, s) ==
  /\ Running(t)
  /\ sstate[s] = "open"
  /\ "share" \in Does \/ hdlr[<<s, "r">>] # "select"

\* A receive is served from the buffer.
ReceiveBuffered(t, s) ==
  /\ MayUse(t, s)
  /\ buf[s] /\ ~Waiting(<<s, "r">>)
  /\ buf' = [buf EXCEPT ![s] = FALSE]
  /\ UNCHANGED <<pc, waits, conn, data, eof, edge, hdlr, worker>>

\* A read takes all the bytes, of which the caller may want only the first, and may
\* not notice that it did, meets the end of the stream, or finds nothing behind a
\* ready flag. The kernel does not report bytes that are gone, unless it has done so
\* in the batch of events that is being worked off.
Receive(t, s) ==
  /\ MayUse(t, s)
  /\ ready[<<s, "r">>] /\ ~buf[s] /\ ~Waiting(<<s, "r">>)
  /\ \/ /\ data[s]
        /\ data' = [data EXCEPT ![s] = FALSE]
        /\ \E b \in BOOLEAN : /\ b => "buffer" \in Does
                              /\ buf' = [buf EXCEPT ![s] = b]
        /\ \E b \in BOOLEAN : /\ eof[s] => b
                              /\ ready' = [ready EXCEPT ![<<s, "r">>] = b]
        /\ UNCHANGED sstate
     \/ /\ ~data[s] /\ eof[s]
        /\ sstate' = [sstate EXCEPT ![s] = "closed"]
        /\ UNCHANGED <<data, buf, ready>>
     \/ /\ ~data[s] /\ ~eof[s]
        /\ ready' = [ready EXCEPT ![<<s, "r">>] = FALSE]
        /\ UNCHANGED <<sstate, data, buf>>
  /\ \E b \in BOOLEAN : /\ eof[s] => b
                        /\ edge' = [edge EXCEPT ![<<s, "r">>] = edge[<<s, "r">>] /\ b]
  /\ UNCHANGED <<pc, waits, eof, active, unsent, hdlr, worker>>

\* A send fills the socket's buffer; what does not fit of the request's own output may
\* be kept back.
Send(t, s) ==
  /\ "write" \in Does
  /\ MayUse(t, s)
  /\ ready[<<s, "w">>] /\ ~Waiting(<<s, "w">>)
  /\ ready' = [ready EXCEPT ![<<s, "w">>] = FALSE]
  /\ \E b \in BOOLEAN : /\ b => s = Client
                        /\ unsent' = (unsent \/ b)
  /\ UNCHANGED <<pc, waits, sstate, active, kernel, hdlr, worker>>

\* A receive or send that would block puts its own handler in place and yields.
Block(t, e) ==
  /\ MayUse(t, e[1])
  /\ ~ready[e] /\ ~Waiting(e)
  /\ e[2] = "r" => ~buf[e[1]]
  /\ hdlr' = [hdlr EXCEPT ![e] = "op"]
  /\ active' = [active EXCEPT ![e] = TRUE]
  /\ waits' = [waits EXCEPT ![t] = e]
  /\ pc' = [pc EXCEPT ![t] = "io"]
  /\ UNCHANGED <<sstate, ready, unsent, kernel, worker>>

Close(t, s) ==
  /\ "close" \in Does
  /\ MayUse(t, s) /\ s # Client
  /\ \A d \in Dirs : ~Waiting(<<s, d>>)
  /\ sstate' = [sstate EXCEPT ![s] = "closed"]
  /\ active' = [e \in Ends |-> active[e] /\ e[1] # s]
  /\ buf' = [buf EXCEPT ![s] = FALSE]
  /\ UNCHANGED <<pc, waits, ready, unsent, data, eof, edge, hdlr, worker>>

\* A yield that has nothing to do with a socket.
Sleep(t) ==
  /\ Running(t)
  /\ pc' = [pc EXCEPT ![t] = "io"]
  /\ UNCHANGED <<waits, conn, kernel, hdlr, worker>>

\* ngx.thread.kill of a thread that is blocked, but not in select.
KillBlocked(t, u) ==
  /\ "kill" \in Does
  /\ Running(t) /\ pc[u] = "io"
  /\ hdlr' = [e \in Ends |-> IF waits[u] = e THEN "idle" ELSE hdlr[e]]
  /\ waits' = [waits EXCEPT ![u] = None]
  /\ pc' = [pc EXCEPT ![u] = "dead"]
  /\ UNCHANGED <<conn, kernel, worker>>

\* ngx_stream_lua_finalize_request: every thread is gone and no event is registered.
Finalize ==
  /\ pc' = [t \in Threads |-> "dead"]
  /\ waits' = [t \in Threads |-> None]
  /\ active' = [e \in Ends |-> FALSE]
  /\ UNCHANGED <<sstate, ready, unsent, kernel>>

---------------------------------------------------------------------------
(***************************************************************************)
(* The event loop and the kernel. An edge is reported once, to the handler *)
(* in place when it is; "op" is the handler of a blocked receive or send.  *)
(***************************************************************************)
Report(e) ==
  /\ EventLoop
  /\ active[e] /\ edge[e]
  /\ edge' = [edge EXCEPT ![e] = FALSE]
  /\ ready' = [ready EXCEPT ![e] = TRUE]
  /\ UNCHANGED <<sstate, active, data, buf, eof>>

\* The handlers of the request's own output write out what was kept back.
CosocketEvent(e) ==
  /\ Report(e)
  /\ unsent' = (unsent /\ e # <<Client, "w">>)
  /\ \/ hdlr[e] = "idle" /\ UNCHANGED <<pc, waits, hdlr>>
     \/ /\ hdlr[e] = "op"
        /\ hdlr' = [hdlr EXCEPT ![e] = "idle"]
        /\ \E t \in Threads : /\ waits[t] = e
                              /\ pc' = [pc EXCEPT ![t] = "lua"]
                              /\ waits' = [waits EXCEPT ![t] = None]
  /\ UNCHANGED worker

Wake(t) ==
  /\ EventLoop
  /\ pc[t] = "io" /\ waits[t] = None
  /\ pc' = [pc EXCEPT ![t] = "lua"]
  /\ UNCHANGED <<waits, conn, kernel, hdlr, worker>>

PeerSends(s) ==
  /\ worker = "up" /\ sstate[s] = "open" /\ ~eof[s]
  /\ data' = [data EXCEPT ![s] = TRUE]
  /\ edge' = [edge EXCEPT ![<<s, "r">>] = TRUE]
  /\ UNCHANGED <<pc, waits, conn, buf, eof, hdlr, worker>>

PeerCloses(s) ==
  /\ "fin" \in Does
  /\ worker = "up" /\ sstate[s] = "open" /\ ~eof[s]
  /\ eof' = [eof EXCEPT ![s] = TRUE]
  /\ edge' = [edge EXCEPT ![<<s, "r">>] = TRUE]
  /\ UNCHANGED <<pc, waits, conn, data, buf, hdlr, worker>>

Writable(s) ==
  /\ "write" \in Does
  /\ worker = "up" /\ sstate[s] = "open"
  /\ edge' = [edge EXCEPT ![<<s, "w">>] = TRUE]
  /\ UNCHANGED <<pc, waits, conn, data, buf, eof, hdlr, worker>>

Connected(s) ==
  /\ EventLoop /\ sstate[s] = "connecting"
  /\ sstate' = [sstate EXCEPT ![s] = "open"]
  /\ active' = [e \in Ends |-> active[e] \/ e[1] = s]
  /\ UNCHANGED <<pc, waits, ready, unsent, kernel, hdlr, worker>>

CosocketLua(t) ==
  \/ \E s \in Socks : \/ ReceiveBuffered(t, s) \/ Receive(t, s)
                      \/ Send(t, s) \/ Close(t, s)
  \/ \E e \in Ends : Block(t, e)
  \/ \E u \in Threads : KillBlocked(t, u)
  \/ Sleep(t)

CosocketsNext ==
  \/ \E t \in Threads : CosocketLua(t) \/ Wake(t)
  \/ \E e \in Ends : CosocketEvent(e)
  \/ \E s \in Socks : PeerSends(s) \/ PeerCloses(s) \/ Writable(s) \/ Connected(s)
===========================================================================
