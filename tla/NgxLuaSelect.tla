--------------------------- MODULE NgxLuaSelect ---------------------------
(***************************************************************************)
(* The part shared by the module's front ends, ngx_lua_select.h and        *)
(* ngx_lua_select.c: the two directions a socket is selected for, the      *)
(* socket types, the test for bytes that already wait in the kernel and    *)
(* the table that a select call returns to Lua.                            *)
(*                                                                         *)
(* A context's socket[] array is a sequence of records with the fields     *)
(* sock (the cosocket) and rw (the readwrite bits, a set of directions).   *)
(* Its read_ready and write_ready bits are a function `up' from the        *)
(* indices of the array to sets of directions.                             *)
(***************************************************************************)
EXTENDS Naturals, Sequences

CONSTANTS
  Socks,        \* the cosockets of one request
  Client        \* the one that wraps the request's own connection (ngx.req.socket)

\* NGX_LUA_SELECT_READ and NGX_LUA_SELECT_WRITE.
Dirs == {"r", "w"}

\* A direction of a socket: what has an event, a handler and a ready flag of its own.
Ends == Socks \X Dirs

\* Every socket is taken for a TCP one; only the request's connection is downstream.
ngx_lua_select_get_socket_type(s) ==
  IF s = Client THEN "TCP_DOWNSTREAM" ELSE "TCP_UPSTREAM"

Last(I) == CHOOSE i \in I : \A j \in I : j <= i

(***************************************************************************)
(* The entries on whose descriptor FIONREAD reports bytes. The test does   *)
(* not look at readwrite, and it sets only the read_ready bits.            *)
(***************************************************************************)
ngx_lua_select_sockets_ready(socket, data) ==
  {i \in DOMAIN socket : data[socket[i].sock]}

(***************************************************************************)
(* The value returned to Lua. A table maps each ready socket to the        *)
(* directions its last ready entry reports, the empty set for one it does not  *)
(* list; its array part, the same sockets in entry order, adds nothing.    *)
(***************************************************************************)
Nothing == [s \in Socks |-> {}]

ngx_lua_select_push_result(socket, up, timedout) ==
  LET listed == {i \in DOMAIN socket : up[i] # {}}
      of(s)  == {i \in listed : socket[i].sock = s}
  IN  IF listed = {} /\ timedout
      THEN [kind |-> "timeout", mode |-> Nothing]
      ELSE [kind |-> "table",
            mode |-> [s \in Socks |-> IF of(s) = {} THEN {} ELSE up[Last(of(s))]]]

Results == [kind : {"none", "table", "timeout", "error"}, mode : [Socks -> SUBSET Dirs]]
===========================================================================
