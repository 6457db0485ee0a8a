----------------------------- MODULE LuaDebug -----------------------------
(***************************************************************************)
(* The debugging aids of ngx_lua_select.c: printstack_named dumps a Lua    *)
(* stack from its top to its bottom and describes each value with dbgval.  *)
(* Such a call is put into the middle of other code, so what matters is    *)
(* not its text but the stack: which values it pushes and pops, and for    *)
(* how many of them it has asked with luaL_checkstack.                     *)
(*                                                                         *)
(* A call of dbgval is the sequence of its stack operations, one of those  *)
(* that the contents of _G and package.loaded allow; one step of the       *)
(* module executes one operation.                                          *)
(***************************************************************************)
EXTENDS Integers, Sequences

CONSTANTS
  Stacks,       \* the stacks that are dumped
  MaxMisses,    \* bound: so many other values precede the wanted one in a table
  MaxPieces     \* bound: so many pieces of the text wait on the stack

\* The types of Lua values. "globals" is the table _G, "self" the thread whose stack
\* is dumped.
Plain  == {"number", "boolean", "string", "nil"}
Tables == {"table", "globals"}
Kinds  == Plain \cup Tables \cup {"light", "function", "thread", "self", "userdata"}

ASSUME LuaDebugConstants ==
  /\ Stacks \subseteq Seq(Kinds)
  /\ MaxMisses \in Nat
  /\ MaxPieces \in Nat

VARIABLES
  caller,       \* the stack when the dump begins
  stack,        \* the stack now; "temp" is a value of dbgval, "piece" one of luaL_Buffer
  room,         \* the number of values that luaL_checkstack has made room for
  coro,         \* the values pushed on the stack of another thread
  cororoom,     \* the room made there
  ok,           \* lua_status(L) == LUA_OK
  n,            \* the index being described
  top,          \* the height of the stack when dbgval was called
  ops,          \* what dbgval has still to do
  at            \* "print", "dbgval", "finish", "log", "done", or "abort"

vars == <<caller, stack, room, coro, cororoom, ok, n, top, ops, at>>

Check(k) == [op |-> "check", k |-> k]
Push     == [op |-> "push", k |-> 1]
Pop(k)   == [op |-> "pop", k |-> k]
\* lua_equal(L, -1, LUA_GLOBALSINDEX): pop a value and stop if it is _G.
IfGlobals == [op |-> "globals", k |-> 1]
CoroCheck == [op |-> "corocheck", k |-> 1]
CoroPush  == [op |-> "coropush", k |-> 1]
CoroPop   == [op |-> "coropop", k |-> 1]

---------------------------------------------------------------------------
(***************************************************************************)
(* dbgval.                                                                 *)
(***************************************************************************)
\* tostring and its argument, which the call replaces by its result.
ToString == <<Push, Push, Pop(1)>>

\* Push the description of a value that has an address.
Named == IF ok THEN ToString ELSE <<Push>>

Misses(m) == [i \in 1 .. 2 * m |-> IF i % 2 = 1 THEN Push ELSE Pop(1)]

\* Mutant: the key stays on the stack when the value is found.
ScansLeaveKey ==
  {<<Push>> \o Misses(m) \o end :
     m \in 0 .. MaxMisses, end \in {<<Push, Pop(1)>>, <<Pop(1)>>}}

\* A walk with lua_next from a nil key: it stops at the value, and pops it with its
\* key, or at the end of the table, where lua_next has popped the key.
Scans ==
  {<<Push>> \o Misses(m) \o end :
     m \in 0 .. MaxMisses, end \in {<<Push, Pop(2)>>, <<Pop(1)>>}}

DescribeTable ==
  {<<Check(8)>> \o (IF ok THEN ToString \o <<Pop(1)>> ELSE << >>) \o <<IfGlobals>>
     \o g \o <<Push, Push, Pop(1)>> \o l \o <<Pop(1)>> : g \in Scans, l \in Scans}

DescribeLight == <<Check(2)>> \o IF ok THEN ToString \o <<Pop(1)>> ELSE << >>

\* Mutant: room for one value.
DescribeFunctionTight == <<Check(1), Push, Pop(1)>> \o Named \o <<Pop(1)>>

DescribeFunction == <<Check(3), Push, Pop(1)>> \o Named \o <<Pop(1)>>

\* Mutant: what luaL_where has pushed on the other thread stays there.
DescribeThreadLeavesWhere ==
  <<Check(4), CoroCheck>> \o Named \o <<Push, CoroPush, Pop(2)>>

\* The address, the status, and the position in the thread's code, which luaL_where
\* pushes on the stack of that thread.
DescribeThread == <<Check(4), CoroCheck>> \o Named \o <<Push, CoroPush, Pop(2), CoroPop>>

DescribeSelf == <<Check(4), Check(1)>> \o Named \o <<Push, Push, Pop(3)>>

DescribeOther == IF ok THEN <<Check(2)>> \o ToString \o <<Pop(1)>> ELSE << >>

ngx_lua_select_luaS_dbgval(kind) ==
  CASE kind \in Plain      -> {<< >>}
    [] kind \in Tables     -> DescribeTable
    [] kind = "light"      -> {DescribeLight}
    [] kind = "function"   -> {DescribeFunction}
    [] kind = "thread"     -> {DescribeThread}
    [] kind = "self"       -> {DescribeSelf}
    [] kind = "userdata"   -> {DescribeOther}

Height == Len(stack)
Above(h, k) == IF h + k > room THEN h + k ELSE room

\* One stack operation.
Operate ==
  LET o == Head(ops)
  IN  /\ at = "dbgval" /\ ops # << >>
      /\ stack' = CASE o.op = "push" -> Append(stack, "temp")
                    [] o.op = "pop"  -> SubSeq(stack, 1, Height - o.k)
                    [] OTHER         -> stack
      /\ room' = IF o.op = "check" THEN Above(Height, o.k) ELSE room
      /\ cororoom' = IF o.op = "corocheck" THEN coro + o.k ELSE cororoom
      /\ coro' = CASE o.op = "coropush" -> coro + 1
                   [] o.op = "coropop"  -> coro - 1
                   [] OTHER             -> coro
      /\ ops' = IF o.op = "globals" /\ stack[Height] = "globals"
                THEN <<Pop(1)>> ELSE Tail(ops)
      /\ UNCHANGED <<caller, ok, n, top, at>>

---------------------------------------------------------------------------
(***************************************************************************)
(* printstack_named. luaL_addstring may move the text gathered so far to   *)
(* the stack, for which luaL_Buffer has slots of its own.                  *)
(***************************************************************************)
Pieces == Height - Len(caller)

AddString ==
  \E more \in {0, 1} :
    /\ Pieces + more <= MaxPieces
    /\ stack' = stack \o [i \in 1 .. more |-> "piece"]
    /\ room' = room + more

Describe(i) ==
  /\ n' = i
  /\ IF i = 0 THEN at' = "finish" /\ UNCHANGED <<top, ops>>
     ELSE /\ at' = "dbgval"
          /\ top' = Len(stack')
          /\ ops' \in ngx_lua_select_luaS_dbgval(caller[i])

ngx_lua_select_luaS_printstack_named ==
  /\ at = "print"
  /\ AddString
  /\ Describe(Len(caller))
  /\ UNCHANGED <<caller, coro, cororoom, ok>>

\* The assertion at the end of dbgval; the loop goes on with the next value.
DbgvalReturns ==
  /\ at = "dbgval" /\ ops = << >>
  /\ \/ /\ Height = top
        /\ AddString
        /\ Describe(n - 1)
     \/ /\ Height # top
        /\ at' = "abort"
        /\ UNCHANGED <<stack, room, n, top, ops>>
  /\ UNCHANGED <<caller, coro, cororoom, ok>>

\* luaL_pushresult puts one string in the place of the pieces.
PushResult ==
  /\ at = "finish"
  /\ room' = Above(Height, 1)
  /\ stack' = Append(SubSeq(stack, 1, Height - Pieces), "temp")
  /\ at' = "log"
  /\ UNCHANGED <<caller, coro, cororoom, ok, n, top, ops>>

Log ==
  /\ at = "log"
  /\ stack' = SubSeq(stack, 1, Height - 1)
  /\ at' = IF Height - 1 = Len(caller) THEN "done" ELSE "abort"
  /\ UNCHANGED <<caller, room, coro, cororoom, ok, n, top, ops>>

Init ==
  /\ caller \in Stacks
  /\ stack = caller
  /\ room = Len(caller)
  /\ coro = 0 /\ cororoom = 0
  /\ ok \in BOOLEAN
  /\ n = 0 /\ top = 0
  /\ ops = << >>
  /\ at = "print"

Next ==
  \/ ngx_lua_select_luaS_printstack_named
  \/ Operate
  \/ DbgvalReturns
  \/ PushResult
  \/ Log

Spec == Init /\ [][Next]_vars

---------------------------------------------------------------------------
(***************************************************************************)
(* Properties.                                                             *)
(***************************************************************************)
\* A dump that returns has left the stack as it was, value by value, and those of the
\* threads it has described too, which no assertion of the code looks at.
StackRestored == at = "done" => stack = caller /\ coro = 0

\* dbgval pushes no value that luaL_checkstack has not made room for, whichever way it
\* goes through the globals and the loaded modules.
SlotsReserved == Height <= room /\ coro <= cororoom

\* The assertion of dbgval fails in one case only: the value on top of the stack is _G,
\* and describing a table has popped it.
AbortsOnlyOnGlobals ==
  at = "abort" => /\ caller # << >> /\ caller[Len(caller)] = "globals"
                  /\ stack = SubSeq(caller, 1, Len(caller) - 1)
===========================================================================
