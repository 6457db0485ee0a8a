-------------------------- MODULE MCStreamSelect --------------------------
(***************************************************************************)
(* The calls and the initial socket states that the runs of StreamSelect   *)
(* choose from. Each run lists in its configuration what the Lua code, the *)
(* peers and the kernel do besides.                                        *)
(***************************************************************************)
EXTENDS SelectProperties

CONSTANTS t1, t2, cl, s1

Indexed(s)   == [kind |-> "index", sock |-> s, chars |-> {}]
Mode(s, rw)  == [kind |-> "mode", sock |-> s, chars |-> rw]
Junk         == [kind |-> "other", sock |-> None, chars |-> {}]

Call(table, timeout) ==
  [n |-> 2, istable |-> TRUE, tkind |-> "number", timeout |-> timeout, table |-> table]

\* One upstream connection, open from the start.
AllOpen == {[s \in Socks |-> "open"]}

\* Also a connection that is still being set up, closed, or of another request.
AnyState == {f \in [Socks -> SockStates] : f[cl] = "open"}

\* Reading only, no socket twice, with and without a timeout.
ReadTables == {<<Indexed(cl)>>, <<Mode(s1, {"r"})>>, <<Indexed(cl), Indexed(s1)>>}
ReadCalls  == {Call(l, n) : l \in ReadTables, n \in {0, 1}}

\* Calls that the argument checks refuse, each for a reason of its own, and
\* tables whose first entry is taken and whose second is not.
BadArgCalls ==
  {[Call(<<Indexed(cl)>>, 0) EXCEPT !.n = 0],
   [Call(<<Indexed(cl)>>, 0) EXCEPT !.n = 3],
   [Call(<<Indexed(cl)>>, 0) EXCEPT !.istable = FALSE],
   [Call(<<Indexed(cl)>>, 0) EXCEPT !.tkind = "other"],
   Call(<<Indexed(cl)>>, -1)}
BadTables   == {<<Indexed(cl), Junk>>, <<Indexed(cl), Indexed(None)>>,
                <<Indexed(cl), Mode(s1, {})>>, <<Indexed(cl), Indexed(s1)>>}
RefuseCalls == BadArgCalls \cup {Call(l, 0) : l \in BadTables}
                 \cup {[Call(<<Indexed(s1)>>, 0) EXCEPT !.n = 1],
                       [Call(<<Indexed(s1)>>, 0) EXCEPT !.tkind = "nil"]}
CoreCalls   == ReadCalls \cup RefuseCalls

\* Every mode of one socket, with and without a timeout, and a table that is refused
\* when both its directions are taken.
ModeCalls == {Call(<<Mode(s, m)>>, n) : s \in Socks, m \in {{"r"}, {"w"}, Dirs}, n \in {0, 1}}
               \cup {Call(<<Mode(s, Dirs), Junk>>, 0) : s \in Socks}

\* A socket in two entries, another socket, and no socket at all.
SharedTables == {<<Indexed(s1), Mode(s1, {"w"})>>, <<Indexed(s1), Indexed(s1)>>,
                 <<Indexed(cl)>>}
SharedCalls  == {Call(l, 0) : l \in SharedTables} \cup {Call(<< >>, 1)}

WakeCalls      == {Call(<<Indexed(cl), Indexed(s1)>>, n) : n \in {0, 1}}
EitherCalls    == {Call(<<Mode(s1, {d})>>, 0) : d \in Dirs}
WriteCalls     == {Call(<<Mode(s1, {"w"})>>, 0)}
ReadWriteCalls == {Call(<<Mode(s1, Dirs)>>, 0)}
OneCall        == {Call(<<Indexed(s1)>>, 1)}
===========================================================================
