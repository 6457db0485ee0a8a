-------------------------- MODULE LuaDebugProofs --------------------------
(***************************************************************************)
(* A dump restores the stacks, stays within the room it has asked for and  *)
(* fails its assertion in one case only, for every stack, however many     *)
(* values a walk passes and however many pieces the text has.              *)
(*                                                                         *)
(* dbgval's operations are judged before they are executed: a run of them  *)
(* takes one account of the stacks to another if a sequence of accounts    *)
(* leads there, one operation at a time. Such runs compose, which is how   *)
(* the descriptions are shown to balance; and they lose one account with   *)
(* each operation executed, which is how the invariant is kept.            *)
(***************************************************************************)
EXTENDS LuaDebug, SequenceTheorems, TLAPS

Values  == Kinds \cup {"temp", "piece"}
OpNames == {"check", "push", "pop", "globals", "corocheck", "coropush", "coropop"}
Ops     == [op : OpNames, k : Nat]

\* An account of the stacks, relative to the height at the call of dbgval: h values
\* were pushed and there is room for k; on the other thread c values and room for r.
Accounts == {x \in [h : Nat, k : Nat, c : {0, 1}, r : {0, 1}] : x.h <= x.k /\ x.c <= x.r}

\* What operation o may make of account x. No push goes beyond the room, no pop takes
\* what was there before, and _G is looked for on top of what was there before.
Moves(o, x, y) ==
  \/ o.op = "check" /\ y = [x EXCEPT !.k = IF x.h + o.k > x.k THEN x.h + o.k ELSE x.k]
  \/ o.op = "push" /\ x.h < x.k /\ y = [x EXCEPT !.h = x.h + 1]
  \/ o.op = "pop" /\ o.k <= x.h /\ y = [x EXCEPT !.h = x.h - o.k]
  \/ o.op = "globals" /\ x.h = 0 /\ y = x
  \/ o.op = "corocheck" /\ o.k = 1 /\ x.c = 0 /\ y = [x EXCEPT !.r = 1]
  \/ o.op = "coropush" /\ x.c = 0 /\ x.r = 1 /\ y = [x EXCEPT !.c = 1]
  \/ o.op = "coropop" /\ x.c = 1 /\ y = [x EXCEPT !.c = 0]

\* p leads from x to y along the operations s.
Leads(p, s, x, y) ==
  /\ p \in [1 .. Len(s) + 1 -> Accounts]
  /\ p[1] = x /\ p[Len(s) + 1] = y
  /\ \A i \in 1 .. Len(s) : Moves(s[i], p[i], p[i + 1])

Run(s, x, y) == s \in Seq(Ops) /\ \E p : Leads(p, s, x, y)

\* Nothing to do changes nothing.
LEMMA EmptyRun ==
  ASSUME NEW x \in Accounts PROVE Run(<< >>, x, x)
<1> DEFINE p == [i \in 1 .. 1 |-> x]
<1>1. Leads(p, << >>, x, x) BY DEF Leads
<1> QED BY <1>1 DEF Run

\* One operation is a run.
LEMMA OneRun ==
  ASSUME NEW o \in Ops, NEW x \in Accounts, NEW y \in Accounts, Moves(o, x, y)
  PROVE  Run(<<o>>, x, y)
<1> DEFINE p == [i \in 1 .. 2 |-> IF i = 1 THEN x ELSE y]
<1>1. Len(<<o>>) = 1 /\ <<o>>[1] = o /\ <<o>> \in Seq(Ops) OBVIOUS
<1>2. p \in [1 .. 2 -> Accounts] /\ p[1] = x /\ p[2] = y OBVIOUS
<1> HIDE DEF p
<1>3. Leads(p, <<o>>, x, y) BY <1>1, <1>2 DEF Leads
<1> QED BY <1>1, <1>3 DEF Run

\* Runs compose.
LEMMA RunsCompose ==
  ASSUME NEW s, NEW t, NEW x, NEW y, NEW z, Run(s, x, y), Run(t, y, z)
  PROVE  Run(s \o t, x, z)
<1>1. s \in Seq(Ops) /\ t \in Seq(Ops) BY DEF Run
<1>2. PICK m \in Nat : m = Len(s) BY <1>1
<1>3. PICK k \in Nat : k = Len(t) BY <1>1
<1>4. PICK p : Leads(p, s, x, y) BY DEF Run
<1>5. PICK q : Leads(q, t, y, z) BY DEF Run
<1> DEFINE r == [i \in 1 .. m + k + 1 |-> IF i <= m THEN p[i] ELSE q[i - m]]
<1>6. s \o t \in Seq(Ops) /\ Len(s \o t) = m + k BY <1>1, <1>2, <1>3
<1>7. /\ \A i \in 1 .. m : (s \o t)[i] = s[i]
      /\ \A i \in m + 1 .. m + k : (s \o t)[i] = t[i - m]
  BY <1>1, <1>2, <1>3
<1>8. /\ p \in [1 .. m + 1 -> Accounts] /\ p[1] = x /\ p[m + 1] = y
      /\ \A i \in 1 .. m : Moves(s[i], p[i], p[i + 1])
  BY <1>2, <1>4 DEF Leads
<1>9. /\ q \in [1 .. k + 1 -> Accounts] /\ q[1] = y /\ q[k + 1] = z
      /\ \A i \in 1 .. k : Moves(t[i], q[i], q[i + 1])
  BY <1>3, <1>5 DEF Leads
<1>10. r \in [1 .. m + k + 1 -> Accounts]
  <2> SUFFICES ASSUME NEW i \in 1 .. m + k + 1
               PROVE  (IF i <= m THEN p[i] ELSE q[i - m]) \in Accounts
    OBVIOUS
  <2>1. CASE i <= m BY <2>1, <1>8
  <2>2. CASE ~ (i <= m)
    <3>1. i - m \in 1 .. k + 1 BY <2>2
    <3> QED BY <3>1, <2>2, <1>9
  <2> QED BY <2>1, <2>2
<1>11. \A i \in 1 .. m + 1 : r[i] = p[i]
  <2> SUFFICES ASSUME NEW i \in 1 .. m + 1 PROVE r[i] = p[i] OBVIOUS
  <2>1. CASE i <= m BY <2>1
  <2>2. CASE i = m + 1
    <3>1. r[i] = q[i - m] BY <2>2
    <3>2. i - m = 1 BY <2>2
    <3> HIDE DEF r
    <3> QED BY <3>1, <3>2, <2>2, <1>8, <1>9
  <2> QED BY <2>1, <2>2
<1>12. \A i \in m + 1 .. m + k + 1 : r[i] = q[i - m]
  OBVIOUS
<1> HIDE DEF r
<1>13. ASSUME NEW i \in 1 .. m + k PROVE Moves((s \o t)[i], r[i], r[i + 1])
  <2>1. CASE i <= m
    <3>1. i \in 1 .. m /\ i \in 1 .. m + 1 /\ i + 1 \in 1 .. m + 1 BY <2>1
    <3> QED BY <3>1, <1>7, <1>8, <1>11
  <2>2. CASE i > m
    <3>1. i \in m + 1 .. m + k /\ i \in m + 1 .. m + k + 1 /\ i + 1 \in m + 1 .. m + k + 1
      BY <2>2
    <3>2. i - m \in 1 .. k /\ (i + 1) - m = (i - m) + 1 BY <2>2
    <3>3. r[i] = q[i - m] /\ r[i + 1] = q[(i - m) + 1] BY <3>1, <3>2, <1>12
    <3>4. (s \o t)[i] = t[i - m] BY <3>1, <1>7
    <3> QED BY <3>2, <3>3, <3>4, <1>9
  <2>3. i <= m \/ i > m OBVIOUS
  <2> QED BY <2>1, <2>2, <2>3
<1>14. r[1] = x BY <1>8, <1>11
<1>15. r[m + k + 1] = z
  <2>1. m + k + 1 \in m + 1 .. m + k + 1 /\ (m + k + 1) - m = k + 1 OBVIOUS
  <2> QED BY <2>1, <1>9, <1>12
<1>16. Leads(r, s \o t, x, z) BY <1>6, <1>10, <1>13, <1>14, <1>15 DEF Leads
<1> QED BY <1>6, <1>16 DEF Run

\* A run ends where it began if there is nothing to do.
LEMMA RunOfNothing ==
  ASSUME NEW x, NEW y, Run(<< >>, x, y)
  PROVE  x = y /\ x \in Accounts
<1>1. PICK p : Leads(p, << >>, x, y) BY DEF Run
<1> QED BY <1>1 DEF Leads

\* The first operation of a run makes a move, from which the rest is a run.
LEMMA FirstMove ==
  ASSUME NEW s, NEW x, NEW y, Run(s, x, y), s # << >>
  PROVE  /\ x \in Accounts /\ Head(s) \in Ops
         /\ \E z \in Accounts : Moves(Head(s), x, z) /\ Run(Tail(s), z, y)
<1>1. s \in Seq(Ops) BY DEF Run
<1>2. PICK m \in Nat : m + 1 = Len(s)
  <2>1. Len(s) \in Nat /\ Len(s) # 0 BY <1>1
  <2>2. Len(s) - 1 \in Nat /\ (Len(s) - 1) + 1 = Len(s) BY <2>1
  <2> QED BY <2>2
<1>3. PICK p : Leads(p, s, x, y) BY DEF Run
<1>4. /\ p \in [1 .. m + 2 -> Accounts] /\ p[1] = x /\ p[m + 2] = y
      /\ \A i \in 1 .. m + 1 : Moves(s[i], p[i], p[i + 1])
  <2>1. Len(s) + 1 = m + 2 BY <1>2
  <2> QED BY <1>2, <1>3, <2>1 DEF Leads
<1>5. /\ Head(s) = s[1] /\ Head(s) \in Ops
      /\ Tail(s) \in Seq(Ops) /\ Len(Tail(s)) = m
      /\ \A i \in 1 .. m : Tail(s)[i] = s[i + 1]
  BY <1>1, <1>2
<1> DEFINE q == [i \in 1 .. m + 1 |-> p[i + 1]]
<1>6. \A i \in 1 .. m + 1 : q[i] = p[i + 1] OBVIOUS
<1>7. q \in [1 .. m + 1 -> Accounts]
  <2> SUFFICES ASSUME NEW i \in 1 .. m + 1 PROVE p[i + 1] \in Accounts OBVIOUS
  <2>1. i + 1 \in 1 .. m + 2 OBVIOUS
  <2> QED BY <2>1, <1>4
<1> HIDE DEF q
<1>8. \A i \in 1 .. m : Moves(Tail(s)[i], q[i], q[i + 1])
  <2> SUFFICES ASSUME NEW i \in 1 .. m PROVE Moves(Tail(s)[i], q[i], q[i + 1]) OBVIOUS
  <2>1. i \in 1 .. m + 1 /\ i + 1 \in 1 .. m + 1 OBVIOUS
  <2>2. q[i] = p[i + 1] /\ q[i + 1] = p[(i + 1) + 1] BY <2>1, <1>6
  <2>3. Moves(s[i + 1], p[i + 1], p[(i + 1) + 1]) BY <2>1, <1>4
  <2> QED BY <2>2, <2>3, <1>5
<1>9. q[1] = p[2] /\ q[m + 1] = y
  <2>1. 1 \in 1 .. m + 1 /\ m + 1 \in 1 .. m + 1 /\ (m + 1) + 1 = m + 2 /\ 1 + 1 = 2 OBVIOUS
  <2> QED BY <2>1, <1>4, <1>6
<1>10. Leads(q, Tail(s), p[2], y) BY <1>5, <1>7, <1>8, <1>9 DEF Leads
<1>11. Run(Tail(s), p[2], y) BY <1>5, <1>10 DEF Run
<1>12. Moves(Head(s), x, p[2]) /\ x \in Accounts /\ p[2] \in Accounts
  <2>1. 1 \in 1 .. m + 1 /\ 1 + 1 = 2 /\ 1 \in 1 .. m + 2 /\ 2 \in 1 .. m + 2 OBVIOUS
  <2> QED BY <2>1, <1>4, <1>5
<1> QED BY <1>5, <1>11, <1>12

---------------------------------------------------------------------------
(***************************************************************************)
(* The operations, and the sequences that dbgval is made of.               *)
(***************************************************************************)
Account(h, k, c, r) == [h |-> h, k |-> k, c |-> c, r |-> r]

\* What an account is.
LEMMA AccountIn ==
  ASSUME NEW h \in Nat, NEW k \in Nat, NEW c \in {0, 1}, NEW r \in {0, 1}, h <= k, c <= r
  PROVE  /\ Account(h, k, c, r) \in Accounts
         /\ Account(h, k, c, r).h = h /\ Account(h, k, c, r).k = k
         /\ Account(h, k, c, r).c = c /\ Account(h, k, c, r).r = r
BY DEF Account, Accounts

\* A push within the room.
LEMMA RunPush ==
  ASSUME NEW h \in Nat, NEW k \in Nat, NEW c \in {0, 1}, NEW r \in {0, 1}, h < k, c <= r
  PROVE  Run(<<Push>>, Account(h, k, c, r), Account(h + 1, k, c, r))
<1> DEFINE x == Account(h, k, c, r)
           y == Account(h + 1, k, c, r)
<1>1. x \in Accounts /\ y \in Accounts
  <2>1. h <= k /\ h + 1 \in Nat /\ h + 1 <= k OBVIOUS
  <2> QED BY <2>1, AccountIn
<1>2. Push \in Ops /\ Push.op = "push" BY DEF Push, Ops, OpNames
<1>3. x.h = h /\ x.k = k /\ y = [x EXCEPT !.h = x.h + 1] BY DEF Account
<1> HIDE DEF x, y
<1>4. Moves(Push, x, y) BY <1>2, <1>3 DEF Moves
<1>5. Run(<<Push>>, x, y) BY <1>1, <1>2, <1>4, OneRun
<1> QED BY <1>5 DEF x, y

\* A pop of what was pushed.
LEMMA RunPop ==
  ASSUME NEW h \in Nat, NEW k \in Nat, NEW c \in {0, 1}, NEW r \in {0, 1}, h <= k, c <= r,
         NEW j \in Nat, j <= h
  PROVE  Run(<<Pop(j)>>, Account(h, k, c, r), Account(h - j, k, c, r))
<1> DEFINE x == Account(h, k, c, r)
           y == Account(h - j, k, c, r)
<1>1. x \in Accounts /\ y \in Accounts
  <2>1. h - j \in Nat /\ h - j <= k OBVIOUS
  <2> QED BY <2>1, AccountIn
<1>2. Pop(j) \in Ops /\ Pop(j).op = "pop" /\ Pop(j).k = j BY DEF Pop, Ops, OpNames
<1>3. x.h = h /\ x.k = k /\ y = [x EXCEPT !.h = x.h - j] BY DEF Account
<1> HIDE DEF x, y
<1>4. Moves(Pop(j), x, y) BY <1>2, <1>3 DEF Moves
<1>5. Run(<<Pop(j)>>, x, y) BY <1>1, <1>2, <1>4, OneRun
<1> QED BY <1>5 DEF x, y

\* luaL_checkstack makes room, and takes none back.
LEMMA RunCheck ==
  ASSUME NEW h \in Nat, NEW k \in Nat, NEW c \in {0, 1}, NEW r \in {0, 1}, h <= k, c <= r,
         NEW j \in Nat, NEW l \in Nat, l = IF h + j > k THEN h + j ELSE k
  PROVE  Run(<<Check(j)>>, Account(h, k, c, r), Account(h, l, c, r))
<1> DEFINE x == Account(h, k, c, r)
           y == Account(h, l, c, r)
<1>1. x \in Accounts /\ y \in Accounts
  <2>1. h <= l OBVIOUS
  <2> QED BY <2>1, AccountIn
<1>2. Check(j) \in Ops /\ Check(j).op = "check" /\ Check(j).k = j BY DEF Check, Ops, OpNames
<1>3. x.h = h /\ x.k = k /\ y = [x EXCEPT !.k = l] BY DEF Account
<1> HIDE DEF x, y
<1>4. Moves(Check(j), x, y) BY <1>2, <1>3 DEF Moves
<1>5. Run(<<Check(j)>>, x, y) BY <1>1, <1>2, <1>4, OneRun
<1> QED BY <1>5 DEF x, y

\* The comparison with _G looks at the value on top, which is not one of dbgval's own.
LEMMA RunGlobals ==
  ASSUME NEW k \in Nat
  PROVE  Run(<<IfGlobals>>, Account(0, k, 0, 0), Account(0, k, 0, 0))
<1> DEFINE x == Account(0, k, 0, 0)
<1>1. x \in Accounts /\ x.h = 0 BY AccountIn
<1>2. IfGlobals \in Ops /\ IfGlobals.op = "globals" BY DEF IfGlobals, Ops, OpNames
<1> HIDE DEF x
<1>3. Moves(IfGlobals, x, x) BY <1>1, <1>2 DEF Moves
<1>4. Run(<<IfGlobals>>, x, x) BY <1>1, <1>2, <1>3, OneRun
<1> QED BY <1>4 DEF x

\* Room on the other thread's stack, the push there, and the pop.
LEMMA RunCoro ==
  ASSUME NEW h \in Nat, NEW k \in Nat, h <= k
  PROVE  /\ Run(<<CoroCheck>>, Account(h, k, 0, 0), Account(h, k, 0, 1))
         /\ Run(<<CoroPush>>, Account(h, k, 0, 1), Account(h, k, 1, 1))
         /\ Run(<<CoroPop>>, Account(h, k, 1, 1), Account(h, k, 0, 1))
<1> DEFINE x == Account(h, k, 0, 0)
           y == Account(h, k, 0, 1)
           z == Account(h, k, 1, 1)
<1>1. x \in Accounts /\ y \in Accounts /\ z \in Accounts BY AccountIn
<1>2. /\ CoroCheck \in Ops /\ CoroCheck.op = "corocheck" /\ CoroCheck.k = 1
      /\ CoroPush \in Ops /\ CoroPush.op = "coropush"
      /\ CoroPop \in Ops /\ CoroPop.op = "coropop"
  BY DEF CoroCheck, CoroPush, CoroPop, Ops, OpNames
<1>3. /\ x.c = 0 /\ y = [x EXCEPT !.r = 1]
      /\ y.c = 0 /\ y.r = 1 /\ z = [y EXCEPT !.c = 1]
      /\ z.c = 1 /\ y = [z EXCEPT !.c = 0]
  BY DEF Account
<1> HIDE DEF x, y, z
<1>4. Moves(CoroCheck, x, y) BY <1>2, <1>3 DEF Moves
<1>5. Moves(CoroPush, y, z) BY <1>2, <1>3 DEF Moves
<1>6. Moves(CoroPop, z, y) BY <1>2, <1>3 DEF Moves
<1>7. Run(<<CoroCheck>>, x, y) /\ Run(<<CoroPush>>, y, z) /\ Run(<<CoroPop>>, z, y)
  BY <1>1, <1>2, <1>4, <1>5, <1>6, OneRun
<1> QED BY <1>7 DEF x, y, z

\* An operation after a run.
LEMMA LongerRun ==
  ASSUME NEW s, NEW t, NEW o, NEW x, NEW y, NEW z, Run(s, x, y), Run(<<o>>, y, z),
         t \in Seq(Ops), Len(t) = Len(s) + 1, t[Len(s) + 1] = o,
         \A i \in 1 .. Len(s) : t[i] = s[i]
  PROVE  Run(t, x, z)
<1>1. s \in Seq(Ops) /\ <<o>> \in Seq(Ops) /\ Len(<<o>>) = 1 /\ <<o>>[1] = o BY DEF Run
<1>2. PICK m \in Nat : m = Len(s) BY <1>1
<1>3. /\ s \o <<o>> \in Seq(Ops) /\ Len(s \o <<o>>) = m + 1
      /\ \A i \in 1 .. m + 1 : (s \o <<o>>)[i] = IF i <= m THEN s[i] ELSE <<o>>[i - m]
  BY <1>1, <1>2, ConcatProperties
<1>4. \A i \in 1 .. m + 1 : (s \o <<o>>)[i] = t[i]
  <2> SUFFICES ASSUME NEW i \in 1 .. m + 1 PROVE (s \o <<o>>)[i] = t[i] OBVIOUS
  <2>1. CASE i <= m BY <2>1, <1>2, <1>3
  <2>2. CASE i = m + 1
    <3>1. i - m = 1 /\ ~ (i <= m) BY <2>2
    <3> QED BY <3>1, <2>2, <1>1, <1>2, <1>3
  <2>3. i <= m \/ i = m + 1 OBVIOUS
  <2> QED BY <2>1, <2>2, <2>3
<1>5. s \o <<o>> = t BY <1>2, <1>3, <1>4, SeqEqual
<1> QED BY <1>5, RunsCompose

\* Two operations one after the other.
LEMMA TwoRun ==
  ASSUME NEW o, NEW q, NEW x, NEW y, NEW z, Run(<<o>>, x, y), Run(<<q>>, y, z)
  PROVE  Run(<<o, q>>, x, z)
<1>1. o \in Ops /\ q \in Ops
  <2>1. <<o>> \in Seq(Ops) /\ <<q>> \in Seq(Ops) BY DEF Run
  <2>2. <<o>>[1] = o /\ <<q>>[1] = q /\ Len(<<o>>) = 1 /\ Len(<<q>>) = 1 OBVIOUS
  <2> QED BY <2>1, <2>2
<1>2. /\ <<o, q>> \in Seq(Ops) /\ Len(<<o, q>>) = 2 /\ <<o, q>>[1] = o /\ <<o, q>>[2] = q
      /\ Len(<<o>>) = 1 /\ <<o>>[1] = o
  BY <1>1
<1>3. /\ Len(<<o, q>>) = Len(<<o>>) + 1 /\ <<o, q>>[Len(<<o>>) + 1] = q
      /\ \A i \in 1 .. Len(<<o>>) : <<o, q>>[i] = <<o>>[i]
  BY <1>2
<1> QED BY <1>2, <1>3, LongerRun

\* Three operations.
LEMMA ThreeRun ==
  ASSUME NEW o, NEW q, NEW s, NEW w, NEW x, NEW y, NEW z,
         Run(<<o>>, w, x), Run(<<q>>, x, y), Run(<<s>>, y, z)
  PROVE  Run(<<o, q, s>>, w, z)
<1>1. o \in Ops /\ q \in Ops /\ s \in Ops
  <2>1. <<o>> \in Seq(Ops) /\ <<q>> \in Seq(Ops) /\ <<s>> \in Seq(Ops) BY DEF Run
  <2>2. /\ <<o>>[1] = o /\ <<q>>[1] = q /\ <<s>>[1] = s
        /\ Len(<<o>>) = 1 /\ Len(<<q>>) = 1 /\ Len(<<s>>) = 1
    OBVIOUS
  <2> QED BY <2>1, <2>2
<1>2. /\ <<o, q, s>> \in Seq(Ops) /\ Len(<<o, q, s>>) = 3 /\ <<o, q, s>>[1] = o
      /\ <<o, q, s>>[2] = q /\ <<o, q, s>>[3] = s
      /\ Len(<<o, q>>) = 2 /\ <<o, q>>[1] = o /\ <<o, q>>[2] = q
  BY <1>1
<1>3. /\ Len(<<o, q, s>>) = Len(<<o, q>>) + 1 /\ <<o, q, s>>[Len(<<o, q>>) + 1] = s
      /\ \A i \in 1 .. Len(<<o, q>>) : <<o, q, s>>[i] = <<o, q>>[i]
  BY <1>2
<1>4. Run(<<o, q>>, w, y) BY TwoRun
<1> QED BY <1>2, <1>3, <1>4, LongerRun

\* Four operations.
LEMMA FourRun ==
  ASSUME NEW o, NEW q, NEW s, NEW t, NEW v, NEW w, NEW x, NEW y, NEW z,
         Run(<<o>>, v, w), Run(<<q>>, w, x), Run(<<s>>, x, y), Run(<<t>>, y, z)
  PROVE  Run(<<o, q, s, t>>, v, z)
<1>1. o \in Ops /\ q \in Ops /\ s \in Ops /\ t \in Ops
  <2>1. <<o>> \in Seq(Ops) /\ <<q>> \in Seq(Ops) /\ <<s>> \in Seq(Ops) /\ <<t>> \in Seq(Ops)
    BY DEF Run
  <2>2. /\ <<o>>[1] = o /\ <<q>>[1] = q /\ <<s>>[1] = s /\ <<t>>[1] = t
        /\ Len(<<o>>) = 1 /\ Len(<<q>>) = 1 /\ Len(<<s>>) = 1 /\ Len(<<t>>) = 1
    OBVIOUS
  <2> QED BY <2>1, <2>2
<1>2. /\ <<o, q, s, t>> \in Seq(Ops) /\ Len(<<o, q, s, t>>) = 4 /\ <<o, q, s, t>>[1] = o
      /\ <<o, q, s, t>>[2] = q /\ <<o, q, s, t>>[3] = s /\ <<o, q, s, t>>[4] = t
      /\ Len(<<o, q, s>>) = 3 /\ <<o, q, s>>[1] = o /\ <<o, q, s>>[2] = q /\ <<o, q, s>>[3] = s
  BY <1>1
<1>3. /\ Len(<<o, q, s, t>>) = Len(<<o, q, s>>) + 1 /\ <<o, q, s, t>>[Len(<<o, q, s>>) + 1] = t
      /\ \A i \in 1 .. Len(<<o, q, s>>) : <<o, q, s, t>>[i] = <<o, q, s>>[i]
  BY <1>2
<1>4. Run(<<o, q, s>>, v, y) BY ThreeRun
<1> QED BY <1>2, <1>3, <1>4, LongerRun

\* tostring leaves its result, and needs room for two values.
LEMMA RunToString ==
  ASSUME NEW h \in Nat, NEW k \in Nat, NEW c \in {0, 1}, NEW r \in {0, 1}, h + 2 <= k, c <= r
  PROVE  Run(ToString, Account(h, k, c, r), Account(h + 1, k, c, r))
<1>1. Run(<<Push>>, Account(h, k, c, r), Account(h + 1, k, c, r)) BY RunPush
<1>2. Run(<<Push>>, Account(h + 1, k, c, r), Account((h + 1) + 1, k, c, r))
  <2>1. h + 1 \in Nat /\ h + 1 < k OBVIOUS
  <2> QED BY <2>1, RunPush
<1>3. Run(<<Pop(1)>>, Account((h + 1) + 1, k, c, r), Account(h + 1, k, c, r))
  <2>1. (h + 1) + 1 \in Nat /\ (h + 1) + 1 <= k /\ 1 <= (h + 1) + 1
        /\ ((h + 1) + 1) - 1 = h + 1
    OBVIOUS
  <2>2. Run(<<Pop(1)>>, Account((h + 1) + 1, k, c, r), Account(((h + 1) + 1) - 1, k, c, r))
    BY <2>1, RunPop
  <2> QED BY <2>1, <2>2
<1> QED BY <1>1, <1>2, <1>3, ThreeRun DEF ToString

\* So does the description of a value that has an address.
LEMMA RunNamed ==
  ASSUME NEW h \in Nat, NEW k \in Nat, NEW c \in {0, 1}, NEW r \in {0, 1}, h + 2 <= k, c <= r
  PROVE  Run(Named, Account(h, k, c, r), Account(h + 1, k, c, r))
<1>1. CASE ok BY <1>1, RunToString DEF Named
<1>2. CASE ~ ok
  <2>1. Run(<<Push>>, Account(h, k, c, r), Account(h + 1, k, c, r)) BY RunPush
  <2> QED BY <1>2, <2>1 DEF Named
<1> QED BY <1>1, <1>2

\* The values that a walk passes leave the stack as it was.
LEMMA RunMisses ==
  ASSUME NEW h \in Nat, NEW k \in Nat, h < k, NEW m \in Nat
  PROVE  Run(Misses(m), Account(h, k, 0, 0), Account(h, k, 0, 0))
<1> DEFINE x == Account(h, k, 0, 0)
           y == Account(h + 1, k, 0, 0)
           p == [i \in 1 .. 2 * m + 1 |-> IF i % 2 = 1 THEN x ELSE y]
<1>1. x \in Accounts /\ y \in Accounts
  <2>1. h <= k /\ h + 1 \in Nat /\ h + 1 <= k OBVIOUS
  <2> QED BY <2>1, AccountIn
<1>2. Push \in Ops /\ Push.op = "push" /\ Pop(1) \in Ops /\ Pop(1).op = "pop" /\ Pop(1).k = 1
  BY DEF Push, Pop, Ops, OpNames
<1>3. x.h = h /\ x.k = k /\ y = [x EXCEPT !.h = x.h + 1] BY DEF Account
<1>4. 1 <= y.h /\ x = [y EXCEPT !.h = y.h - 1] BY DEF Account
<1> HIDE DEF x, y
<1>5. Moves(Push, x, y) /\ Moves(Pop(1), y, x)
  <2>1. Moves(Push, x, y) BY <1>2, <1>3 DEF Moves
  <2>2. Moves(Pop(1), y, x) BY <1>2, <1>4 DEF Moves
  <2> QED BY <2>1, <2>2
<1>6. /\ Misses(m) \in Seq(Ops) /\ Len(Misses(m)) = 2 * m
      /\ \A i \in 1 .. 2 * m : Misses(m)[i] = IF i % 2 = 1 THEN Push ELSE Pop(1)
  <2>1. \A i \in 1 .. 2 * m : (IF i % 2 = 1 THEN Push ELSE Pop(1)) \in Ops BY <1>2
  <2>2. 2 * m \in Nat OBVIOUS
  <2>3. PICK d \in Nat : d = 2 * m BY <2>2
  <2>4. [i \in 1 .. d |-> IF i % 2 = 1 THEN Push ELSE Pop(1)] \in Seq(Ops)
    BY <2>1, <2>3
  <2> QED BY <2>2, <2>3, <2>4 DEF Misses
<1>7. p \in [1 .. 2 * m + 1 -> Accounts] BY <1>1
<1>8. p[1] = x /\ p[2 * m + 1] = x
  <2>1. 1 \in 1 .. 2 * m + 1 /\ 1 % 2 = 1 OBVIOUS
  <2>2. 2 * m + 1 \in 1 .. 2 * m + 1 /\ (2 * m + 1) % 2 = 1 OBVIOUS
  <2> QED BY <2>1, <2>2
<1>9. ASSUME NEW i \in 1 .. 2 * m
      PROVE  Moves(Misses(m)[i], p[i], p[i + 1])
  <2>1. i \in 1 .. 2 * m + 1 /\ i + 1 \in 1 .. 2 * m + 1 OBVIOUS
  <2>2. p[i] = (IF i % 2 = 1 THEN x ELSE y) /\ p[i + 1] = IF (i + 1) % 2 = 1 THEN x ELSE y
    BY <2>1
  <2> HIDE DEF p
  <2>3. CASE i % 2 = 1
    <3>1. (i + 1) % 2 # 1 BY <2>3
    <3> QED BY <3>1, <2>2, <2>3, <1>5, <1>6
  <2>4. CASE i % 2 # 1
    <3>1. (i + 1) % 2 = 1 BY <2>4
    <3> QED BY <3>1, <2>2, <2>4, <1>5, <1>6
  <2> QED BY <2>3, <2>4
<1> HIDE DEF p
<1>10. Leads(p, Misses(m), x, x) BY <1>6, <1>7, <1>8, <1>9 DEF Leads
<1>11. Run(Misses(m), x, x) BY <1>6, <1>10 DEF Run
<1> QED BY <1>11 DEF x

\* Neither does a walk, found or not, which needs room for a key and a value.
LEMMA RunScans ==
  ASSUME NEW h \in Nat, NEW k \in Nat, h + 2 <= k, NEW g \in Scans
  PROVE  Run(g, Account(h, k, 0, 0), Account(h, k, 0, 0))
<1> DEFINE x(i) == Account(h + i, k, 0, 0)
           all(m, end) == <<Push>> \o Misses(m) \o end
<1>1. PICK m \in 0 .. MaxMisses, end \in {<<Push, Pop(2)>>, <<Pop(1)>>} : g = all(m, end)
  <2>1. Scans = {all(m, end) : m \in 0 .. MaxMisses, end \in {<<Push, Pop(2)>>, <<Pop(1)>>}}
    BY DEF Scans
  <2> HIDE DEF all
  <2> QED BY <2>1
<1>2. m \in Nat BY LuaDebugConstants
<1>3. h + 0 = h /\ h + 1 \in Nat /\ h + 2 \in Nat /\ h < k /\ h + 1 < k /\ (h + 1) + 1 = h + 2
      /\ (h + 2) - 2 = h /\ (h + 1) - 1 = h /\ h + 1 <= k /\ 1 <= h + 1 /\ 2 <= h + 2
  OBVIOUS
<1>4. Run(<<Push>>, x(0), x(1)) BY <1>3, RunPush
<1>5. Run(Misses(m), x(1), x(1)) BY <1>2, <1>3, RunMisses
<1>6. Run(<<Push>> \o Misses(m), x(0), x(1)) BY <1>4, <1>5, RunsCompose
<1>7. Run(<<Pop(1)>>, x(1), x(0))
  <2>1. Run(<<Pop(1)>>, x(1), Account((h + 1) - 1, k, 0, 0)) BY <1>3, RunPop
  <2> QED BY <2>1, <1>3
<1>8. Run(<<Push, Pop(2)>>, x(1), x(0))
  <2>1. Run(<<Push>>, x(1), Account((h + 1) + 1, k, 0, 0)) BY <1>3, RunPush
  <2>2. Run(<<Pop(2)>>, x(2), Account((h + 2) - 2, k, 0, 0)) BY <1>3, RunPop
  <2>3. Run(<<Push>>, x(1), x(2)) /\ Run(<<Pop(2)>>, x(2), x(0)) BY <2>1, <2>2, <1>3
  <2> HIDE DEF x
  <2> QED BY <2>3, TwoRun
<1>9. x(0) = Account(h, k, 0, 0) BY <1>3
<1> HIDE DEF x
<1>10. Run(end, x(1), x(0)) BY <1>7, <1>8
<1>11. Run(<<Push>> \o Misses(m) \o end, x(0), x(0)) BY <1>6, <1>10, RunsCompose
<1> QED BY <1>1, <1>9, <1>11 DEF all

---------------------------------------------------------------------------
(***************************************************************************)
(* The descriptions. Each begins with nothing pushed and no room, and ends *)
(* with nothing pushed.                                                    *)
(***************************************************************************)
None == Account(0, 0, 0, 0)

Balanced(s) == \E k \in Nat, r \in {0, 1} : Run(s, None, Account(0, k, 0, r))

\* The optional tostring, whose result is not kept.
LEMMA RunText ==
  ASSUME NEW k \in Nat, 2 <= k
  PROVE  Run(IF ok THEN ToString \o <<Pop(1)>> ELSE << >>,
             Account(0, k, 0, 0), Account(0, k, 0, 0))
<1>1. CASE ok
  <2>1. Run(ToString, Account(0, k, 0, 0), Account(1, k, 0, 0))
    <3>1. Run(ToString, Account(0, k, 0, 0), Account(0 + 1, k, 0, 0)) BY RunToString
    <3> QED BY <3>1
  <2>2. Run(<<Pop(1)>>, Account(1, k, 0, 0), Account(0, k, 0, 0))
    <3>1. Run(<<Pop(1)>>, Account(1, k, 0, 0), Account(1 - 1, k, 0, 0)) BY RunPop
    <3> QED BY <3>1
  <2>3. Run(ToString \o <<Pop(1)>>, Account(0, k, 0, 0), Account(0, k, 0, 0))
    BY <2>1, <2>2, RunsCompose
  <2> QED BY <1>1, <2>3
<1>2. CASE ~ ok
  <2>1. Run(<< >>, Account(0, k, 0, 0), Account(0, k, 0, 0)) BY AccountIn, EmptyRun
  <2> QED BY <1>2, <2>1
<1> QED BY <1>1, <1>2

\* The room with which a description begins.
LEMMA RunFirstCheck ==
  ASSUME NEW j \in Nat PROVE Run(<<Check(j)>>, None, Account(0, j, 0, 0))
<1>1. j = IF 0 + j > 0 THEN 0 + j ELSE 0 OBVIOUS
<1> QED BY <1>1, RunCheck DEF None

\* A table, looked for among the globals and the loaded modules.
LEMMA TableBalanced ==
  ASSUME NEW s \in DescribeTable PROVE Balanced(s)
<1> DEFINE x(h) == Account(h, 8, 0, 0)
           text == IF ok THEN ToString \o <<Pop(1)>> ELSE << >>
           all(g, l) ==
             <<Check(8)>> \o text \o <<IfGlobals>> \o g \o <<Push, Push, Pop(1)>> \o l \o <<Pop(1)>>
<1>1. PICK g \in Scans, l \in Scans : s = all(g, l)
  <2>1. DescribeTable = {all(g, l) : g \in Scans, l \in Scans} BY DEF DescribeTable
  <2> HIDE DEF all
  <2> QED BY <2>1
<1>2. Run(<<Check(8)>>, None, x(0)) BY RunFirstCheck
<1>3. Run(text, x(0), x(0)) BY RunText
<1>4. Run(<<IfGlobals>>, x(0), x(0)) BY RunGlobals
<1>5. Run(g, x(0), x(0)) BY RunScans
<1>6. Run(<<Push, Push, Pop(1)>>, x(0), x(1))
  <2>1. Run(ToString, Account(0, 8, 0, 0), Account(0 + 1, 8, 0, 0)) BY RunToString
  <2> QED BY <2>1 DEF ToString
<1>7. Run(l, x(1), x(1)) BY RunScans
<1>8. Run(<<Pop(1)>>, x(1), x(0))
  <2>1. Run(<<Pop(1)>>, Account(1, 8, 0, 0), Account(1 - 1, 8, 0, 0)) BY RunPop
  <2> QED BY <2>1
<1> HIDE DEF x, text
<1>9. Run(<<Check(8)>> \o text, None, x(0)) BY <1>2, <1>3, RunsCompose
<1>10. Run(<<Check(8)>> \o text \o <<IfGlobals>>, None, x(0)) BY <1>9, <1>4, RunsCompose
<1>11. Run(<<Check(8)>> \o text \o <<IfGlobals>> \o g, None, x(0)) BY <1>10, <1>5, RunsCompose
<1>12. Run(<<Check(8)>> \o text \o <<IfGlobals>> \o g \o <<Push, Push, Pop(1)>>, None, x(1))
  BY <1>11, <1>6, RunsCompose
<1>13. Run(<<Check(8)>> \o text \o <<IfGlobals>> \o g \o <<Push, Push, Pop(1)>> \o l, None, x(1))
  BY <1>12, <1>7, RunsCompose
<1>14. Run(s, None, x(0)) BY <1>1, <1>13, <1>8, RunsCompose DEF all
<1> QED BY <1>14 DEF Balanced, x

\* Light userdata.
LEMMA LightBalanced == Balanced(DescribeLight)
<1>1. Run(<<Check(2)>>, None, Account(0, 2, 0, 0)) BY RunFirstCheck
<1>2. Run(IF ok THEN ToString \o <<Pop(1)>> ELSE << >>, Account(0, 2, 0, 0), Account(0, 2, 0, 0))
  BY RunText
<1>3. Run(DescribeLight, None, Account(0, 2, 0, 0)) BY <1>1, <1>2, RunsCompose DEF DescribeLight
<1> QED BY <1>3 DEF Balanced

\* A function, whose lua_getinfo takes the copy that was pushed for it.
LEMMA FunctionBalanced == Balanced(DescribeFunction)
<1> DEFINE x(h) == Account(h, 3, 0, 0)
<1>1. Run(<<Check(3)>>, None, x(0)) BY RunFirstCheck
<1>2. Run(<<Push>>, x(0), x(1))
  <2>1. Run(<<Push>>, Account(0, 3, 0, 0), Account(0 + 1, 3, 0, 0)) BY RunPush
  <2> QED BY <2>1
<1>3. Run(<<Pop(1)>>, x(1), x(0))
  <2>1. Run(<<Pop(1)>>, Account(1, 3, 0, 0), Account(1 - 1, 3, 0, 0)) BY RunPop
  <2> QED BY <2>1
<1>4. Run(Named, x(0), x(1))
  <2>1. Run(Named, Account(0, 3, 0, 0), Account(0 + 1, 3, 0, 0)) BY RunNamed
  <2> QED BY <2>1
<1> HIDE DEF x
<1>5. Run(<<Check(3), Push, Pop(1)>>, None, x(0)) BY <1>1, <1>2, <1>3, ThreeRun
<1>6. Run(<<Check(3), Push, Pop(1)>> \o Named, None, x(1)) BY <1>4, <1>5, RunsCompose
<1>7. Run(DescribeFunction, None, x(0)) BY <1>3, <1>6, RunsCompose DEF DescribeFunction
<1> QED BY <1>7 DEF Balanced, x

\* Another thread, where luaL_where pushes on that thread's stack.
LEMMA ThreadBalanced == Balanced(DescribeThread)
<1> DEFINE x(h, c, r) == Account(h, 4, c, r)
<1>1. Run(<<Check(4)>>, None, x(0, 0, 0)) BY RunFirstCheck
<1>2. Run(<<CoroCheck>>, x(0, 0, 0), x(0, 0, 1))
  <2>1. Run(<<CoroCheck>>, Account(0, 4, 0, 0), Account(0, 4, 0, 1)) BY 0 <= 4, RunCoro
  <2> QED BY <2>1
<1>3. Run(Named, x(0, 0, 1), x(1, 0, 1))
  <2>1. Run(Named, Account(0, 4, 0, 1), Account(0 + 1, 4, 0, 1)) BY RunNamed
  <2> QED BY <2>1
<1>4. Run(<<Push>>, x(1, 0, 1), x(2, 0, 1))
  <2>1. Run(<<Push>>, Account(1, 4, 0, 1), Account(1 + 1, 4, 0, 1)) BY RunPush
  <2> QED BY <2>1
<1>5. Run(<<CoroPush>>, x(2, 0, 1), x(2, 1, 1)) BY RunCoro
<1>6. Run(<<Pop(2)>>, x(2, 1, 1), x(0, 1, 1))
  <2>1. Run(<<Pop(2)>>, Account(2, 4, 1, 1), Account(2 - 2, 4, 1, 1)) BY RunPop
  <2> QED BY <2>1
<1>7. Run(<<CoroPop>>, x(0, 1, 1), x(0, 0, 1)) BY RunCoro
<1> HIDE DEF x
<1>8. Run(<<Check(4), CoroCheck>>, None, x(0, 0, 1)) BY <1>1, <1>2, TwoRun
<1>9. Run(<<Check(4), CoroCheck>> \o Named, None, x(1, 0, 1)) BY <1>3, <1>8, RunsCompose
<1>10. Run(<<Push, CoroPush, Pop(2), CoroPop>>, x(1, 0, 1), x(0, 0, 1))
  BY <1>4, <1>5, <1>6, <1>7, FourRun
<1>11. Run(DescribeThread, None, x(0, 0, 1)) BY <1>9, <1>10, RunsCompose DEF DescribeThread
<1> QED BY <1>11 DEF Balanced, x

\* The thread whose stack is dumped: luaL_where pushes among the others.
LEMMA SelfBalanced == Balanced(DescribeSelf)
<1> DEFINE x(h) == Account(h, 4, 0, 0)
<1>1. Run(<<Check(4)>>, None, x(0)) BY RunFirstCheck
<1>2. Run(<<Check(1)>>, x(0), x(0))
  <2>1. 4 = IF 0 + 1 > 4 THEN 0 + 1 ELSE 4 OBVIOUS
  <2> QED BY <2>1, RunCheck
<1>3. Run(Named, x(0), x(1))
  <2>1. Run(Named, Account(0, 4, 0, 0), Account(0 + 1, 4, 0, 0)) BY RunNamed
  <2> QED BY <2>1
<1>4. Run(<<Push>>, x(1), x(2))
  <2>1. Run(<<Push>>, Account(1, 4, 0, 0), Account(1 + 1, 4, 0, 0)) BY RunPush
  <2> QED BY <2>1
<1>5. Run(<<Push>>, x(2), x(3))
  <2>1. Run(<<Push>>, Account(2, 4, 0, 0), Account(2 + 1, 4, 0, 0)) BY RunPush
  <2> QED BY <2>1
<1>6. Run(<<Pop(3)>>, x(3), x(0))
  <2>1. Run(<<Pop(3)>>, Account(3, 4, 0, 0), Account(3 - 3, 4, 0, 0)) BY RunPop
  <2> QED BY <2>1
<1> HIDE DEF x
<1>7. Run(<<Check(4), Check(1)>>, None, x(0)) BY <1>1, <1>2, TwoRun
<1>8. Run(<<Check(4), Check(1)>> \o Named, None, x(1)) BY <1>3, <1>7, RunsCompose
<1>9. Run(<<Push, Push, Pop(3)>>, x(1), x(0)) BY <1>4, <1>5, <1>6, ThreeRun
<1>10. Run(DescribeSelf, None, x(0)) BY <1>8, <1>9, RunsCompose DEF DescribeSelf
<1> QED BY <1>10 DEF Balanced, x

\* Every other value.
LEMMA OtherBalanced == Balanced(DescribeOther)
<1>1. CASE ok
  <2>1. Run(<<Check(2)>>, None, Account(0, 2, 0, 0)) BY RunFirstCheck
  <2>2. Run(ToString, Account(0, 2, 0, 0), Account(1, 2, 0, 0))
    <3>1. Run(ToString, Account(0, 2, 0, 0), Account(0 + 1, 2, 0, 0)) BY RunToString
    <3> QED BY <3>1
  <2>3. Run(<<Pop(1)>>, Account(1, 2, 0, 0), Account(0, 2, 0, 0))
    <3>1. Run(<<Pop(1)>>, Account(1, 2, 0, 0), Account(1 - 1, 2, 0, 0)) BY RunPop
    <3> QED BY <3>1
  <2>4. Run(<<Check(2)>> \o ToString, None, Account(1, 2, 0, 0)) BY <2>1, <2>2, RunsCompose
  <2>5. Run(<<Check(2)>> \o ToString \o <<Pop(1)>>, None, Account(0, 2, 0, 0))
    BY <2>3, <2>4, RunsCompose
  <2>6. DescribeOther = <<Check(2)>> \o ToString \o <<Pop(1)>> BY <1>1 DEF DescribeOther
  <2> QED BY <2>5, <2>6 DEF Balanced
<1>2. CASE ~ ok
  <2>1. Run(<< >>, None, Account(0, 0, 0, 0)) BY AccountIn, EmptyRun DEF None
  <2>2. DescribeOther = << >> BY <1>2 DEF DescribeOther
  <2> QED BY <2>1, <2>2 DEF Balanced
<1> QED BY <1>1, <1>2

\* dbgval balances, whatever the value and whichever way the walks go.
LEMMA DbgvalBalanced ==
  ASSUME NEW kind \in Kinds, NEW s \in ngx_lua_select_luaS_dbgval(kind)
  PROVE  Balanced(s)
<1>1. CASE kind \in Plain
  <2>1. s = << >> BY <1>1 DEF ngx_lua_select_luaS_dbgval, Plain, Tables
  <2>2. Run(<< >>, None, Account(0, 0, 0, 0)) BY AccountIn, EmptyRun DEF None
  <2> QED BY <2>1, <2>2 DEF Balanced
<1>2. CASE kind \in Tables
  <2>1. s \in DescribeTable BY <1>2 DEF ngx_lua_select_luaS_dbgval, Plain, Tables
  <2> QED BY <2>1, TableBalanced
<1>3. CASE kind = "light"
  <2>1. s = DescribeLight BY <1>3 DEF ngx_lua_select_luaS_dbgval, Plain, Tables
  <2> QED BY <2>1, LightBalanced
<1>4. CASE kind = "function"
  <2>1. s = DescribeFunction BY <1>4 DEF ngx_lua_select_luaS_dbgval, Plain, Tables
  <2> QED BY <2>1, FunctionBalanced
<1>5. CASE kind = "thread"
  <2>1. s = DescribeThread BY <1>5 DEF ngx_lua_select_luaS_dbgval, Plain, Tables
  <2> QED BY <2>1, ThreadBalanced
<1>6. CASE kind = "self"
  <2>1. s = DescribeSelf BY <1>6 DEF ngx_lua_select_luaS_dbgval, Plain, Tables
  <2> QED BY <2>1, SelfBalanced
<1>7. CASE kind = "userdata"
  <2>1. s = DescribeOther BY <1>7 DEF ngx_lua_select_luaS_dbgval, Plain, Tables
  <2> QED BY <2>1, OtherBalanced
<1> QED BY <1>1, <1>2, <1>3, <1>4, <1>5, <1>6, <1>7 DEF Kinds

---------------------------------------------------------------------------
(***************************************************************************)
(* The invariant.                                                          *)
(***************************************************************************)
DebugType ==
  /\ caller \in Seq(Kinds)
  /\ stack \in Seq(Values)
  /\ room \in Nat /\ coro \in {0, 1} /\ cororoom \in {0, 1}
  /\ n \in Nat /\ top \in Nat
  /\ ops \in Seq(Ops)
  /\ at \in {"print", "dbgval", "finish", "log", "done", "abort"}

\* The caller's values are where they were, and above them there is none of them.
Intact ==
  /\ Len(caller) <= Len(stack)
  /\ \A i \in 1 .. Len(caller) : stack[i] = caller[i]
  /\ \A i \in Len(caller) + 1 .. Len(stack) : stack[i] \in {"temp", "piece"}

\* The stacks are as account x has them.
Accounted(x) ==
  /\ Len(stack) = top + x.h /\ top + x.k <= room
  /\ coro = x.c /\ x.r <= cororoom

\* What dbgval has still to do takes the stacks back to where they were.
Returning ==
  \E x \in Accounts, k \in Nat, r \in {0, 1} :
    Accounted(x) /\ Run(ops, x, Account(0, k, 0, r))

\* The value on top was found to be _G: it is popped, and was the caller's.
GlobalsOnTop == caller # << >> /\ caller[Len(caller)] = "globals"
Popped       == stack = SubSeq(caller, 1, Len(caller) - 1)
Popping ==
  /\ top = Len(caller) /\ GlobalsOnTop
  /\ \/ ops = <<Pop(1)>> /\ stack = caller
     \/ ops = << >> /\ Popped

Describing == (Intact /\ Len(caller) <= top /\ Returning) \/ Popping

Phase ==
  /\ at = "print"  => stack = caller /\ coro = 0
  /\ at = "dbgval" => n \in 1 .. Len(caller) /\ Describing
  /\ at = "finish" => Intact /\ coro = 0
  /\ at = "log"    => stack = Append(caller, "temp") /\ coro = 0
  /\ at = "done"   => stack = caller /\ coro = 0
  /\ at = "abort"  => GlobalsOnTop /\ Popped

DebugInv == DebugType /\ SlotsReserved /\ Phase

\* The bottom of a stack.
LEMMA Bottom ==
  ASSUME NEW s \in Seq(Values), NEW m \in Nat, m <= Len(s)
  PROVE  /\ SubSeq(s, 1, m) \in Seq(Values) /\ Len(SubSeq(s, 1, m)) = m
         /\ \A i \in 1 .. m : SubSeq(s, 1, m)[i] = s[i]
OBVIOUS

\* A stack cut down to the caller's height is the caller's.
LEMMA IntactBottom ==
  ASSUME DebugType, Intact
  PROVE  SubSeq(stack, 1, Len(caller)) = caller
<1>1. PICK m \in Nat : m = Len(caller) BY DEF DebugType
<1>2. caller \in Seq(Values) /\ stack \in Seq(Values) BY DEF DebugType, Values
<1>3. m <= Len(stack) /\ \A i \in 1 .. m : stack[i] = caller[i] BY <1>1 DEF Intact
<1>4. /\ SubSeq(stack, 1, m) \in Seq(Values) /\ Len(SubSeq(stack, 1, m)) = m
      /\ \A i \in 1 .. m : SubSeq(stack, 1, m)[i] = stack[i]
  BY <1>2, <1>3, Bottom
<1>5. \A i \in 1 .. m : SubSeq(stack, 1, m)[i] = caller[i] BY <1>3, <1>4
<1> QED BY <1>1, <1>2, <1>4, <1>5, SeqEqual

\* A stack of the caller's height is the caller's.
LEMMA IntactWhole ==
  ASSUME DebugType, Intact, Len(stack) = Len(caller)
  PROVE  stack = caller
<1>1. caller \in Seq(Values) /\ stack \in Seq(Values) BY DEF DebugType, Values
<1>2. \A i \in 1 .. Len(stack) : stack[i] = caller[i] BY DEF Intact
<1> QED BY <1>1, <1>2, SeqEqual

\* The text moves to the stack above the caller's values, into slots of its own.
LEMMA AddStringKeeps ==
  ASSUME DebugType, Intact, Len(stack) <= room, AddString, caller' = caller
  PROVE  /\ stack' \in Seq(Values) /\ room' \in Nat
         /\ Intact' /\ Len(stack') <= room'
<1>1. PICK more \in {0, 1} :
        /\ stack' = stack \o [i \in 1 .. more |-> "piece"]
        /\ room' = room + more
  BY DEF AddString
<1> DEFINE p == [i \in 1 .. more |-> "piece"]
<1>2. p \in Seq(Values) /\ Len(p) = more /\ \A i \in 1 .. more : p[i] = "piece"
  BY DEF Values
<1> HIDE DEF p
<1>3. PICK m \in Nat : m = Len(caller) BY DEF DebugType
<1>4. stack \in Seq(Values) BY DEF DebugType
<1>5. PICK k \in Nat : k = Len(stack) BY <1>4
<1>6. /\ stack' \in Seq(Values) /\ Len(stack') = k + more
      /\ \A i \in 1 .. k + more : stack'[i] = IF i <= k THEN stack[i] ELSE p[i - k]
  BY <1>1, <1>2, <1>4, <1>5, ConcatProperties DEF p
<1>7. /\ m <= k /\ \A i \in 1 .. m : stack[i] = caller[i]
      /\ \A i \in m + 1 .. k : stack[i] \in {"temp", "piece"}
  BY <1>3, <1>5 DEF Intact
<1>8. \A i \in 1 .. m : stack'[i] = caller[i] BY <1>6, <1>7
<1>9. ASSUME NEW i \in m + 1 .. k + more PROVE stack'[i] \in {"temp", "piece"}
  <2>1. CASE i <= k BY <2>1, <1>6, <1>7
  <2>2. CASE i > k
    <3>1. i - k \in 1 .. more /\ ~ (i <= k) /\ i \in 1 .. k + more BY <2>2
    <3> QED BY <3>1, <1>2, <1>6
  <2>3. i <= k \/ i > k OBVIOUS
  <2> QED BY <2>1, <2>2, <2>3
<1>10. Intact' BY <1>3, <1>6, <1>7, <1>8, <1>9 DEF Intact
<1>11. room \in Nat /\ room' \in Nat /\ Len(stack') <= room' BY <1>1, <1>5, <1>6 DEF DebugType
<1> QED BY <1>6, <1>10, <1>11

\* dbgval begins with an account of nothing.
LEMMA DescribeStarts ==
  ASSUME DebugType, caller' = caller, coro' = 0, cororoom' \in {0, 1},
         stack' \in Seq(Values), room' \in Nat, Intact', Len(stack') <= room',
         NEW i \in 0 .. Len(caller), Describe(i)
  PROVE  DebugInv'
<1>1. PICK m \in Nat : m = Len(caller) BY DEF DebugType
<1>2. n' = i /\ n' \in Nat BY <1>1 DEF Describe
<1>3. SlotsReserved' BY DEF SlotsReserved, Height
<1>4. CASE i = 0
  <2>1. at' = "finish" /\ top' = top /\ ops' = ops BY <1>4 DEF Describe
  <2>2. DebugType' BY <1>2, <2>1 DEF DebugType
  <2>3. Phase' BY <2>1 DEF Phase
  <2> QED BY <1>3, <2>2, <2>3 DEF DebugInv
<1>5. CASE i # 0
  <2>1. at' = "dbgval" /\ top' = Len(stack') /\ ops' \in ngx_lua_select_luaS_dbgval(caller[i])
    BY <1>5 DEF Describe
  <2>2. i \in 1 .. m /\ caller[i] \in Kinds BY <1>1, <1>5 DEF DebugType
  <2>3. Balanced(ops') BY <2>1, <2>2, DbgvalBalanced
  <2>4. PICK k \in Nat, r \in {0, 1} : Run(ops', None, Account(0, k, 0, r)) BY <2>3 DEF Balanced
  <2>5. ops' \in Seq(Ops) BY <2>4 DEF Run
  <2>6. None \in Accounts /\ None.h = 0 /\ None.k = 0 /\ None.c = 0 /\ None.r = 0
    BY AccountIn DEF None
  <2>7. Len(stack') \in Nat OBVIOUS
  <2>8. Accounted(None)' BY <2>1, <2>6, <2>7 DEF Accounted
  <2>9. Returning' BY <2>4, <2>6, <2>8 DEF Returning
  <2>10. Len(caller') <= top' BY <2>1 DEF Intact
  <2>11. Describing' BY <2>9, <2>10 DEF Describing
  <2>12. DebugType' BY <1>2, <2>1, <2>5, <2>7 DEF DebugType
  <2>13. Phase' BY <1>1, <1>2, <2>1, <2>2, <2>11 DEF Phase
  <2> QED BY <1>3, <2>12, <2>13 DEF DebugInv
<1> QED BY <1>4, <1>5

---------------------------------------------------------------------------
(***************************************************************************)
(* The steps.                                                              *)
(***************************************************************************)
\* The dump begins with the caller's stack.
LEMMA PrintStep ==
  ASSUME DebugInv, ngx_lua_select_luaS_printstack_named PROVE DebugInv'
<1> USE DEF DebugInv
<1>1. /\ at = "print" /\ AddString /\ Describe(Len(caller))
      /\ caller' = caller /\ coro' = coro /\ cororoom' = cororoom
  BY DEF ngx_lua_select_luaS_printstack_named
<1>2. stack = caller /\ coro = 0 BY <1>1 DEF Phase
<1>3. Len(caller) \in Nat BY DEF DebugType
<1>4. Intact BY <1>2, <1>3 DEF Intact
<1>5. Len(stack) <= room BY DEF SlotsReserved, Height
<1>6. stack' \in Seq(Values) /\ room' \in Nat /\ Intact' /\ Len(stack') <= room'
  BY <1>1, <1>4, <1>5, AddStringKeeps
<1>7. Len(caller) \in 0 .. Len(caller) BY <1>3
<1>8. coro' = 0 /\ cororoom' \in {0, 1} BY <1>1, <1>2 DEF DebugType
<1> HIDE DEF DebugInv
<1> QED BY <1>1, <1>6, <1>7, <1>8, DescribeStarts DEF DebugInv

\* The assertion of dbgval, which holds unless _G was popped.
LEMMA ReturnStep ==
  ASSUME DebugInv, DbgvalReturns PROVE DebugInv'
<1>1. /\ at = "dbgval" /\ ops = << >>
      /\ caller' = caller /\ coro' = coro /\ cororoom' = cororoom
  BY DEF DbgvalReturns
<1>2. DebugType /\ n \in 1 .. Len(caller) /\ Describing BY <1>1 DEF DebugInv, Phase
<1>3. PICK m \in Nat : m = Len(caller) BY <1>2 DEF DebugType
<1>4. Len(stack) \in Nat /\ Len(stack) <= room BY <1>2 DEF DebugInv, SlotsReserved, Height, DebugType
<1>5. CASE Intact /\ Len(caller) <= top /\ Returning
  <2>1. PICK x \in Accounts, k \in Nat, r \in {0, 1} :
          Accounted(x) /\ Run(ops, x, Account(0, k, 0, r))
    BY <1>5 DEF Returning
  <2>2. x = Account(0, k, 0, r) BY <1>1, <2>1, RunOfNothing
  <2>3. x.h = 0 /\ x.c = 0 BY <2>2 DEF Account
  <2>4. Len(stack) = top /\ coro = 0 BY <1>2, <2>1, <2>3 DEF Accounted, DebugType
  <2>5. AddString /\ Describe(n - 1) BY <2>4 DEF DbgvalReturns, Height
  <2>6. stack' \in Seq(Values) /\ room' \in Nat /\ Intact' /\ Len(stack') <= room'
    BY <1>1, <1>2, <1>4, <1>5, <2>5, AddStringKeeps
  <2>7. n - 1 \in 0 .. Len(caller) BY <1>2, <1>3
  <2>8. coro' = 0 /\ cororoom' \in {0, 1} BY <1>1, <1>2, <2>4 DEF DebugType
  <2> QED BY <1>1, <1>2, <2>5, <2>6, <2>7, <2>8, DescribeStarts
<1>6. CASE Popping
  <2>1. top = m /\ GlobalsOnTop /\ Popped
    BY <1>1, <1>3, <1>6 DEF Popping
  <2>2. caller \in Seq(Values) /\ m # 0 BY <1>2, <1>3, <2>1 DEF DebugType, Values, GlobalsOnTop
  <2>3. m - 1 \in Nat /\ m - 1 <= m BY <2>2
  <2>4. Len(stack) = m - 1 BY <1>3, <2>1, <2>2, <2>3, Bottom DEF Popped
  <2>5. at' = "abort" /\ stack' = stack /\ room' = room /\ n' = n /\ top' = top /\ ops' = ops
    BY <2>1, <2>3, <2>4 DEF DbgvalReturns, Height
  <2>6. DebugType' BY <1>1, <1>2, <2>5 DEF DebugType
  <2>7. SlotsReserved' BY <1>1, <2>5 DEF DebugInv, SlotsReserved, Height
  <2>8. Phase' BY <1>1, <2>1, <2>5 DEF Phase, GlobalsOnTop, Popped
  <2> QED BY <2>6, <2>7, <2>8 DEF DebugInv
<1> QED BY <1>2, <1>5, <1>6 DEF Describing

\* luaL_pushresult takes the pieces away and leaves the text.
LEMMA ResultStep ==
  ASSUME DebugInv, PushResult PROVE DebugInv'
<1>1. /\ at = "finish" /\ at' = "log" /\ room' = Above(Height, 1)
      /\ stack' = Append(SubSeq(stack, 1, Height - Pieces), "temp")
      /\ caller' = caller /\ coro' = coro /\ cororoom' = cororoom
      /\ n' = n /\ top' = top /\ ops' = ops
  BY DEF PushResult
<1>2. DebugType /\ Intact /\ coro = 0 BY <1>1 DEF DebugInv, Phase
<1>3. PICK m \in Nat : m = Len(caller) BY <1>2 DEF DebugType
<1>4. PICK k \in Nat : k = Len(stack) BY <1>2 DEF DebugType
<1>5. Height - Pieces = m /\ m <= k BY <1>2, <1>3, <1>4 DEF Height, Pieces, Intact
<1>6. stack' = Append(caller, "temp") BY <1>1, <1>2, <1>3, <1>5, IntactBottom
<1>7. caller \in Seq(Values) /\ "temp" \in Values BY <1>2 DEF DebugType, Values
<1>8. stack' \in Seq(Values) /\ Len(stack') = m + 1 BY <1>3, <1>6, <1>7
<1>9. room \in Nat /\ room' \in Nat /\ k + 1 <= room'
  BY <1>1, <1>2, <1>4 DEF Above, Height, DebugType
<1>10. DebugType' BY <1>1, <1>2, <1>8, <1>9 DEF DebugType
<1>11. SlotsReserved'
  <2>1. coro' <= cororoom' BY <1>1 DEF DebugInv, SlotsReserved
  <2>2. Len(stack') <= room' BY <1>5, <1>8, <1>9
  <2> QED BY <2>1, <2>2 DEF SlotsReserved, Height
<1>12. Phase' BY <1>1, <1>2, <1>6 DEF Phase
<1> QED BY <1>10, <1>11, <1>12 DEF DebugInv

\* The text is logged and popped.
LEMMA LogStep ==
  ASSUME DebugInv, Log PROVE DebugInv'
<1>1. /\ at = "log" /\ stack' = SubSeq(stack, 1, Height - 1)
      /\ at' = IF Height - 1 = Len(caller) THEN "done" ELSE "abort"
      /\ caller' = caller /\ room' = room /\ coro' = coro /\ cororoom' = cororoom
      /\ n' = n /\ top' = top /\ ops' = ops
  BY DEF Log
<1>2. DebugType /\ stack = Append(caller, "temp") /\ coro = 0 BY <1>1 DEF DebugInv, Phase
<1>3. PICK m \in Nat : m = Len(caller) BY <1>2 DEF DebugType
<1>4. caller \in Seq(Values) /\ stack \in Seq(Values) BY <1>2 DEF DebugType, Values
<1>5. Len(stack) = m + 1 /\ \A i \in 1 .. m : stack[i] = caller[i]
  BY <1>2, <1>3, <1>4
<1>6. Height - 1 = m BY <1>5 DEF Height
<1>7. /\ stack' \in Seq(Values) /\ Len(stack') = m
      /\ \A i \in 1 .. m : stack'[i] = stack[i]
  BY <1>1, <1>4, <1>5, <1>6, Bottom
<1>8. \A i \in 1 .. m : stack'[i] = caller[i] BY <1>5, <1>7
<1>9. stack' = caller BY <1>3, <1>4, <1>7, <1>8, SeqEqual
<1>10. at' = "done" BY <1>1, <1>3, <1>6
<1>11. DebugType' BY <1>1, <1>2, <1>7, <1>10 DEF DebugType
<1>12. SlotsReserved'
  <2>1. Len(stack) <= room /\ coro <= cororoom BY DEF DebugInv, SlotsReserved, Height
  <2>2. room \in Nat BY <1>2 DEF DebugType
  <2>3. Len(stack') <= room' BY <1>1, <1>5, <1>7, <2>1, <2>2
  <2> QED BY <1>1, <2>1, <2>3 DEF SlotsReserved, Height
<1>13. Phase' BY <1>1, <1>2, <1>9, <1>10 DEF Phase
<1> QED BY <1>11, <1>12, <1>13 DEF DebugInv

\* dbgval goes on with the account that the operation has made.
LEMMA OperateKeeps ==
  ASSUME DebugInv, at = "dbgval", n \in 1 .. Len(caller), Len(caller) <= top,
         UNCHANGED <<caller, n, top, at>>,
         stack' \in Seq(Values), room' \in Nat, coro' \in {0, 1}, cororoom' \in {0, 1}, Intact',
         NEW z \in Accounts, NEW k \in Nat, NEW r \in {0, 1},
         Accounted(z)', Run(ops', z, Account(0, k, 0, r))
  PROVE  DebugInv'
<1>1. ops' \in Seq(Ops) BY DEF Run
<1>2. DebugType' BY <1>1 DEF DebugInv, DebugType
<1>3. SlotsReserved'
  <2>1. z.h \in Nat /\ z.k \in Nat /\ z.h <= z.k BY DEF Accounts
  <2>2. z.c \in {0, 1} /\ z.r \in {0, 1} /\ z.c <= z.r BY DEF Accounts
  <2>3. top' \in Nat BY <1>2 DEF DebugType
  <2>4. Len(stack') = top' + z.h /\ top' + z.k <= room' /\ coro' = z.c /\ z.r <= cororoom'
    BY DEF Accounted
  <2>5. Len(stack') <= room' BY <2>1, <2>3, <2>4
  <2>6. coro' <= cororoom' BY <2>2, <2>4
  <2> QED BY <2>5, <2>6 DEF SlotsReserved, Height
<1>4. Returning' BY DEF Returning
<1>5. Len(caller') <= top' OBVIOUS
<1>6. Describing' BY <1>4, <1>5 DEF Describing
<1>7. Phase' BY <1>6 DEF Phase
<1> QED BY <1>2, <1>3, <1>7 DEF DebugInv

\* An operation of a run that returns.
LEMMA ReturningStep ==
  ASSUME DebugInv, Operate, Intact, Len(caller) <= top, Returning PROVE DebugInv'
<1> DEFINE o == Head(ops)
<1>1. /\ at = "dbgval" /\ ops # << >>
      /\ stack' = CASE o.op = "push" -> Append(stack, "temp")
                    [] o.op = "pop"  -> SubSeq(stack, 1, Height - o.k)
                    [] OTHER         -> stack
      /\ room' = IF o.op = "check" THEN Above(Height, o.k) ELSE room
      /\ cororoom' = IF o.op = "corocheck" THEN coro + o.k ELSE cororoom
      /\ coro' = CASE o.op = "coropush" -> coro + 1
                   [] o.op = "coropop"  -> coro - 1
                   [] OTHER             -> coro
      /\ ops' = IF o.op = "globals" /\ stack[Height] = "globals"
                THEN <<Pop(1)>> ELSE Tail(ops)
      /\ UNCHANGED <<caller, n, top, at>>
  BY DEF Operate
<1>2. PICK x \in Accounts, k \in Nat, r \in {0, 1} :
        Accounted(x) /\ Run(ops, x, Account(0, k, 0, r))
  BY DEF Returning
<1>3. o \in Ops /\ \E z \in Accounts : Moves(o, x, z) /\ Run(Tail(ops), z, Account(0, k, 0, r))
  BY <1>1, <1>2, FirstMove
<1>4. PICK z \in Accounts : Moves(o, x, z) /\ Run(Tail(ops), z, Account(0, k, 0, r)) BY <1>3
<1>5. o.k \in Nat BY <1>3 DEF Ops
<1> HIDE DEF o
<1>6. DebugType /\ n \in 1 .. Len(caller) BY <1>1 DEF DebugInv, Phase
<1>7. stack \in Seq(Values) /\ room \in Nat /\ top \in Nat /\ coro \in {0, 1} /\ cororoom \in {0, 1}
  BY <1>6 DEF DebugType
<1>8. PICK m \in Nat : m = Len(caller) BY <1>6 DEF DebugType
<1>9. PICK l \in Nat : l = Len(stack) BY <1>7
<1>10. x.h \in Nat /\ x.k \in Nat /\ x.c \in {0, 1} /\ x.r \in {0, 1} /\ x.h <= x.k /\ x.c <= x.r
  BY DEF Accounts
<1>11. l = top + x.h /\ top + x.k <= room /\ coro = x.c /\ x.r <= cororoom
  BY <1>2, <1>9 DEF Accounted
<1>12. /\ m <= l /\ m <= top
       /\ \A i \in 1 .. m : stack[i] = caller[i]
       /\ \A i \in m + 1 .. l : stack[i] \in {"temp", "piece"}
  BY <1>8, <1>9 DEF Intact
<1>13. x \in [h : Nat, k : Nat, c : {0, 1}, r : {0, 1}] BY DEF Accounts
<1>14. caller' = caller /\ n' = n /\ top' = top /\ at' = at BY <1>1
<1>15. CASE o.op = "check"
  <2>1. z = [x EXCEPT !.k = IF x.h + o.k > x.k THEN x.h + o.k ELSE x.k] BY <1>4, <1>15 DEF Moves
  <2>2. /\ z.h = x.h /\ z.c = x.c /\ z.r = x.r
        /\ z.k = IF x.h + o.k > x.k THEN x.h + o.k ELSE x.k
    BY <1>13, <2>1
  <2>3. /\ stack' = stack /\ coro' = coro /\ cororoom' = cororoom /\ ops' = Tail(ops)
        /\ room' = IF l + o.k > room THEN l + o.k ELSE room
    BY <1>1, <1>9, <1>15 DEF Above, Height
  <2>4. room' \in Nat /\ top + z.k <= room'
    <3>1. room' \in Nat /\ room <= room' /\ l + o.k <= room' BY <1>5, <1>7, <2>3
    <3>2. z.k = x.k \/ z.k = x.h + o.k BY <2>2
    <3>3. top + x.k <= room' BY <1>7, <1>10, <1>11, <3>1
    <3>4. top + (x.h + o.k) <= room' BY <1>5, <1>7, <1>10, <1>11, <3>1
    <3> QED BY <3>1, <3>2, <3>3, <3>4
  <2>5. Intact' BY <1>1, <2>3 DEF Intact
  <2>6. Accounted(z)' BY <1>14, <1>9, <1>11, <2>2, <2>3, <2>4 DEF Accounted
  <2> QED BY <1>1, <1>4, <1>6, <1>7, <2>3, <2>4, <2>5, <2>6, OperateKeeps
<1>16. CASE o.op = "push"
  <2>1. x.h < x.k /\ z = [x EXCEPT !.h = x.h + 1] BY <1>4, <1>16 DEF Moves
  <2>2. z.h = x.h + 1 /\ z.k = x.k /\ z.c = x.c /\ z.r = x.r BY <1>13, <2>1
  <2>3. /\ stack' = Append(stack, "temp") /\ coro' = coro /\ cororoom' = cororoom
        /\ room' = room /\ ops' = Tail(ops)
    BY <1>1, <1>16
  <2>4. /\ stack' \in Seq(Values) /\ Len(stack') = l + 1 /\ stack'[l + 1] = "temp"
        /\ \A i \in 1 .. l : stack'[i] = stack[i]
    BY <1>7, <1>9, <2>3 DEF Values
  <2>5. Intact'
    <3>1. \A i \in 1 .. m : stack'[i] = caller[i] BY <1>12, <2>4
    <3>2. ASSUME NEW i \in m + 1 .. l + 1 PROVE stack'[i] \in {"temp", "piece"}
      <4>1. CASE i = l + 1 BY <4>1, <2>4
      <4>2. CASE i # l + 1
        <5>1. i \in m + 1 .. l /\ i \in 1 .. l BY <4>2
        <5> QED BY <5>1, <1>12, <2>4
      <4> QED BY <4>1, <4>2
    <3> QED BY <1>1, <1>8, <1>12, <2>4, <3>1, <3>2 DEF Intact
  <2>6. Accounted(z)'
    <3>1. Len(stack') = top + z.h BY <1>7, <1>10, <1>11, <2>2, <2>4
    <3> QED BY <1>14, <1>11, <2>2, <2>3, <3>1 DEF Accounted
  <2> QED BY <1>1, <1>4, <1>6, <1>7, <2>3, <2>4, <2>5, <2>6, OperateKeeps
<1>17. CASE o.op = "pop"
  <2>1. o.k <= x.h /\ z = [x EXCEPT !.h = x.h - o.k] BY <1>4, <1>17 DEF Moves
  <2>2. z.h = x.h - o.k /\ z.k = x.k /\ z.c = x.c /\ z.r = x.r BY <1>13, <2>1
  <2>3. /\ stack' = SubSeq(stack, 1, l - o.k) /\ coro' = coro /\ cororoom' = cororoom
        /\ room' = room /\ ops' = Tail(ops)
    BY <1>1, <1>9, <1>17 DEF Height
  <2>4. l - o.k \in Nat /\ l - o.k <= l /\ m <= l - o.k /\ l - o.k = top + z.h
    <3>1. PICK h \in Nat : h = x.h BY <1>10
    <3>2. PICK j \in Nat : j = o.k BY <1>5
    <3>3. PICK t \in Nat : t = top BY <1>7
    <3>4. j <= h /\ l = t + h /\ m <= t BY <1>11, <1>12, <2>1, <3>1, <3>2, <3>3
    <3>5. l - j \in Nat /\ l - j <= l /\ m <= l - j /\ l - j = t + (h - j) BY <3>4
    <3> QED BY <2>2, <3>1, <3>2, <3>3, <3>5
  <2>5. /\ stack' \in Seq(Values) /\ Len(stack') = l - o.k
        /\ \A i \in 1 .. l - o.k : stack'[i] = stack[i]
    BY <1>7, <1>9, <2>3, <2>4, Bottom
  <2>6. Intact'
    <3>1. \A i \in 1 .. m : stack'[i] = caller[i]
      <4> SUFFICES ASSUME NEW i \in 1 .. m PROVE stack'[i] = caller[i] OBVIOUS
      <4>1. i \in 1 .. l - o.k BY <2>4
      <4> QED BY <4>1, <1>12, <2>5
    <3>2. ASSUME NEW i \in m + 1 .. l - o.k PROVE stack'[i] \in {"temp", "piece"}
      <4>1. i \in m + 1 .. l /\ i \in 1 .. l - o.k BY <2>4
      <4> QED BY <4>1, <1>12, <2>5
    <3> QED BY <1>1, <1>8, <2>4, <2>5, <3>1, <3>2 DEF Intact
  <2>7. Accounted(z)' BY <1>14, <1>11, <2>2, <2>3, <2>4, <2>5 DEF Accounted
  <2> QED BY <1>1, <1>4, <1>6, <1>7, <2>3, <2>5, <2>6, <2>7, OperateKeeps
<1>18. CASE o.op = "globals"
  <2>1. x.h = 0 /\ z = x BY <1>4, <1>18 DEF Moves
  <2>2. stack' = stack /\ coro' = coro /\ cororoom' = cororoom /\ room' = room
    BY <1>1, <1>18
  <2>3. CASE stack[l] = "globals"
    <3>1. ops' = <<Pop(1)>> BY <1>1, <1>9, <1>18, <2>3 DEF Height
    <3>2. m \in 1 .. l /\ m # 0 BY <1>6, <1>8, <1>12
    <3>3. ~ (l \in m + 1 .. l) BY <1>12, <2>3
    <3>4. l = m BY <3>2, <3>3
    <3>5. stack = caller BY <1>6, <1>8, <1>9, <3>4, IntactWhole
    <3>6. top = m BY <1>7, <1>11, <2>1, <3>4
    <3>7. caller # << >> BY <1>8, <3>2
    <3>8. caller[m] = "globals" BY <2>3, <3>4, <3>5
    <3>9. Popping' BY <1>1, <1>8, <2>2, <3>1, <3>5, <3>6, <3>7, <3>8 DEF Popping, GlobalsOnTop
    <3>10. ops' \in Seq(Ops)
      <4>1. Pop(1) \in Ops BY DEF Pop, Ops, OpNames
      <4> QED BY <3>1, <4>1
    <3>11. DebugType' BY <1>1, <1>6, <2>2, <3>10 DEF DebugType
    <3>12. SlotsReserved' BY <2>2 DEF DebugInv, SlotsReserved, Height
    <3>13. Phase' BY <1>1, <1>6, <3>9 DEF Phase, Describing
    <3> QED BY <3>11, <3>12, <3>13 DEF DebugInv
  <2>4. CASE stack[l] # "globals"
    <3>1. ops' = Tail(ops) BY <1>1, <1>9, <2>4 DEF Height
    <3>2. Intact' BY <1>1, <2>2 DEF Intact
    <3>3. Accounted(z)' BY <1>14, <1>2, <2>1, <2>2 DEF Accounted
    <3> QED BY <1>1, <1>4, <1>6, <1>7, <2>2, <3>1, <3>2, <3>3, OperateKeeps
  <2> QED BY <2>3, <2>4
<1>19. CASE o.op = "corocheck"
  <2>1. o.k = 1 /\ x.c = 0 /\ z = [x EXCEPT !.r = 1] BY <1>4, <1>19 DEF Moves
  <2>2. z.h = x.h /\ z.k = x.k /\ z.c = 0 /\ z.r = 1 BY <1>13, <2>1
  <2>3. stack' = stack /\ coro' = 0 /\ cororoom' = 1 /\ room' = room /\ ops' = Tail(ops)
    BY <1>1, <1>11, <1>19, <2>1
  <2>4. Intact' BY <1>1, <2>3 DEF Intact
  <2>5. Accounted(z)'
    <3>1. Len(stack') = top' + z.h /\ top' + z.k <= room' BY <1>14, <1>9, <1>11, <2>2, <2>3
    <3>2. coro' = z.c /\ z.r <= cororoom' BY <2>2, <2>3
    <3> QED BY <3>1, <3>2 DEF Accounted
  <2> QED BY <1>1, <1>4, <1>6, <1>7, <2>3, <2>4, <2>5, OperateKeeps
<1>20. CASE o.op = "coropush"
  <2>1. x.c = 0 /\ x.r = 1 /\ z = [x EXCEPT !.c = 1] BY <1>4, <1>20 DEF Moves
  <2>2. z.h = x.h /\ z.k = x.k /\ z.c = 1 /\ z.r = 1 BY <1>13, <2>1
  <2>3. stack' = stack /\ coro' = 1 /\ cororoom' = cororoom /\ room' = room /\ ops' = Tail(ops)
    BY <1>1, <1>11, <1>20, <2>1
  <2>4. Intact' BY <1>1, <2>3 DEF Intact
  <2>5. Accounted(z)' BY <1>14, <1>9, <1>11, <2>1, <2>2, <2>3 DEF Accounted
  <2> QED BY <1>1, <1>4, <1>6, <1>7, <2>3, <2>4, <2>5, OperateKeeps
<1>21. CASE o.op = "coropop"
  <2>1. x.c = 1 /\ z = [x EXCEPT !.c = 0] BY <1>4, <1>21 DEF Moves
  <2>2. z.h = x.h /\ z.k = x.k /\ z.c = 0 /\ z.r = x.r BY <1>13, <2>1
  <2>3. stack' = stack /\ coro' = 0 /\ cororoom' = cororoom /\ room' = room /\ ops' = Tail(ops)
    BY <1>1, <1>11, <1>21, <2>1
  <2>4. Intact' BY <1>1, <2>3 DEF Intact
  <2>5. Accounted(z)' BY <1>14, <1>9, <1>11, <2>2, <2>3 DEF Accounted
  <2> QED BY <1>1, <1>4, <1>6, <1>7, <2>3, <2>4, <2>5, OperateKeeps
<1>22. o.op \in OpNames BY <1>3 DEF Ops, o
<1> QED BY <1>15, <1>16, <1>17, <1>18, <1>19, <1>20, <1>21, <1>22 DEF OpNames

\* The pop after _G was found takes the caller's value.
LEMMA PoppingStep ==
  ASSUME DebugInv, Operate, Popping PROVE DebugInv'
<1>1. /\ at = "dbgval" /\ ops # << >> /\ top = Len(caller) /\ GlobalsOnTop
      /\ ops = <<Pop(1)>> /\ stack = caller
  BY DEF Operate, Popping
<1>2. Head(ops) = Pop(1) /\ Tail(ops) = << >> BY <1>1
<1>3. Pop(1).op = "pop" /\ Pop(1).k = 1 BY DEF Pop
<1>4. /\ stack' = SubSeq(stack, 1, Height - 1) /\ ops' = << >>
      /\ coro' = coro /\ cororoom' = cororoom /\ room' = room
      /\ caller' = caller /\ n' = n /\ top' = top /\ at' = at
  BY <1>2, <1>3 DEF Operate
<1>5. DebugType /\ n \in 1 .. Len(caller) BY <1>1 DEF DebugInv, Phase
<1>6. PICK m \in Nat : m = Len(caller) BY <1>5 DEF DebugType
<1>7. m # 0 BY <1>5, <1>6
<1>8. stack' = SubSeq(caller, 1, m - 1) BY <1>1, <1>4, <1>6 DEF Height
<1>9. caller \in Seq(Values) /\ m - 1 \in Nat /\ m - 1 <= m BY <1>5, <1>7 DEF DebugType, Values
<1>10. stack' \in Seq(Values) /\ Len(stack') = m - 1 BY <1>6, <1>8, <1>9, Bottom
<1>11. DebugType' BY <1>4, <1>5, <1>10 DEF DebugType
<1>12. SlotsReserved'
  <2>1. m <= room /\ coro <= cororoom /\ room \in Nat
    BY <1>1, <1>5, <1>6 DEF DebugInv, SlotsReserved, Height, DebugType
  <2>2. Len(stack') <= room' BY <1>4, <1>10, <2>1
  <2> QED BY <1>4, <2>1, <2>2 DEF SlotsReserved, Height
<1>13. Popping' BY <1>1, <1>4, <1>6, <1>8 DEF Popping, GlobalsOnTop, Popped
<1>14. Phase' BY <1>1, <1>4, <1>5, <1>13 DEF Phase, Describing
<1> QED BY <1>11, <1>12, <1>14 DEF DebugInv

---------------------------------------------------------------------------
\* The invariant holds of every dump: at any moment the operations that dbgval has left
\* return the stacks to where they were, or it has found _G on top of the caller's stack.
THEOREM DebugInvariant == Spec => []DebugInv
<1>1. Init => DebugInv
  <2> SUFFICES ASSUME Init PROVE DebugInv OBVIOUS
  <2>1. caller \in Seq(Kinds) BY LuaDebugConstants DEF Init
  <2>2. DebugType BY <2>1 DEF Init, DebugType, Values
  <2>3. SlotsReserved BY <2>1 DEF Init, SlotsReserved, Height
  <2>4. Phase BY DEF Init, Phase
  <2> QED BY <2>2, <2>3, <2>4 DEF DebugInv
<1>2. DebugInv /\ [Next]_vars => DebugInv'
  <2> SUFFICES ASSUME DebugInv, [Next]_vars PROVE DebugInv' OBVIOUS
  <2>1. CASE ngx_lua_select_luaS_printstack_named BY <2>1, PrintStep
  <2>2. CASE Operate
    <3>1. Describing BY <2>2 DEF DebugInv, Phase, Operate
    <3> QED BY <2>2, <3>1, ReturningStep, PoppingStep DEF Describing
  <2>3. CASE DbgvalReturns BY <2>3, ReturnStep
  <2>4. CASE PushResult BY <2>4, ResultStep
  <2>5. CASE Log BY <2>5, LogStep
  <2>6. CASE UNCHANGED vars
    <3>1. DebugType' BY <2>6 DEF DebugInv, DebugType, vars
    <3>2. SlotsReserved' BY <2>6 DEF DebugInv, SlotsReserved, Height, vars
    <3>3. Returning' = Returning BY <2>6 DEF Returning, Accounted, vars
    <3>4. Intact' = Intact /\ Popping' = Popping
      BY <2>6 DEF Intact, Popping, Popped, GlobalsOnTop, vars
    <3>5. Phase'
      BY <2>6, <3>3, <3>4 DEF DebugInv, Phase, Describing, Popped, GlobalsOnTop, vars
    <3> QED BY <3>1, <3>2, <3>5 DEF DebugInv
  <2> QED BY <2>1, <2>2, <2>3, <2>4, <2>5, <2>6 DEF Next
<1> QED BY <1>1, <1>2, PTL DEF Spec

\* A dump that returns has left the stack as it was, value by value, and those of the
\* threads it has described: printstack_named may be put into the middle of other code.
THEOREM DumpsRestoreStacks == Spec => []StackRestored
<1>1. DebugInv => StackRestored BY DEF DebugInv, Phase, StackRestored
<1> QED BY <1>1, DebugInvariant, PTL

\* No push of dbgval goes beyond what luaL_checkstack has made room for, however many
\* globals and modules its walks pass.
THEOREM DumpsStayWithinRoom == Spec => []SlotsReserved
<1>1. DebugInv => SlotsReserved BY DEF DebugInv
<1> QED BY <1>1, DebugInvariant, PTL

\* The assertion of dbgval fails only where the value on top of the caller's stack is _G,
\* which describing a table has popped.
THEOREM DumpsAbortOnlyOnGlobals == Spec => []AbortsOnlyOnGlobals
<1>1. DebugInv => AbortsOnlyOnGlobals
  BY DEF DebugInv, Phase, AbortsOnlyOnGlobals, GlobalsOnTop, Popped
<1> QED BY <1>1, DebugInvariant, PTL
===========================================================================
