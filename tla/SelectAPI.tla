----------------------------- MODULE SelectAPI -----------------------------
(***************************************************************************)
(* What ngx.select promises to the light threads of a request, without     *)
(* contexts, handlers, timers or posted events: a thread asks for some     *)
(* directions of its sockets and waits; the answer is what is ready of     *)
(* them when the thread is resumed, or "timeout" if nothing is.            *)
(***************************************************************************)
CONSTANTS Threads, Ends

VARIABLES
  waiting,      \* the thread waits in select
  asked,        \* the ends it has asked for
  timed,        \* its call has a time limit
  up,           \* the ends that are ready
  answer,       \* what the last call of a thread returned
  alive         \* the worker runs

api == <<waiting, asked, timed, up, answer, alive>>

Table(S) == [kind |-> "table", ends |-> S]
Plain(k) == [kind |-> k, ends |-> {}]

Init ==
  /\ waiting = [t \in Threads |-> FALSE]
  /\ asked = [t \in Threads |-> {}]
  /\ timed = [t \in Threads |-> FALSE]
  /\ up \in SUBSET Ends
  /\ answer = [t \in Threads |-> Plain("none")]
  /\ alive = TRUE

\* The thread yields.
Ask(t) ==
  /\ ~waiting[t]
  /\ waiting' = [waiting EXCEPT ![t] = TRUE]
  /\ \E S \in SUBSET Ends : asked' = [asked EXCEPT ![t] = S]
  /\ \E limited \in BOOLEAN : timed' = [timed EXCEPT ![t] = limited]
  /\ answer' = [answer EXCEPT ![t] = Plain("none")]
  /\ UNCHANGED <<up, alive>>

\* The call raises an error, and nobody else notices.
Refuse(t) ==
  /\ ~waiting[t]
  /\ answer' = [answer EXCEPT ![t] = Plain("error")]
  /\ UNCHANGED <<waiting, asked, timed, up, alive>>

Leave(t) ==
  /\ waiting[t]
  /\ waiting' = [waiting EXCEPT ![t] = FALSE]
  /\ asked' = [asked EXCEPT ![t] = {}]
  /\ timed' = [timed EXCEPT ![t] = FALSE]
  /\ UNCHANGED <<up, alive>>

Answer(t) ==
  /\ asked[t] \cap up # {}
  /\ answer' = [answer EXCEPT ![t] = Table(asked[t] \cap up)]
  /\ Leave(t)

Expire(t) ==
  /\ timed[t] /\ asked[t] \cap up = {}
  /\ answer' = [answer EXCEPT ![t] = Plain("timeout")]
  /\ Leave(t)

\* The thread is killed, or its request ends.
Cancel(t) == Leave(t) /\ UNCHANGED answer

\* The peers, the kernel and the other operations of the Lua code.
World == up' \in SUBSET Ends /\ UNCHANGED <<waiting, asked, timed, answer, alive>>

Stop ==
  /\ alive' = FALSE
  /\ up' \in SUBSET Ends
  /\ UNCHANGED <<waiting, asked, timed, answer>>

Next ==
  /\ alive
  /\ \/ \E t \in Threads : Ask(t) \/ Refuse(t) \/ Answer(t) \/ Expire(t) \/ Cancel(t)
     \/ World
     \/ Stop

Spec == Init /\ [][Next]_api

\* A call with a time limit comes back.
TimedReturns == \A t \in Threads : (waiting[t] /\ timed[t]) ~> (~waiting[t] \/ ~alive)

FairSpec == Spec /\ TimedReturns
===========================================================================
