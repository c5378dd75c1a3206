------------------------------- MODULE Backend -------------------------------
(***************************************************************************)
(* What the gateway promises to a client of the Terraform HTTP backend.    *)
(*                                                                         *)
(* A request takes effect on the two tables at most once and in one step,  *)
(* at any moment after it was made and, if its answer is an error, after   *)
(* that too.  An answer other than an error tells the truth about the      *)
(* effect: a 200 was done, a 404, 409 or 423 changed nothing, and the      *)
(* state or the lock holder it reports was there at some moment of the     *)
(* request.                                                                *)
(***************************************************************************)
EXTENDS Api

VARIABLES
  locks,    \* workspace -> lock ID, or None
  states,   \* workspace -> [state, serial], or None
  call,     \* the request in each slot, or None
  outcome,  \* "none" before the request takes effect, then how it went
  seen,     \* the state or the lock holder the request looked up
  answer    \* the response, or None

vars == <<locks, states, call, outcome, seen, answer>>

Init ==
  /\ locks = [w \in Workspaces |-> None]
  /\ states = [w \in Workspaces |-> None]
  /\ call = [s \in Slots |-> None]
  /\ outcome = [s \in Slots |-> "none"]
  /\ seen = [s \in Slots |-> None]
  /\ answer = [s \in Slots |-> None]

Invoke(s, c) ==
  /\ call[s] = None
  /\ call' = [call EXCEPT ![s] = c]
  /\ UNCHANGED answer \/ answer' = [answer EXCEPT ![s] = BadRequest]
  /\ UNCHANGED <<locks, states, outcome, seen>>

-----------------------------------------------------------------------------
(* The effects.                                                            *)

Result(s, result, value) ==
  /\ outcome' = [outcome EXCEPT ![s] = result]
  /\ seen' = [seen EXCEPT ![s] = value]

Read(s) ==
  LET found == states[call[s].ws]
  IN  /\ call[s].op = "GET"
      /\ IF found = None THEN Result(s, "miss", None) ELSE Result(s, "hit", found.state)
      /\ UNCHANGED <<locks, states>>

Write(s) ==
  /\ \/ call[s].op = "POST" /\ states' = [states EXCEPT ![call[s].ws] = StateRow(call[s].body)]
     \/ call[s].op = "DELETE" /\ states' = [states EXCEPT ![call[s].ws] = None]
  /\ Result(s, "hit", None)
  /\ UNCHANGED locks

\* A lock is taken when it is free and freed by its own ID only.
TakeOrFree(s) ==
  LET c == call[s]
  IN  /\ \/ c.op = "LOCK" /\ locks[c.ws] = None /\ locks' = [locks EXCEPT ![c.ws] = c.id]
         \/ c.op = "UNLOCK" /\ locks[c.ws] = c.id /\ locks' = [locks EXCEPT ![c.ws] = None]
      /\ Result(s, "hit", None)
      /\ UNCHANGED states

Conflict(s) ==
  LET c == call[s]
  IN  /\ \/ c.op = "LOCK" /\ locks[c.ws] # None
         \/ c.op = "UNLOCK" /\ locks[c.ws] # c.id
      /\ Result(s, "miss", None)
      /\ UNCHANGED <<locks, states>>

NoEffect(s) == Result(s, "error", None) /\ UNCHANGED <<locks, states>>

\* At most once, and never for a request refused with 400.
TakeEffect(s) ==
  /\ call[s] # None
  /\ outcome[s] = "none"
  /\ answer[s] # BadRequest
  /\ Read(s) \/ Write(s) \/ TakeOrFree(s) \/ Conflict(s) \/ NoEffect(s)
  /\ UNCHANGED <<call, answer>>

\* A LOCK or UNLOCK that changed nothing looks up the holder, or fails to.
LookUp(s) ==
  /\ call[s] # None
  /\ call[s].op \in LockOps
  /\ outcome[s] = "miss"
  /\ \E holder \in {None, locks[call[s].ws]} : seen' = [seen EXCEPT ![s] = holder]
  /\ UNCHANGED <<locks, states, call, outcome, answer>>

-----------------------------------------------------------------------------
(* The answers.                                                            *)

\* A response that is true of the request in slot s.
Truthful(s, r) ==
  LET op == call[s].op
  IN  \/ r \in {ServerError, Lost}
      \/ /\ outcome[s] = "hit"
         /\ r = Response(200, None, IF op = "GET" THEN seen[s] ELSE None)
      \/ outcome[s] = "miss" /\ op = "GET" /\ r = Response(404, None, None)
      \/ outcome[s] = "miss" /\ op = "LOCK" /\ \E l \in {None, seen[s]} : r = Response(423, l, None)
      \/ outcome[s] = "miss" /\ op = "UNLOCK" /\ \E l \in {None, seen[s]} : r = Response(409, l, None)

Reply(s) ==
  /\ call[s] # None
  /\ answer[s] = None
  /\ \E r \in Responses : Truthful(s, r) /\ answer' = [answer EXCEPT ![s] = r]
  /\ UNCHANGED <<locks, states, call, outcome, seen>>

\* All requests in flight lose their connection at once.
LoseAll ==
  /\ answer' = [s \in Slots |-> IF call[s] # None /\ answer[s] = None THEN Lost ELSE answer[s]]
  /\ UNCHANGED <<locks, states, call, outcome, seen>>

\* An answered request is over: what has not taken effect by now never will.
End(s) ==
  /\ answer[s] # None
  /\ call' = [call EXCEPT ![s] = None]
  /\ outcome' = [outcome EXCEPT ![s] = "none"]
  /\ seen' = [seen EXCEPT ![s] = None]
  /\ answer' = [answer EXCEPT ![s] = None]
  /\ UNCHANGED <<locks, states>>

Next ==
  \/ \E s \in Slots, c \in Calls : Invoke(s, c)
  \/ \E s \in Slots : TakeEffect(s) \/ LookUp(s) \/ Reply(s) \/ End(s)
  \/ LoseAll

Spec == Init /\ [][Next]_vars
=============================================================================
