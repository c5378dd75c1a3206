---------------------------- MODULE RouterProofs ----------------------------
(***************************************************************************)
(* Proofs about Router, for any configurations, requests and clients: its  *)
(* invariant, and that it uses the rate limiter as RateLimiter models it.  *)
(***************************************************************************)
EXTENDS Router, RateLimiterProofs, FiniteSetTheorems

USE RouterAssumption

\* The start: nobody is in the chain.
LEMMA RouterStart == RouterInit => RouterInv
  BY DEF RouterInit, RouterInv, RouterTypeOK, Tracked, ServedByRules, TakenByRules

\* A step that leaves the request where it is, or only reads.
LEMMA RouterStays ==
  ASSUME RouterInv, UNCHANGED <<config, chain>>
  PROVE  RouterInv'
  BY DEF RouterInv, RouterTypeOK, Tracked, ServedByRules, TakenByRules, Names, Open, chain

\* MaxBodySize takes its limit from the configuration in force.
LEMMA ArriveInv ==
  ASSUME RouterInv, NEW r \in Requests, NEW k \in Calls, Arrive(r, k)
  PROVE  RouterInv'
<1>1. RouterTypeOK'
  BY DEF RouterInv, RouterTypeOK, Arrive
<1>2. Tracked'
  BY DEF RouterInv, RouterTypeOK, Tracked, Arrive
<1>3. ServedByRules'
  BY DEF RouterInv, RouterTypeOK, ServedByRules, Arrive, Names, Open
<1>4. TakenByRules'
  BY DEF RouterInv, RouterTypeOK, Tracked, TakenByRules, Arrive
<1>5. QED
  BY <1>1, <1>2, <1>3, <1>4 DEF RouterInv

\* A request that leaves takes nothing of the others with it.
LEMMA LeaveInv ==
  ASSUME RouterInv, NEW r \in Requests, Leave(r), UNCHANGED config,
         books' \in [Statuses -> Int]
  PROVE  RouterInv'
<1>1. RouterTypeOK'
  BY DEF RouterInv, RouterTypeOK, Leave
<1>2. Tracked'
  BY DEF RouterInv, RouterTypeOK, Tracked, Leave
<1>3. ServedByRules'
  BY DEF RouterInv, RouterTypeOK, ServedByRules, Leave, Names, Open
<1>4. TakenByRules'
  BY DEF RouterInv, RouterTypeOK, TakenByRules, Leave
<1>5. QED
  BY <1>1, <1>2, <1>3, <1>4 DEF RouterInv

\* An answer of 200 needs the body read, and any other needs nothing.
LEMMA AnswerInv ==
  ASSUME RouterInv, NEW r \in Requests, NEW s \in Statuses, Answer(r, s), at[r] \notin {"none", "answered"},
         s = 200 => \E c \in since[r] : call[r].size <= c.maxBody,
         UNCHANGED <<config, call, maxBody, since>>
  PROVE  RouterInv'
<1>1. RouterTypeOK'
  BY DEF RouterInv, RouterTypeOK, Answer, WriteHeader
<1>2. Tracked'
  <2>1. sent[r] = 0 /\ s # 0
    BY DEF RouterInv, Tracked, Statuses
  <2>2. QED
    BY <2>1 DEF RouterInv, RouterTypeOK, Tracked, Answer, WriteHeader
<1>3. ServedByRules'
  BY DEF RouterInv, RouterTypeOK, ServedByRules, Answer, WriteHeader, Names, Open
<1>4. TakenByRules'
  BY DEF RouterInv, RouterTypeOK, TakenByRules, Answer, WriteHeader
<1>5. QED
  BY <1>1, <1>2, <1>3, <1>4 DEF RouterInv

\* A request goes on; into the handler of /state only by the rules.
LEMMA PassOnInv ==
  ASSUME RouterInv, NEW r \in Requests, NEW next \in {"limiter", "auth", "handler"},
         at' = [at EXCEPT ![r] = next], at[r] \notin {"none", "answered"},
         next = "handler" /\ call[r].route = "state"
           => \E c \in since[r] : Open(c) \/ (call[r].cred # None /\ Names(c, call[r])),
         UNCHANGED <<config, call, maxBody, sent, status, since, books>>
  PROVE  RouterInv'
<1>1. RouterTypeOK'
  BY DEF RouterInv, RouterTypeOK
<1>2. Tracked'
  BY DEF RouterInv, RouterTypeOK, Tracked
<1>3. ServedByRules'
  BY DEF RouterInv, RouterTypeOK, ServedByRules, Names, Open
<1>4. TakenByRules'
  BY DEF RouterInv, RouterTypeOK, TakenByRules
<1>5. QED
  BY <1>1, <1>2, <1>3, <1>4 DEF RouterInv

LEMMA SecurityHeadersInv ==
  ASSUME RouterInv, NEW r \in Requests, SecurityHeaders(r)
  PROVE  RouterInv'
<1>1. CASE Preflight(call[r])
  BY <1>1, LeaveInv DEF SecurityHeaders, RouterInv, RouterTypeOK
<1>2. CASE ~Preflight(call[r])
  BY <1>2, PassOnInv DEF SecurityHeaders
<1>3. QED
  BY <1>1, <1>2

\* The limiter lets pass or answers 429, and does not decide for Auth.
LEMMA AdmitInv ==
  ASSUME RouterInv, NEW r \in Requests, Admit(r)
  PROVE  RouterInv'
<1>1. at[r] = "limiter" /\ UNCHANGED <<config, call, maxBody, since>>
  BY DEF Admit
<1>2. CASE PassOn(r, AfterLimiter(r))
  BY <1>1, <1>2, PassOnInv DEF PassOn, AfterLimiter
<1>3. CASE Answer(r, 429)
  BY <1>1, <1>3, AnswerInv DEF Statuses
<1>4. QED
  BY <1>2, <1>3 DEF Admit

\* Auth accepts by the configuration in force, which the request has seen.
LEMMA AuthInv ==
  ASSUME RouterInv, NEW r \in Requests, Auth(r)
  PROVE  RouterInv'
<1>1. at[r] = "auth" /\ UNCHANGED <<config, call, maxBody, since>>
  BY DEF Auth
<1>2. CASE Accepted(call[r]) /\ PassOn(r, "handler")
  <2>1. Open(config) \/ (call[r].cred # None /\ Names(config, call[r]))
    BY <1>2 DEF Accepted, Open, Names
  <2>2. config \in since[r]
    BY <1>1 DEF RouterInv, Tracked
  <2>3. QED
    BY <1>1, <1>2, <2>1, <2>2, PassOnInv DEF PassOn
<1>3. CASE Answer(r, 401)
  BY <1>1, <1>3, AnswerInv DEF Statuses
<1>4. QED
  BY <1>2, <1>3 DEF Auth

\* No handler writes 200 for a body beyond its limit.
LEMMA HandleInv ==
  ASSUME RouterInv, NEW r \in Requests, Handle(r)
  PROVE  RouterInv'
<1>1. at[r] = "handler" /\ UNCHANGED <<config, call, maxBody, since>>
  BY DEF Handle
<1>2. PICK s \in Outcomes(r) : Answer(r, s)
  BY DEF Handle
<1>3. call[r] \in Calls /\ \E c \in since[r] : maxBody[r] = c.maxBody
  BY <1>1 DEF RouterInv, Tracked
<1>4. s \in Statuses
  BY <1>2 DEF Outcomes, Routed, StateOutcomes, Statuses
<1>5. s = 200 => call[r].size <= maxBody[r]
  <2>1. call[r].size \in Nat /\ maxBody[r] \in Nat
    BY <1>3 DEF RouterInv, RouterTypeOK
  <2>2. ASSUME call[r].size > maxBody[r] PROVE s # 200
    BY <2>2, <1>2 DEF Outcomes
  <2>3. QED
    BY <2>1, <2>2
<1>6. QED
  BY <1>1, <1>2, <1>3, <1>4, <1>5, AnswerInv

\* What was allowed by a configuration stays allowed by one the request has seen.
LEMMA UpdateInv ==
  ASSUME RouterInv, NEW c \in Configs, Update(c)
  PROVE  RouterInv'
<1>1. RouterTypeOK'
  BY DEF RouterInv, RouterTypeOK, Update
<1>2. \A r \in Requests : at[r] # "none" => since'[r] = since[r] \cup {c}
  BY DEF RouterInv, RouterTypeOK, Update
<1>3. Tracked'
  BY <1>2 DEF RouterInv, Tracked, Update
<1>4. ServedByRules'
  BY <1>2 DEF RouterInv, ServedByRules, Update, Names, Open
<1>5. TakenByRules'
  BY <1>2 DEF RouterInv, Tracked, TakenByRules, Update
<1>6. QED
  BY <1>1, <1>3, <1>4, <1>5 DEF RouterInv

\* However reloads fall between the middlewares (SetupRouter).
THEOREM RouterInvariant == RouterSpec => []RouterInv
<1>1. RouterInv /\ [RouterNext]_routerVars => RouterInv'
  <2> SUFFICES ASSUME RouterInv, [RouterNext]_routerVars PROVE RouterInv'
    OBVIOUS
  <2>1. ASSUME NEW r \in Requests, NEW k \in Calls, Arrive(r, k) PROVE RouterInv'
    BY <2>1, ArriveInv
  <2>2. ASSUME NEW r \in Requests, Serve(r) PROVE RouterInv'
    <3>1. CASE Limit(r)
      BY <3>1, RouterStays DEF Limit
    <3>2. CASE Log(r)
      <4>1. books' \in [Statuses -> Int]
        BY <3>2 DEF Log, Count, RouterInv, RouterTypeOK, Statuses
      <4>2. QED
        BY <3>2, <4>1, LeaveInv DEF Log
    <3>3. QED
      BY <2>2, <3>1, <3>2, SecurityHeadersInv, AdmitInv, AuthInv, HandleInv DEF Serve
  <2>3. ASSUME NEW c \in Configs, Update(c) PROVE RouterInv'
    BY <2>3, UpdateInv
  <2>4. CASE UNCHANGED <<config, chain>>
    BY <2>4, RouterStays
  <2>5. QED
    BY <2>1, <2>2, <2>3, <2>4 DEF RouterNext, routerVars
<1>2. QED
  BY <1>1, RouterStart, PTL DEF RouterSpec

\* Nobody is in a handler of /state by a configuration never in force (Auth).
THEOREM ServedTheorem == RouterSpec => []ServedByRules
<1>1. RouterInv => ServedByRules
  BY DEF RouterInv
<1>2. QED
  BY <1>1, RouterInvariant, PTL

\* And no body is taken that none of them allows (MaxBodySize).
THEOREM TakenTheorem == RouterSpec => []TakenByRules
<1>1. RouterInv => TakenByRules
  BY DEF RouterInv
<1>2. QED
  BY <1>1, RouterInvariant, PTL

-----------------------------------------------------------------------------
(* The books.                                                              *)

LEMMA UncountedFinite ==
  \A s : IsFiniteSet(Uncounted(s)) /\ Cardinality(Uncounted(s)) \in Nat
<1> SUFFICES ASSUME NEW s
             PROVE  IsFiniteSet(Uncounted(s)) /\ Cardinality(Uncounted(s)) \in Nat
  OBVIOUS
<1>1. IsFiniteSet(Uncounted(s))
  BY FS_Subset DEF Uncounted
<1>2. QED
  BY <1>1, FS_CardinalityType

\* A step that opens or closes no account.
LEMMA BooksStay ==
  ASSUME Balanced, UNCHANGED books,
         \A s \in Statuses : Uncounted(s)' = Uncounted(s)
  PROVE  Balanced'
  BY DEF Balanced

\* The status a request gets is entered, unless its route is not metered.
LEMMA AnswerBalanced ==
  ASSUME RouterInv, Balanced, NEW r \in Requests, NEW s \in Statuses, Answer(r, s),
         at[r] # "answered", UNCHANGED call
  PROVE  Balanced'
<1>1. sent[r] = 0 /\ 0 \notin Statuses
  BY DEF RouterInv, Tracked, Statuses
<1>2. sent' = [sent EXCEPT ![r] = s] /\ sent \in [Requests -> Statuses \cup {0}]
      /\ books \in [Statuses -> Int]
  BY <1>1 DEF Answer, WriteHeader, RouterInv, RouterTypeOK
<1>3. CASE call[r].route = "metrics"
  <2>1. \A t \in Statuses : Uncounted(t)' = Uncounted(t)
    BY <1>1, <1>2, <1>3 DEF Uncounted
  <2>2. QED
    BY <1>3, <2>1, BooksStay DEF Answer, WriteHeader
<1>4. CASE call[r].route # "metrics"
  <2>1. books' = [books EXCEPT ![s] = @ + 1]
    BY <1>1, <1>4 DEF Answer, WriteHeader
  <2>2. Uncounted(s)' = Uncounted(s) \cup {r} /\ r \notin Uncounted(s)
    BY <1>1, <1>2, <1>4 DEF Uncounted
  <2>3. Cardinality(Uncounted(s)') = Cardinality(Uncounted(s)) + 1
    BY <2>2, FS_AddElement, UncountedFinite
  <2>4. \A t \in Statuses : t # s => Uncounted(t)' = Uncounted(t)
    BY <1>1, <1>2 DEF Uncounted
  <2>5. QED
    BY <1>2, <2>1, <2>3, <2>4 DEF Balanced
<1>5. QED
  BY <1>3, <1>4

\* And struck off when the metrics have counted it, under the same status.
LEMMA LogBalanced ==
  ASSUME RouterInv, Balanced, NEW r \in Requests, Log(r)
  PROVE  Balanced'
<1>1. PICK s \in Statuses : s = status[r] /\ s = sent[r]
  BY DEF Log, RouterInv, RouterTypeOK, Tracked, Statuses
<1>2. /\ sent' = [sent EXCEPT ![r] = 0] /\ sent \in [Requests -> Statuses \cup {0}]
      /\ call' = [call EXCEPT ![r] = None] /\ call \in [Requests -> Calls \cup {None}]
      /\ books \in [Statuses -> Int] /\ 0 \notin Statuses
  BY DEF Log, Leave, RouterInv, RouterTypeOK, Statuses
<1>3. \A t \in Statuses : Uncounted(t)' = Uncounted(t) \ {r}
  BY <1>1, <1>2 DEF Uncounted
<1>4. \A t \in Statuses : r \in Uncounted(t) <=> t = s /\ call[r].route # "metrics"
  BY <1>1 DEF Uncounted
<1>5. CASE call[r].route = "metrics"
  <2>1. \A t \in Statuses : Uncounted(t)' = Uncounted(t)
    BY <1>3, <1>4, <1>5
  <2>2. QED
    BY <1>5, <2>1, BooksStay DEF Log, Count
<1>6. CASE call[r].route # "metrics"
  <2>1. books' = [books EXCEPT ![s] = @ - 1]
    BY <1>1, <1>2, <1>6 DEF Log, Count
  <2>2. Cardinality(Uncounted(s)') = Cardinality(Uncounted(s)) - 1
    <3>1. Uncounted(s)' = Uncounted(s) \ {r} /\ r \in Uncounted(s)
      BY <1>3, <1>4, <1>6, <1>1
    <3>2. QED
      BY <3>1, FS_RemoveElement, UncountedFinite
  <2>3. \A t \in Statuses : t # s => Uncounted(t)' = Uncounted(t)
    BY <1>3, <1>4
  <2>4. QED
    BY <1>1, <1>2, <2>1, <2>2, <2>3 DEF Balanced
<1>7. QED
  BY <1>5, <1>6

\* Requests that come, or leave unanswered, are on no account.
LEMMA ComeAndGoBalanced ==
  ASSUME RouterInv, Balanced, NEW r \in Requests,
         (\E k \in Calls : Arrive(r, k)) \/ SecurityHeaders(r)
  PROVE  Balanced'
<1>1. sent[r] = 0 /\ sent'[r] = 0 /\ UNCHANGED books
      /\ \A q \in Requests : q # r => sent'[q] = sent[q] /\ call'[q] = call[q]
  BY DEF Arrive, SecurityHeaders, Leave, RouterInv, RouterTypeOK, Tracked
<1>2. \A s \in Statuses : Uncounted(s)' = Uncounted(s)
  BY <1>1 DEF Uncounted, Statuses
<1>3. QED
  BY <1>1, <1>2, BooksStay

\* Every status sent is counted once and under that status (statusWriter, Metrics).
THEOREM BalancedTheorem == RouterSpec => []Balanced
<1>1. RouterInit => Balanced
  <2> SUFFICES ASSUME RouterInit, NEW s \in Statuses
               PROVE  books[s] = Cardinality(Uncounted(s))
    BY DEF Balanced
  <2>1. Uncounted(s) = {}
    BY DEF RouterInit, Uncounted, Statuses
  <2>2. QED
    BY <2>1, FS_EmptySet DEF RouterInit
<1>2. RouterInv /\ Balanced /\ [RouterNext]_routerVars => Balanced'
  <2> SUFFICES ASSUME RouterInv, Balanced, [RouterNext]_routerVars PROVE Balanced'
    OBVIOUS
  <2>1. CASE UNCHANGED <<sent, call, books>>
    BY <2>1, BooksStay DEF Uncounted
  <2>2. ASSUME NEW r \in Requests, NEW s \in Statuses, Answer(r, s), at[r] # "answered",
               UNCHANGED call
        PROVE  Balanced'
    BY <2>2, AnswerBalanced
  <2>3. ASSUME NEW r \in Requests, Serve(r) PROVE Balanced'
    <3>1. CASE Admit(r)
      BY <2>1, <2>2, <3>1 DEF Admit, PassOn, Statuses
    <3>2. CASE Auth(r)
      BY <2>1, <2>2, <3>2 DEF Auth, PassOn, Statuses
    <3>3. CASE Handle(r)
      BY <2>2, <3>3 DEF Handle, Outcomes, Routed, StateOutcomes, Statuses
    <3>4. QED
      BY <2>1, <2>3, <3>1, <3>2, <3>3, LogBalanced, ComeAndGoBalanced DEF Serve, Limit, chain
  <2>4. QED
    BY <2>1, <2>3, ComeAndGoBalanced DEF RouterNext, routerVars, chain, Update
<1>3. QED
  BY <1>1, <1>2, RouterInvariant, PTL DEF RouterSpec

-----------------------------------------------------------------------------
\* The chain refines the rate limiter: a request is at the limiter with its own
\* address, and Update gives it a limit it knows.
THEOREM RouterImplementsLimiter == RouterSpec => Limited
<1>1. RouterInit => LimiterInit
  BY DEF RouterInit
<1>2. RouterInv /\ [RouterNext]_routerVars => [LimiterNext]_limiterVars
  <2> SUFFICES ASSUME RouterInv, RouterNext PROVE LimiterNext \/ UNCHANGED limiterVars
    BY DEF routerVars
  <2>1. ASSUME NEW r \in Requests, Serve(r) PROVE LimiterNext \/ UNCHANGED limiterVars
    <3>1. CASE Limit(r)
      <4>1. call[r].ip \in IPs
        BY <3>1 DEF Limit, RouterInv, Tracked
      <4>2. QED
        BY <3>1, <4>1 DEF Limit, LimiterNext
    <3>2. CASE Admit(r)
      BY <3>2 DEF Admit, LimiterNext
    <3>3. QED
      BY <2>1, <3>1, <3>2 DEF Serve, SecurityHeaders, Auth, Handle, Log
  <2>2. ASSUME NEW c \in Configs, Update(c) PROVE LimiterNext \/ UNCHANGED limiterVars
    <3>1. limit' \in Limits /\ UNCHANGED <<limiter, requests, most, least>>
      BY <2>2 DEF Update
    <3>2. QED
      BY <3>1 DEF LimiterNext, Reload, limiterVars, limiter
  <2>3. QED
    BY <2>1, <2>2 DEF RouterNext, Arrive, LimiterNext
<1>3. QED
  BY <1>1, <1>2, RouterInvariant, PTL DEF RouterSpec, Limited, LimiterSpec

\* So what is proved of the limiter holds of it in the server.
THEOREM RouterKeepsLimiterInv == RouterSpec => []LimiterInv
  BY RouterImplementsLimiter, RateLimiterInvariant, PTL DEF Limited
=============================================================================
