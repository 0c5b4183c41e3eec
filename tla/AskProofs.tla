------------------------------ MODULE AskProofs ------------------------------
(***************************************************************************)
(* What holds of the ask endpoints for any number of requests, questions,  *)
(* books and providers.  The inductive invariant AskInv says of each       *)
(* caller where its three pieces of state stand to one another: the call   *)
(* to the language model, the agent's state and the request; and of the    *)
(* cache that every entry suits its key.                                   *)
(***************************************************************************)
EXTENDS Ask, TLAPS

\* The positions of the two loops tell what each provider has said.
ChainOK(k) ==
    /\ k.state = "trying" =>
        /\ k.provider \in Providers
        /\ \A p \in Providers : p < k.provider => Exhausted(k, p)
        /\ \A p \in Providers : p > k.provider => p \notin k.lost /\ k.quota[p] = 0
        /\ k.provider \notin k.lost
        /\ k.quota[k.provider] = k.attempt
    /\ k.state = "raised" => \A p \in Providers : Exhausted(k, p)

Before == {"embed", "search", "rank", "rephrase"}
Writing == {"generate", "regenerate", "agree", "language"}

\* The state of an agent, its call and the request it works for.
AgentOK(a, k, q) ==
    /\ a.pc # "off" => q.pc = "agent" /\ a.scope = q.scope
    /\ a.hits \cup a.passages \cup a.sources \subseteq Within(a.scope)
    /\ a.pc # "lost" /\ a.retries <= 1
    /\ a.pc \in Before => a.retries = 0
    /\ a.pc \in Writing => a.passages # {}
    /\ a.pc # "end" => a.sources = {}
    /\ a.pc = "end" => /\ a.answer # "none"
                       /\ a.answer \in {"text", "fallback"} => a.sources # {}
                       /\ a.answer \in {"refusal", "outage"} => a.sources = {}
                       /\ a.answer = "fallback" => k.state = "raised"

\* What may be told to a client, or kept for one, who asks about this scope.
GoodReply(a, scope) ==
    /\ a \in Reply
    /\ a.no_result <=> a.answer \in {"refusal", "outage"}
    /\ a.answer \in {"text", "fallback"} => a.sources # {}
    /\ a.answer = "outage" => a.sources = {}
    /\ a.sources \subseteq Within(scope)

RequestOK(q) ==
    IF q.pc \in {"store", "done"} THEN GoodReply(q.reply, q.scope)
                                  ELSE q.reply = NoReply

CacheOK ==
    /\ cache \in [Keys -> Reply \cup {NoReply}]
    /\ \A k \in Keys : cache[k] # NoReply => GoodReply(cache[k], k[2])

AskInv ==
    /\ AskTypeOK
    /\ \A r \in Requests : /\ ChainOK(call[r])
                           /\ AgentOK(agent[r], call[r], request[r])
                           /\ RequestOK(request[r])
    /\ CacheOK

-----------------------------------------------------------------------------
(* One call to the language model. *)
LEMMA NoCallOK == NoCall \in Call /\ ChainOK(NoCall) /\ NoCall.state = "idle"
BY ProviderChainAssumption DEF NoCall, Call, ChainOK, MaxAttempts, Providers

\* A call that has just begun is as calls are.
LEMMA BegunOK ==
    /\ Begun \in Call /\ ChainOK(Begun)
    /\ Begun.state \in {"trying", "raised"}
<1>1. /\ Begun.provider = 1 /\ Begun.attempt = 0 /\ Begun.lost = {}
      /\ \A p \in Providers : Begun.quota[p] = 0
      /\ Begun.state = IF NumProviders = 0 THEN "raised" ELSE "trying"
  BY DEF Begun, NoCall
<1>2. Begun \in Call
  <2>1. Begun = [NoCall EXCEPT !.state = Begun.state]
    BY <1>1 DEF Begun, NoCall
  <2> QED BY <1>1, <2>1, NoCallOK DEF Call
<1>3. CASE NumProviders = 0
  <2>1. Providers = {}
    BY <1>3 DEF Providers
  <2> QED BY <1>1, <1>2, <1>3, <2>1 DEF ChainOK
<1>4. CASE NumProviders # 0
  <2>1. 1 \in Providers /\ \A p \in Providers : ~(p < 1)
    BY <1>4, ProviderChainAssumption DEF Providers
  <2> QED BY <1>1, <1>2, <1>4, <2>1 DEF ChainOK
<1> QED BY <1>3, <1>4

\* The turn of an exhausted provider may end.
LEMMA TurnOverOK ==
    ASSUME NEW k \in Call, k.state = "trying", k.provider \in Providers,
           \A p \in Providers : p <= k.provider => Exhausted(k, p),
           \A p \in Providers : p > k.provider => p \notin k.lost /\ k.quota[p] = 0
    PROVE  /\ TurnOver(k) \in Call /\ ChainOK(TurnOver(k))
           /\ TurnOver(k).state \in {"trying", "raised"}
<1> DEFINE n == TurnOver(k)
<1>1. /\ n.provider = k.provider + 1 /\ n.attempt = 0
      /\ n.quota = k.quota /\ n.lost = k.lost
      /\ n.state = IF k.provider = NumProviders THEN "raised" ELSE "trying"
  BY DEF TurnOver, Call
<1>2. n \in Call
  <2>1. /\ n.provider \in 1..(NumProviders + 1)
        /\ n.attempt \in 0..(MaxAttempts - 1)
        /\ n.state \in {"idle", "trying", "text", "raised"}
    BY <1>1, ProviderChainAssumption DEF Providers, MaxAttempts
  <2> QED BY <1>1, <2>1 DEF TurnOver, Call
<1>3. \A p \in Providers : Exhausted(n, p) <=> Exhausted(k, p)
  BY <1>1 DEF Exhausted
<1>4. CASE k.provider = NumProviders
  <2>1. \A p \in Providers : p <= k.provider
    BY <1>4, ProviderChainAssumption DEF Providers
  <2> QED BY <1>1, <1>2, <1>3, <1>4, <2>1 DEF ChainOK
<1>5. CASE k.provider # NumProviders
  <2>1. n.provider \in Providers
    BY <1>1, <1>5, ProviderChainAssumption DEF Providers
  <2>2. \A p \in Providers : /\ p < n.provider => p <= k.provider
                             /\ p >= n.provider => p > k.provider
    BY <1>1, ProviderChainAssumption DEF Providers
  <2>3. n.provider >= n.provider /\ \A p \in Providers : p > n.provider => p >= n.provider
    BY <2>1, ProviderChainAssumption DEF Providers
  <2> QED BY <1>1, <1>2, <1>3, <1>5, <2>1, <2>2, <2>3 DEF ChainOK
<1> QED BY <1>4, <1>5

\* A step of the call keeps what its positions say.
LEMMA ChainStepOK ==
    ASSUME NEW c \in Callers, ChainTypeOK, ChainOK(call[c]), ChainStep(c)
    PROVE  /\ ChainTypeOK' /\ ChainOK(call[c])'
           /\ call[c].state = "trying"
           /\ \A d \in Callers : d # c => call'[d] = call[d]
<1> DEFINE k == call[c]
<1>1. k \in Call /\ k.state = "trying" /\ k.provider \in Providers
  BY DEF ChainStep, ProviderAnswers, ProviderQuota, ProviderFails, ChainTypeOK, ChainOK
<1>2. ASSUME NEW n \in Call, ChainOK(n), call' = [call EXCEPT ![c] = n]
      PROVE  /\ ChainTypeOK' /\ ChainOK(call[c])'
             /\ \A d \in Callers : d # c => call'[d] = call[d]
  <2>1. call' \in [Callers -> Call] /\ call'[c] = n
    BY <1>2 DEF ChainTypeOK
  <2> QED BY <1>2, <2>1 DEF ChainTypeOK
<1>3. CASE ProviderAnswers(c)
  <2> DEFINE n == [k EXCEPT !.state = "text"]
  <2>1. n \in Call /\ ChainOK(n)
    BY <1>1 DEF Call, ChainOK
  <2>2. call' = [call EXCEPT ![c] = n]
    BY <1>3 DEF ProviderAnswers
  <2> HIDE DEF n
  <2> QED BY <1>1, <1>2, <2>1, <2>2
<1>4. CASE ProviderQuota(c)
  <2> DEFINE m == [k EXCEPT !.quota[k.provider] = @ + 1]
             n == [m EXCEPT !.attempt = @ + 1]
  <2>1. /\ k.quota[k.provider] = k.attempt /\ k.provider \notin k.lost
        /\ \A p \in Providers : p < k.provider => Exhausted(k, p)
        /\ \A p \in Providers : p > k.provider => p \notin k.lost /\ k.quota[p] = 0
    BY <1>1 DEF ChainOK
  <2>2. /\ m.state = "trying" /\ m.provider = k.provider /\ m.lost = k.lost
        /\ m.attempt = k.attempt
        /\ m.quota = [k.quota EXCEPT ![k.provider] = @ + 1]
    BY <1>1 DEF Call
  <2>3. k.quota \in [Providers -> 0..MaxAttempts] /\ k.attempt \in 0..(MaxAttempts - 1)
    BY <1>1 DEF Call
  <2>4. /\ m.quota[k.provider] = k.attempt + 1
        /\ \A p \in Providers : p # k.provider => m.quota[p] = k.quota[p]
        /\ m.quota \in [Providers -> 0..MaxAttempts]
    BY <1>1, <2>1, <2>2, <2>3 DEF MaxAttempts
  <2>5. m \in Call
    BY <1>1, <2>2, <2>4 DEF Call
  <2>6. \A p \in Providers : p # k.provider => (Exhausted(m, p) <=> Exhausted(k, p))
    BY <2>2, <2>4 DEF Exhausted
  <2>7. \A p \in Providers : /\ p < k.provider => p # k.provider
                             /\ p > k.provider => p # k.provider
                             /\ p <= k.provider => p < k.provider \/ p = k.provider
    BY <1>1, ProviderChainAssumption DEF Providers
  <2>8. CASE k.attempt < MaxAttempts - 1
    <3>1. /\ n.state = "trying" /\ n.provider = k.provider /\ n.lost = k.lost
          /\ n.attempt = k.attempt + 1 /\ n.quota = m.quota
      BY <2>2, <2>5 DEF Call
    <3>2. n \in Call
      <4>1. n.attempt \in 0..(MaxAttempts - 1)
        BY <2>3, <2>8, <3>1 DEF MaxAttempts
      <4> HIDE DEF m
      <4> QED BY <2>5, <3>1, <4>1 DEF Call
    <3>3. \A p \in Providers : p < k.provider => Exhausted(n, p)
      BY <2>1, <2>6, <2>7, <3>1, <2>2 DEF Exhausted
    <3>4. ChainOK(n)
      BY <1>1, <2>1, <2>2, <2>4, <2>7, <3>1, <3>3 DEF ChainOK
    <3>5. call' = [call EXCEPT ![c] = n]
      BY <1>4, <2>2, <2>8 DEF ProviderQuota
    <3> HIDE DEF n, m
    <3> QED BY <1>1, <1>2, <3>2, <3>4, <3>5
  <2>9. CASE ~(k.attempt < MaxAttempts - 1)
    <3>1. k.attempt + 1 = MaxAttempts
      BY <2>3, <2>9 DEF MaxAttempts
    <3>2. Exhausted(m, k.provider)
      BY <2>4, <3>1 DEF Exhausted
    <3>3. TurnOver(m) \in Call /\ ChainOK(TurnOver(m))
      <4>1. \A p \in Providers : p <= m.provider => Exhausted(m, p)
        BY <2>1, <2>2, <2>6, <2>7, <3>2
      <4>2. \A p \in Providers : p > m.provider => p \notin m.lost /\ m.quota[p] = 0
        BY <2>1, <2>2, <2>4, <2>7
      <4> HIDE DEF m
      <4> QED BY <1>1, <2>2, <2>5, <4>1, <4>2, TurnOverOK
    <3>4. call' = [call EXCEPT ![c] = TurnOver(m)]
      BY <1>4, <2>2, <2>9 DEF ProviderQuota
    <3> HIDE DEF m
    <3> QED BY <1>1, <1>2, <3>3, <3>4
  <2> QED BY <2>8, <2>9
<1>5. CASE ProviderFails(c)
  <2> DEFINE m == [k EXCEPT !.lost = @ \cup {k.provider}]
  <2>1. /\ m \in Call /\ m.state = "trying" /\ m.provider = k.provider
        /\ m.quota = k.quota /\ m.lost = k.lost \cup {k.provider}
    BY <1>1 DEF Call
  <2>2. \A p \in Providers : p <= m.provider => Exhausted(m, p)
    <3>1. \A p \in Providers : p <= k.provider => p < k.provider \/ p = k.provider
      BY <1>1, ProviderChainAssumption DEF Providers
    <3> QED BY <1>1, <2>1, <3>1 DEF ChainOK, Exhausted
  <2>3. \A p \in Providers : p > m.provider => p \notin m.lost /\ m.quota[p] = 0
    <3>1. \A p \in Providers : p > k.provider => p # k.provider
      BY <1>1, ProviderChainAssumption DEF Providers
    <3> QED BY <1>1, <2>1, <3>1 DEF ChainOK
  <2>4. call' = [call EXCEPT ![c] = TurnOver(m)]
    BY <1>5 DEF ProviderFails
  <2> HIDE DEF m
  <2>5. TurnOver(m) \in Call /\ ChainOK(TurnOver(m))
    BY <1>1, <2>1, <2>2, <2>3, TurnOverOK
  <2> QED BY <1>1, <1>2, <2>4, <2>5
<1> QED BY <1>1, <1>3, <1>4, <1>5 DEF ChainStep

-----------------------------------------------------------------------------
(* One step of the agent. *)
LEMMA DecisionOK ==
    ASSUME NEW a \in State
    PROVE  /\ Decision(a) \in {"generate", "retry", "no_result"}
           /\ Decision(a) = "generate" => a.passages # {}
           /\ Decision(a) = "retry" => a.retries < 1
<1> DEFINE g == a.passages # {} /\ Confident(a)
<1>1. g \/ (~g /\ a.retries < 1) \/ (~g /\ ~(a.retries < 1))
  OBVIOUS
<1> HIDE DEF g
<1>2. Decision(a) = CASE g -> "generate"
                      [] ~g /\ a.retries < 1 -> "retry"
                      [] OTHER -> "no_result"
  BY DEF Decision, g
<1>3. /\ Decision(a) = "generate" \/ Decision(a) = "retry" \/ Decision(a) = "no_result"
      /\ Decision(a) = "generate" => g
      /\ Decision(a) = "retry" => a.retries < 1
  BY <1>1, <1>2
<1> QED BY <1>3 DEF g

\* An agent whose gate is about to decide: what holds besides its place.
AtGate(a, q) ==
    /\ a \in State /\ q.pc = "agent" /\ a.scope = q.scope
    /\ a.hits \cup a.passages \subseteq Within(a.scope)
    /\ a.sources = {} /\ a.retries <= 1

\* The call and the state of one caller have changed, and stand as they should.
Moved(c, q) ==
    \E a \in State, k \in Call :
        /\ ChainOK(k) /\ AgentOK(a, k, q)
        /\ agent' = [agent EXCEPT ![c] = a]
        /\ call' = [call EXCEPT ![c] = k]

\* Where the quality gate leads to, the request is as it should be there.
LEMMA RouteOK ==
    ASSUME NEW c \in Callers, NEW q, NEW a, AtGate(a, q),
           NEW edges, Decision(a) \in edges,
           Decision(a) = "retry" => a.retries = 0, Route(c, a, edges)
    PROVE  Moved(c, q)
<1>1. \/ Decision(a) = "generate"  /\ Become(c, Accepted(a)) /\ StartCall(c)
      \/ Decision(a) = "retry"     /\ Become(c, [a EXCEPT !.pc = "rephrase"]) /\ StartCall(c)
      \/ Decision(a) = "no_result" /\ Become(c, Refused(a)) /\ EndCall(c)
  BY DEF Route
<1>2. a \in State /\ a.retries \in 0..2
  BY DEF AtGate, State
<1>3. CASE Decision(a) = "generate"  /\ Become(c, Accepted(a)) /\ StartCall(c)
  <2> DEFINE b == Accepted(a)
  <2>1. /\ b.pc = "generate" /\ b.scope = a.scope /\ b.hits = a.hits
        /\ b.passages = a.passages /\ b.sources = a.sources /\ b.retries = a.retries
    BY <1>2 DEF Accepted, State
  <2>2. b \in State
    BY <1>2 DEF Accepted, State, Calling
  <2>3. a.passages # {}
    BY <1>2, <1>3, DecisionOK
  <2>4. AgentOK(b, Begun, q)
    BY <2>1, <2>3 DEF AtGate, AgentOK, Before, Writing
  <2>5. Become(c, b) /\ StartCall(c)
    BY <1>3
  <2> HIDE DEF b
  <2> QED BY <2>2, <2>4, <2>5, BegunOK DEF Moved, Become, StartCall
<1>4. CASE Decision(a) = "retry" /\ Become(c, [a EXCEPT !.pc = "rephrase"]) /\ StartCall(c)
  <2> DEFINE b == [a EXCEPT !.pc = "rephrase"]
  <2>1. /\ b.pc = "rephrase" /\ b.scope = a.scope /\ b.hits = a.hits
        /\ b.passages = a.passages /\ b.sources = a.sources /\ b.retries = a.retries
    BY <1>2 DEF State
  <2>2. b \in State
    BY <1>2 DEF State, Calling
  <2>3. AgentOK(b, Begun, q)
    BY <1>4, <2>1 DEF AtGate, AgentOK, Before, Writing
  <2>4. Become(c, b) /\ StartCall(c)
    BY <1>4
  <2> HIDE DEF b
  <2> QED BY <2>2, <2>3, <2>4, BegunOK DEF Moved, Become, StartCall
<1>5. CASE Decision(a) = "no_result" /\ Become(c, Refused(a)) /\ EndCall(c)
  <2> DEFINE b == Refused(a)
  <2>1. /\ b.pc = "end" /\ b.scope = a.scope /\ b.hits = a.hits
        /\ b.passages = a.passages /\ b.sources = a.sources /\ b.retries = a.retries
        /\ b.answer \in {"outage", "refusal"}
    BY <1>2 DEF Refused, State
  <2>2. b \in State
    BY <1>2 DEF Refused, State
  <2>3. AgentOK(b, NoCall, q)
    BY <2>1 DEF AtGate, AgentOK, Before, Writing
  <2>4. Become(c, b) /\ EndCall(c)
    BY <1>5
  <2> HIDE DEF b
  <2> QED BY <2>2, <2>3, <2>4, NoCallOK DEF Moved, Become, EndCall
<1> QED BY <1>1, <1>3, <1>4, <1>5

\* Every step of the agent moves its caller only, and keeps what holds of it.
LEMMA AgentStepOK ==
    ASSUME NEW c \in Callers, NEW q, AgentTypeOK, ChainOK(call[c]),
           AgentOK(agent[c], call[c], q), AgentStep(c)
    PROVE  Moved(c, q)
<1> DEFINE a == agent[c]
           k == call[c]
<1>1. /\ a \in State /\ k \in Call
      /\ call \in [Callers -> Call] /\ agent \in [Callers -> State]
  BY DEF AgentTypeOK, ChainTypeOK
<1>2. /\ a.pc \in {"off", "embed", "search", "rank", "end", "lost"} \cup Calling
      /\ a.retries \in 0..2
  BY <1>1 DEF State
<1>3. ASSUME NEW b \in State, AgentOK(b, k, q), Become(c, b), UNCHANGED call
      PROVE  Moved(c, q)
  <2>1. call' = [call EXCEPT ![c] = k]
    BY <1>1, <1>3
  <2> QED BY <1>1, <1>3, <2>1 DEF Moved, Become
<1>4. ASSUME NEW b \in State, Become(c, b), b.pc \in Writing, StartCall(c),
             a.pc \in Writing, b.scope = a.scope, b.hits = a.hits,
             b.passages = a.passages, b.sources = a.sources, b.retries = a.retries
      PROVE  Moved(c, q)
  <2>1. a.pc \in Calling /\ a.pc \notin {"off", "end", "lost"} \cup Before
    BY <1>4 DEF Calling, Before, Writing
  <2>2. AgentOK(b, Begun, q)
    BY <1>4, <2>1 DEF AgentOK, Before, Writing
  <2> QED BY <1>4, <2>2, BegunOK DEF Moved, Become, StartCall
<1>5. CASE EmbedQuery(c)
  <2>1. PICK failed \in BOOLEAN :
            Become(c, [a EXCEPT !.pc = "search", !.embedFailed = failed])
    BY <1>5 DEF EmbedQuery
  <2> DEFINE b == [a EXCEPT !.pc = "search", !.embedFailed = failed]
  <2>2. /\ b.pc = "search" /\ b.scope = a.scope /\ b.hits = a.hits
        /\ b.passages = a.passages /\ b.sources = a.sources /\ b.retries = a.retries
    BY <1>1 DEF State
  <2>3. b \in State
    BY <1>1 DEF State
  <2>4. AgentOK(b, k, q)
    BY <1>5, <2>2 DEF EmbedQuery, At, AgentOK, Before, Writing
  <2>5. Become(c, b) /\ UNCHANGED call
    BY <1>5, <2>1 DEF EmbedQuery
  <2> HIDE DEF b
  <2> QED BY <1>3, <2>3, <2>4, <2>5
<1>6. CASE Search(c)
  <2>1. PICK vs \in SUBSET Within(a.scope), ks \in SUBSET Within(a.scope),
             v \in {"low", "citation", "high"} :
            Become(c, [a EXCEPT !.pc = "rank", !.hits = vs \cup ks, !.vector = v])
    BY <1>6 DEF Search
  <2> DEFINE b == [a EXCEPT !.pc = "rank", !.hits = vs \cup ks, !.vector = v]
  <2>2. /\ b.pc = "rank" /\ b.scope = a.scope /\ b.hits = vs \cup ks
        /\ b.passages = a.passages /\ b.sources = a.sources /\ b.retries = a.retries
    BY <1>1 DEF State
  <2>3. Within(a.scope) \subseteq Books
    BY <1>1 DEF State, Scopes, Within
  <2>4. b \in State
    BY <1>1, <2>1, <2>3 DEF State
  <2>5. AgentOK(b, k, q)
    BY <1>6, <2>1, <2>2 DEF Search, At, AgentOK, Before, Writing
  <2>6. Become(c, b) /\ UNCHANGED call
    BY <1>6, <2>1 DEF Search
  <2> HIDE DEF b
  <2> QED BY <1>3, <2>4, <2>5, <2>6
<1>7. CASE Rank(c)
  <2>1. PICK kept \in SUBSET a.hits, best \in BOOLEAN, citation \in BOOLEAN :
            Route(c, [a EXCEPT !.passages = kept, !.hits = {}, !.best = best,
                               !.citation = citation],
                  {"generate", "retry", "no_result"})
    BY <1>7 DEF Rank
  <2> DEFINE b == [a EXCEPT !.passages = kept, !.hits = {}, !.best = best,
                            !.citation = citation]
  <2>2. /\ b.scope = a.scope /\ b.hits = {} /\ b.passages = kept
        /\ b.sources = a.sources /\ b.retries = a.retries
    BY <1>1 DEF State
  <2>3. b \in State
    BY <1>1, <2>1 DEF State
  <2>4. a.retries = 0 /\ AtGate(b, q)
    BY <1>7, <2>1, <2>2, <2>3 DEF Rank, At, AgentOK, AtGate, Before
  <2>5. Route(c, b, {"generate", "retry", "no_result"})
    BY <2>1
  <2> HIDE DEF b
  <2> QED BY <2>2, <2>3, <2>4, <2>5, DecisionOK, RouteOK
<1>8. CASE Rephrased(c)
  <2>1. PICK citation \in BOOLEAN :
            Route(c, [a EXCEPT !.retries = @ + 1, !.citation = citation],
                  {"generate", "no_result"})
    BY <1>8 DEF Rephrased
  <2> DEFINE b == [a EXCEPT !.retries = @ + 1, !.citation = citation]
  <2>2. a.retries = 0 /\ a.retries + 1 = 1
    BY <1>8 DEF Rephrased, At, AgentOK, Before
  <2>3. /\ b.scope = a.scope /\ b.hits = a.hits /\ b.passages = a.passages
        /\ b.sources = a.sources /\ b.retries = 1
    BY <1>1, <2>2 DEF State
  <2>4. b \in State
    <3>1. b = [a EXCEPT !.retries = 1, !.citation = citation]
      BY <2>2
    <3>2. 1 \in 0..2
      OBVIOUS
    <3> HIDE DEF b
    <3> QED BY <1>1, <2>1, <3>1, <3>2 DEF State
  <2>5. AtGate(b, q)
    BY <1>8, <2>3, <2>4 DEF Rephrased, At, AgentOK, AtGate, Before
  <2>6. Route(c, b, {"generate", "no_result"})
    BY <2>1
  <2>7. Decision(b) \in {"generate", "no_result"}
    <3>1. ~(b.retries < 1)
      BY <2>3
    <3> HIDE DEF b
    <3> QED BY <2>4, <3>1, DecisionOK
  <2> HIDE DEF b
  <2> QED BY <2>5, <2>6, <2>7, RouteOK
<1>9. ASSUME a.pc \in Writing, NEW answer \in {"text", "fallback"}
      PROVE  /\ Generated(a, answer) \in State
             /\ \A n \in Call : (answer = "fallback" => n.state = "raised")
                                 => AgentOK(Generated(a, answer), n, q)
  <2> DEFINE b == Generated(a, answer)
  <2>1. /\ b.pc = "end" /\ b.scope = a.scope /\ b.hits = a.hits
        /\ b.passages = a.passages /\ b.sources = a.passages
        /\ b.retries = a.retries /\ b.answer = answer
    BY <1>1 DEF Generated, State
  <2>2. b \in State
    BY <1>1, <1>9 DEF Generated, State
  <2>3. a.pc \notin {"off", "end", "lost"} \cup Before
    BY <1>9 DEF Before, Writing
  <2>4. a.passages # {}
    BY <1>9 DEF AgentOK
  <2>5. ASSUME NEW n \in Call, answer = "fallback" => n.state = "raised"
        PROVE  AgentOK(b, n, q)
    BY <1>9, <2>1, <2>3, <2>4, <2>5 DEF AgentOK, Before, Writing
  <2> QED BY <2>2, <2>5
<1>10. CASE GenerateFails(c)
  <2>1. a.pc \in Writing /\ k.state = "raised" /\ UNCHANGED call
        /\ Become(c, Generated(a, "fallback"))
    BY <1>10 DEF GenerateFails, Writing
  <2>2. Generated(a, "fallback") \in State /\ AgentOK(Generated(a, "fallback"), k, q)
    BY <1>1, <1>9, <2>1
  <2> QED BY <1>3, <2>1, <2>2
<1>11. CASE Regenerate(c)
  <2> DEFINE b == [a EXCEPT !.pc = "regenerate"]
  <2>1. /\ b.pc = "regenerate" /\ b.scope = a.scope /\ b.hits = a.hits
        /\ b.passages = a.passages /\ b.sources = a.sources /\ b.retries = a.retries
    BY <1>1 DEF State
  <2>2. b \in State
    BY <1>1 DEF State, Calling
  <2>3. Become(c, b) /\ StartCall(c) /\ a.pc \in Writing /\ b.pc \in Writing
    BY <1>11, <2>1 DEF Regenerate, At, Writing
  <2> HIDE DEF b
  <2> QED BY <1>4, <2>1, <2>2, <2>3
<1>12. CASE CheckAgreement(c)
  <2> DEFINE b == [a EXCEPT !.pc = "agree"]
  <2>1. /\ b.pc = "agree" /\ b.scope = a.scope /\ b.hits = a.hits
        /\ b.passages = a.passages /\ b.sources = a.sources /\ b.retries = a.retries
    BY <1>1 DEF State
  <2>2. b \in State
    BY <1>1 DEF State, Calling
  <2>3. Become(c, b) /\ StartCall(c) /\ a.pc \in Writing /\ b.pc \in Writing
    BY <1>12, <2>1 DEF CheckAgreement, Writing
  <2> HIDE DEF b
  <2> QED BY <1>4, <2>1, <2>2, <2>3
<1>13. CASE EnforceLanguage(c)
  <2> DEFINE b == [a EXCEPT !.pc = "language"]
  <2>1. /\ b.pc = "language" /\ b.scope = a.scope /\ b.hits = a.hits
        /\ b.passages = a.passages /\ b.sources = a.sources /\ b.retries = a.retries
    BY <1>1 DEF State
  <2>2. b \in State
    BY <1>1 DEF State, Calling
  <2>3. Become(c, b) /\ StartCall(c) /\ a.pc \in Writing /\ b.pc \in Writing
    BY <1>13, <2>1 DEF EnforceLanguage, Written, At, Writing
  <2> HIDE DEF b
  <2> QED BY <1>4, <2>1, <2>2, <2>3
<1>14. CASE GenerateEnds(c)
  <2> DEFINE b == Generated(a, "text")
  <2>1. a.pc \in Writing /\ Become(c, b) /\ EndCall(c)
    BY <1>14 DEF GenerateEnds, Written, At, Writing
  <2>2. b \in State /\ AgentOK(b, NoCall, q)
    BY <1>9, <2>1, NoCallOK
  <2> HIDE DEF b
  <2> QED BY <2>1, <2>2, NoCallOK DEF Moved, Become, EndCall
<1>15. CASE ChainStep(c) /\ UNCHANGED agent
  <2>1. k.state = "trying" /\ ChainOK(call'[c]) /\ call'[c] \in Call
    BY <1>15, ChainStepOK DEF AgentTypeOK, ChainTypeOK
  <2>2. AgentOK(a, call'[c], q)
    BY <2>1 DEF AgentOK
  <2>3. agent' = [agent EXCEPT ![c] = a]
    BY <1>1, <1>15
  <2>4. call' = [call EXCEPT ![c] = call'[c]]
    BY <1>1, <1>15 DEF ChainStep, ProviderAnswers, ProviderQuota, ProviderFails
  <2> QED BY <1>1, <2>1, <2>2, <2>3, <2>4 DEF Moved
<1> QED BY <1>5, <1>6, <1>7, <1>8, <1>10, <1>11, <1>12, <1>13, <1>14, <1>15
  DEF AgentStep

-----------------------------------------------------------------------------
(* The inductive invariant. *)
LEMMA OneRequestMoves ==
    ASSUME AskInv, NEW r \in Requests, NEW q \in Request, RequestOK(q),
           request' = [request EXCEPT ![r] = q], Moved(r, q), CacheOK'
    PROVE  AskInv'
<1>1. PICK a \in State, k \in Call :
        /\ ChainOK(k) /\ AgentOK(a, k, q)
        /\ agent' = [agent EXCEPT ![r] = a]
        /\ call' = [call EXCEPT ![r] = k]
  BY DEF Moved
<1>2. r \in Callers
  BY AskAssumption
<1>3. /\ call \in [Callers -> Call] /\ agent \in [Callers -> State]
      /\ request \in [Requests -> Request]
  BY DEF AskInv, AskTypeOK, AgentTypeOK, ChainTypeOK
<1>4. /\ call' \in [Callers -> Call] /\ agent' \in [Callers -> State]
      /\ request' \in [Requests -> Request]
      /\ call'[r] = k /\ agent'[r] = a /\ request'[r] = q
      /\ \A s \in Requests : s # r => /\ call'[s] = call[s] /\ agent'[s] = agent[s]
                                      /\ request'[s] = request[s]
  BY <1>1, <1>2, <1>3
<1>5. AskTypeOK'
  BY <1>4 DEF AskTypeOK, AgentTypeOK, ChainTypeOK, CacheOK
<1>6. ASSUME NEW s \in Requests
      PROVE  /\ ChainOK(call'[s]) /\ AgentOK(agent'[s], call'[s], request'[s])
             /\ RequestOK(request'[s])
  <2>1. CASE s = r
    BY <1>1, <1>4, <2>1
  <2>2. CASE s # r
    BY <1>4, <2>2 DEF AskInv
  <2> QED BY <2>1, <2>2
<1> QED BY <1>5, <1>6 DEF AskInv

\* A request whose agent does not run, before or after the step.
LEMMA Unmoved ==
    ASSUME AskInv, NEW r \in Requests, NEW q,
           agent[r].pc = "off" \/ (q.pc = request[r].pc /\ q.scope = request[r].scope),
           UNCHANGED <<call, agent>>
    PROVE  Moved(r, q)
<1>1. /\ call \in [Callers -> Call] /\ agent \in [Callers -> State] /\ r \in Callers
  BY AskAssumption DEF AskInv, AskTypeOK, AgentTypeOK, ChainTypeOK
<1>2. agent[r] \in State /\ call[r] \in Call
  BY <1>1
<1>3. ChainOK(call[r]) /\ AgentOK(agent[r], call[r], q)
  BY DEF AskInv, AgentOK
<1>4. agent' = [agent EXCEPT ![r] = agent[r]] /\ call' = [call EXCEPT ![r] = call[r]]
  BY <1>1
<1> QED BY <1>2, <1>3, <1>4 DEF Moved

\* The state of no request is as states are.
LEMMA NoStateOK ==
    /\ NoState \in State
    /\ \A q : AgentOK(NoState, NoCall, q)
<1>1. NoState \in State
  BY DEF NoState, State, Scopes
<1>2. ASSUME NEW q PROVE AgentOK(NoState, NoCall, q)
  BY DEF NoState, AgentOK, Before, Writing
<1> QED BY <1>1, <1>2

\* No request has been made yet.
LEMMA AskInitInv == AskInit => AskInv
<1> SUFFICES ASSUME AskInit PROVE AskInv
  OBVIOUS
<1>1. AskTypeOK
  <2>1. call \in [Callers -> Call]
    BY NoCallOK DEF AskInit, AgentInit, ChainInit
  <2>2. agent \in [Callers -> State]
    BY NoStateOK DEF AskInit, AgentInit
  <2>3. request \in [Requests -> Request]
    BY AskAssumption DEF AskInit, Request
  <2>4. cache \in [Keys -> Reply \cup {NoReply}]
    BY DEF AskInit
  <2> QED BY <2>1, <2>2, <2>3, <2>4 DEF AskTypeOK, AgentTypeOK, ChainTypeOK
<1>2. ASSUME NEW r \in Requests
      PROVE  /\ ChainOK(call[r]) /\ AgentOK(agent[r], call[r], request[r])
             /\ RequestOK(request[r])
  <2>1. call[r] = NoCall /\ agent[r] = NoState
    BY AskAssumption DEF AskInit, AgentInit, ChainInit
  <2>2. request[r].pc = "new" /\ request[r].reply = NoReply
    BY DEF AskInit
  <2> QED BY <2>1, <2>2, NoCallOK, NoStateOK DEF RequestOK
<1>3. CacheOK
  BY DEF AskInit, CacheOK
<1> QED BY <1>1, <1>2, <1>3 DEF AskInv

\* Every step keeps the invariant.
LEMMA AskNextInv == AskInv /\ [AskNext]_askVars => AskInv'
<1> SUFFICES ASSUME AskInv, [AskNext]_askVars PROVE AskInv'
  OBVIOUS
<1>1. CASE UNCHANGED askVars
  BY <1>1 DEF askVars, AskInv, AskTypeOK, AgentTypeOK, ChainTypeOK, CacheOK
<1>2. ASSUME NEW r \in Requests,
             \/ Ask(r) \/ Hit(r) \/ Miss(r) \/ AgentRuns(r)
             \/ AgentEnds(r) \/ TimesOut(r) \/ Store(r)
      PROVE  AskInv'
  <2> DEFINE q == request[r]
             a == agent[r]
             k == call[r]
  <2>1. /\ q \in Request /\ a \in State /\ k \in Call /\ r \in Callers
        /\ request \in [Requests -> Request]
        /\ call \in [Callers -> Call] /\ agent \in [Callers -> State]
    BY AskAssumption DEF AskInv, AskTypeOK, AgentTypeOK, ChainTypeOK
  <2>2. ChainOK(k) /\ AgentOK(a, k, q) /\ RequestOK(q) /\ CacheOK
    BY DEF AskInv
  <2>3. UNCHANGED cache => CacheOK'
    BY <2>2 DEF CacheOK
  <2>4. q.pc # "agent" => a.pc = "off"
    BY <2>2 DEF AgentOK
  <2>5. /\ q.scope \in Scopes /\ q.question \in Questions
        /\ q.pc \in {"new", "lookup", "agent", "store", "done", "failed"}
    BY <2>1 DEF Request
  <2>6. CASE Ask(r)
    <3> DEFINE n == [q EXCEPT !.pc = "lookup"]
    <3>1. n.pc = "lookup" /\ n.reply = q.reply /\ n \in Request
      BY <2>1 DEF Request
    <3>2. RequestOK(n)
      BY <2>2, <2>6, <3>1 DEF Ask, RequestOK
    <3>3. request' = [request EXCEPT ![r] = n] /\ UNCHANGED <<call, agent, cache>>
      BY <2>6 DEF Ask
    <3>4. a.pc = "off"
      BY <2>4, <2>6 DEF Ask
    <3> HIDE DEF n
    <3> QED BY <2>3, <3>1, <3>2, <3>3, <3>4, Unmoved, OneRequestMoves
  <2>7. CASE Hit(r)
    <3> DEFINE e == cache[ReadKey(r)]
               n == [q EXCEPT !.pc = "done", !.was_cached = TRUE, !.reply = e]
    <3>1. ReadKey(r) \in Keys /\ ReadKey(r)[2] = q.scope
      BY <2>5 DEF ReadKey, Keys
    <3>2. e \in Reply /\ GoodReply(e, q.scope)
      BY <2>2, <2>7, <3>1 DEF Hit, CacheOK
    <3>3. n.pc = "done" /\ n.reply = e /\ n.scope = q.scope /\ n \in Request
      BY <2>1, <3>2 DEF Request
    <3>4. RequestOK(n)
      BY <3>2, <3>3 DEF RequestOK
    <3>5. request' = [request EXCEPT ![r] = n] /\ UNCHANGED <<call, agent, cache>>
      BY <2>1, <2>7 DEF Hit
    <3>6. a.pc = "off"
      BY <2>4, <2>7 DEF Hit
    <3> HIDE DEF n
    <3> QED BY <2>3, <3>3, <3>4, <3>5, <3>6, Unmoved, OneRequestMoves
  <2>8. CASE Miss(r)
    <3> DEFINE n == [q EXCEPT !.pc = "agent"]
               b == [NoState EXCEPT !.pc = "embed", !.scope = q.scope]
    <3>1. n.pc = "agent" /\ n.reply = q.reply /\ n.scope = q.scope /\ n \in Request
      BY <2>1 DEF Request
    <3>2. RequestOK(n)
      BY <2>2, <2>8, <3>1 DEF Miss, RequestOK
    <3>3. b \in State
      BY <2>5, NoStateOK DEF State
    <3>4. AgentOK(b, k, n)
      BY <3>1 DEF NoState, AgentOK, Before, Writing
    <3>5. /\ request' = [request EXCEPT ![r] = n] /\ UNCHANGED <<call, cache>>
          /\ agent' = [agent EXCEPT ![r] = b]
      BY <2>8 DEF Miss, Invoke, Become
    <3>6. call' = [call EXCEPT ![r] = k]
      BY <2>1, <3>5
    <3> HIDE DEF n, b
    <3>7. Moved(r, n)
      BY <2>1, <2>2, <3>3, <3>4, <3>5, <3>6 DEF Moved
    <3> QED BY <2>3, <3>1, <3>2, <3>5, <3>7, OneRequestMoves
  <2>9. CASE AgentRuns(r)
    <3>1. Moved(r, q)
      BY <2>1, <2>2, <2>9, AgentStepOK DEF AgentRuns, AskInv, AskTypeOK
    <3>2. request' = [request EXCEPT ![r] = q] /\ UNCHANGED cache
      BY <2>1, <2>9 DEF AgentRuns
    <3> QED BY <2>1, <2>2, <2>3, <3>1, <3>2, OneRequestMoves
  <2>10. ASSUME NEW n \in Request, RequestOK(n), UNCHANGED cache,
                request' = [request EXCEPT ![r] = n], Become(r, NoState), EndCall(r)
         PROVE  AskInv'
    <3>1. Moved(r, n)
      BY <2>10, NoCallOK, NoStateOK DEF Moved, Become, EndCall
    <3> QED BY <2>3, <2>10, <3>1, OneRequestMoves
  <2>11. CASE AgentEnds(r)
    <3>1. PICK refuses \in BOOLEAN :
            /\ refuses => a.answer = "text"
            /\ request' = [request EXCEPT ![r].pc = "store",
                                          ![r].reply = ReplyOf(r, refuses)]
      BY <2>11 DEF AgentEnds
    <3> DEFINE e == ReplyOf(r, refuses)
               n == [q EXCEPT !.pc = "store", !.reply = e]
    <3>2. /\ a.pc = "end" /\ a.scope = q.scope /\ a.answer # "none"
          /\ a.answer \in {"text", "fallback"} => a.sources # {}
          /\ a.answer \in {"refusal", "outage"} => a.sources = {}
          /\ a.sources \subseteq Within(q.scope)
      BY <2>2, <2>11 DEF AgentEnds, At, AgentOK
    <3>3. /\ a.answer \in {"none", "text", "fallback", "refusal", "outage"}
          /\ a.sources \in SUBSET Books
      BY <2>1 DEF State
    <3>4. /\ e.answer = IF a.answer = "text" /\ refuses THEN "refusal" ELSE a.answer
          /\ e.no_result = (a.answer \in {"refusal", "outage"} \/ refuses)
          /\ e.sources = a.sources /\ e.scope = q.scope
      BY DEF ReplyOf
    <3>5. /\ e.answer \in {"text", "fallback", "refusal", "outage"}
          /\ e.no_result <=> e.answer \in {"refusal", "outage"}
      BY <3>1, <3>2, <3>3, <3>4
    <3>6. e \in Reply
      BY <2>5, <3>3, <3>5 DEF ReplyOf, Reply
    <3>7. GoodReply(e, q.scope)
      BY <3>1, <3>2, <3>4, <3>5, <3>6 DEF GoodReply
    <3>8. n.pc = "store" /\ n.reply = e /\ n.scope = q.scope /\ n \in Request
      BY <2>1, <3>6 DEF Request
    <3>9. RequestOK(n)
      BY <3>7, <3>8 DEF RequestOK
    <3>10. /\ request' = [request EXCEPT ![r] = n] /\ UNCHANGED cache
           /\ Become(r, NoState) /\ EndCall(r)
      BY <2>1, <2>11, <3>1 DEF AgentEnds
    <3> HIDE DEF n, e
    <3> QED BY <2>10, <3>8, <3>9, <3>10
  <2>12. CASE TimesOut(r)
    <3> DEFINE n == [q EXCEPT !.pc = "failed"]
    <3>1. n.pc = "failed" /\ n.reply = q.reply /\ n \in Request
      BY <2>1 DEF Request
    <3>2. RequestOK(n)
      BY <2>2, <2>12, <3>1 DEF TimesOut, RequestOK
    <3>3. /\ request' = [request EXCEPT ![r] = n] /\ UNCHANGED cache
          /\ Become(r, NoState) /\ EndCall(r)
      BY <2>12 DEF TimesOut
    <3> HIDE DEF n
    <3> QED BY <2>10, <3>1, <3>2, <3>3
  <2>13. CASE Store(r)
    <3> DEFINE n == [q EXCEPT !.pc = "done"]
    <3>1. n.pc = "done" /\ n.reply = q.reply /\ n.scope = q.scope /\ n \in Request
      BY <2>1 DEF Request
    <3>2. GoodReply(q.reply, q.scope) /\ RequestOK(n)
      BY <2>2, <2>13, <3>1 DEF Store, RequestOK
    <3>3. request' = [request EXCEPT ![r] = n] /\ UNCHANGED <<call, agent>>
      BY <2>13 DEF Store
    <3>4. a.pc = "off"
      BY <2>4, <2>13 DEF Store
    <3>5. CacheOK'
      <4>1. CASE UNCHANGED cache
        BY <2>3, <4>1
      <4>2. CASE cache' = [cache EXCEPT ![WriteKey(r)] = q.reply]
        <5>1. /\ q.reply \in Reply
              /\ \A s \in {q.scope, NoBook} : GoodReply(q.reply, s)
          BY <3>2 DEF GoodReply, Within, Reply
        <5>2. WriteKey(r)[2] \in {q.scope, NoBook}
          BY DEF WriteKey
        <5>3. \A x \in Keys : cache'[x] = IF x = WriteKey(r) THEN q.reply ELSE cache[x]
          BY <2>2, <4>2 DEF CacheOK
        <5>4. cache' \in [Keys -> Reply \cup {NoReply}]
          BY <2>2, <4>2, <5>1 DEF CacheOK
        <5>5. ASSUME NEW x \in Keys, cache'[x] # NoReply
              PROVE  GoodReply(cache'[x], x[2])
          BY <2>2, <5>1, <5>2, <5>3, <5>5 DEF CacheOK
        <5> QED BY <5>4, <5>5 DEF CacheOK
      <4> QED BY <2>13, <4>1, <4>2 DEF Store
    <3> HIDE DEF n
    <3> QED BY <3>1, <3>2, <3>3, <3>4, <3>5, Unmoved, OneRequestMoves
  <2> QED BY <1>2, <2>6, <2>7, <2>8, <2>9, <2>11, <2>12, <2>13
<1>3. ASSUME NEW x \in Keys, Expire(x) PROVE AskInv'
  <2>1. UNCHANGED <<call, agent, request>> /\ cache' = [cache EXCEPT ![x] = NoReply]
    BY <1>3 DEF Expire
  <2>2. CacheOK'
    BY <2>1 DEF AskInv, CacheOK
  <2>3. AskTypeOK'
    BY <2>1, <2>2 DEF AskInv, AskTypeOK, AgentTypeOK, ChainTypeOK, CacheOK
  <2> QED BY <2>1, <2>2, <2>3 DEF AskInv
<1> QED BY <1>1, <1>2, <1>3 DEF AskNext

\* AskInv holds of every state the endpoints can reach, for any number of
\* concurrent requests.
THEOREM AskInvariant == AskSpec => []AskInv
BY AskInitInv, AskNextInv, PTL DEF AskSpec

-----------------------------------------------------------------------------
(* What follows of it. *)
\* The variables keep their types.
THEOREM AskTypes == AskSpec => []AskTypeOK
<1>1. AskInv => AskTypeOK
  BY DEF AskInv
<1> QED BY <1>1, AskInvariant, PTL

\* No reply holds passages of a book that was not asked about, although ask_json
\* caches what it found in one book under a key that names none.
THEOREM ScopeKept == AskSpec => []RepliesInScope
<1>1. AskInv => RepliesInScope
  <2> SUFFICES ASSUME AskInv, NEW r \in Requests, request[r].reply # NoReply
               PROVE  request[r].reply.sources \subseteq Within(request[r].scope)
    BY DEF RepliesInScope
  <2>1. RequestOK(request[r])
    BY DEF AskInv
  <2> QED BY <2>1 DEF RequestOK, GoodReply
<1> QED BY <1>1, AskInvariant, PTL

\* retry_node runs once at most, and the edge it has not is never looked for.
THEOREM OneRetry == AskSpec => []RetriesOnce
<1>1. AskInv => RetriesOnce
  BY AskAssumption DEF AskInv, AgentOK, RetriesOnce
<1> QED BY <1>1, AskInvariant, PTL

\* _chat_with_retry keeps the order of its providers, and raises only after the
\* last one, however many there are.
THEOREM ProvidersInOrder == AskSpec => [](AskedInOrder /\ RaisesAsLastResort)
<1>1. AskInv => AskedInOrder
  <2> SUFFICES ASSUME AskInv, NEW c \in Callers, call[c].state = "trying"
               PROVE  /\ \A p \in Providers :
                            p < call[c].provider => Exhausted(call[c], p)
                      /\ \A p \in Providers :
                            p >= call[c].provider => ~Exhausted(call[c], p)
    BY DEF AskedInOrder
  <2> DEFINE k == call[c]
  <2>1. k \in Call /\ ChainOK(k)
    BY AskAssumption DEF AskInv, AskTypeOK, AgentTypeOK, ChainTypeOK
  <2>2. k.provider \in Providers /\ k.attempt \in 0..(MaxAttempts - 1)
    BY <2>1 DEF ChainOK, Call
  <2>3. ASSUME NEW p \in Providers, p >= k.provider PROVE ~Exhausted(k, p)
    <3>1. p = k.provider \/ p > k.provider
      BY <2>2, <2>3, ProviderChainAssumption DEF Providers
    <3>2. p \notin k.lost /\ k.quota[p] \in {0, k.attempt}
      BY <2>1, <3>1 DEF ChainOK
    <3>3. k.quota[p] # MaxAttempts
      BY <2>2, <3>2 DEF MaxAttempts
    <3> QED BY <3>2, <3>3 DEF Exhausted
  <2> QED BY <2>1, <2>3 DEF ChainOK
<1>2. AskInv => RaisesAsLastResort
  BY AskAssumption DEF AskInv, ChainOK, RaisesAsLastResort
<1> QED BY <1>1, <1>2, AskInvariant, PTL

\* generate_node writes its fallback text only after a call that found every
\* provider exhausted.
THEOREM FallbackJustified == AskSpec => []FallbackIsLastResort
<1>1. AskInv => FallbackIsLastResort
  <2> SUFFICES ASSUME AskInv, NEW c \in Callers,
                      agent[c].pc = "end", agent[c].answer = "fallback"
               PROVE  \A p \in Providers : Exhausted(call[c], p)
    BY DEF FallbackIsLastResort
  <2>1. ChainOK(call[c]) /\ AgentOK(agent[c], call[c], request[c])
    BY AskAssumption DEF AskInv
  <2> QED BY <2>1 DEF AgentOK, ChainOK
<1> QED BY <1>1, AskInvariant, PTL

-----------------------------------------------------------------------------
(* The endpoints implement the service: a step of one request to its end is   *)
(* the service's reply or failure, every other step a stutter.                *)
LEMMA InitImplements == AskInit => Service!Init
<1> SUFFICES ASSUME AskInit PROVE Service!Init
  OBVIOUS
<1>1. \A r \in Requests : request[r].pc = "new" /\ request[r].scope \in Scopes
  BY DEF AskInit
<1>2. \A r \in Requests : Seen(r) = NoReply
  BY <1>1 DEF Seen
<1> QED BY <1>1, <1>2 DEF Service!Init, Scopes


Wanted == [r \in Requests |-> request[r].scope]
Replies == [r \in Requests |-> Seen(r)]

\* A step that changes one request, as the client of each sees it.
LEMMA OneRequestSeen ==
    ASSUME NEW r \in Requests, NEW q \in Request, request \in [Requests -> Request],
           request' = [request EXCEPT ![r] = q], q.scope = request[r].scope,
           request[r].pc \notin {"done", "failed"},
           q.pc = "done" => GoodReply(q.reply, q.scope)
    PROVE  Service!Next \/ UNCHANGED <<Wanted, Replies>>
<1>1. /\ request'[r] = q
      /\ \A s \in Requests : s # r => request'[s] = request[s]
  OBVIOUS
<1>2. UNCHANGED Wanted
  BY <1>1 DEF Wanted
<1>3. \A s \in Requests : s # r => Seen(s)' = Seen(s)
  BY <1>1 DEF Seen
<1>4. Seen(r) = NoReply
  BY DEF Seen
<1>5. Replies' = [Replies EXCEPT ![r] = Seen(r)']
  BY <1>3 DEF Replies
<1>6. Replies[r] = NoReply /\ Replies'[r] = Seen(r)' /\ Wanted[r] = q.scope
  BY <1>4 DEF Replies, Wanted
<1>7. CASE q.pc = "done"
  <2> DEFINE e == [answer |-> q.reply.answer, no_result |-> q.reply.no_result,
                   sources |-> q.reply.sources]
  <2>1. Seen(r)' = e
    BY <1>1, <1>7 DEF Seen
  <2>2. e \in Service!Answer
    BY <1>7 DEF GoodReply, Reply, Service!Answer
  <2>3. Service!WellFormed(e)
    BY <1>7 DEF GoodReply, Service!WellFormed
  <2>4. Wanted[r] # NoBook => e.sources \subseteq {Wanted[r]}
    BY <1>6, <1>7 DEF GoodReply, Within
  <2> HIDE DEF e
  <2>5. Service!Reply(r)
    BY <1>2, <1>5, <1>6, <2>1, <2>2, <2>3, <2>4
    DEF Service!Reply, Service!Honest, Wanted, Replies
  <2> QED BY <2>5 DEF Service!Next
<1>8. CASE q.pc = "failed"
  <2>1. Seen(r)' = Failure
    BY <1>1, <1>8 DEF Seen
  <2>2. Service!Fail(r)
    BY <1>2, <1>5, <1>6, <2>1 DEF Service!Fail, Wanted, Replies
  <2> QED BY <2>2 DEF Service!Next
<1>9. CASE q.pc \notin {"done", "failed"}
  <2>1. Seen(r)' = NoReply
    BY <1>1, <1>9 DEF Seen
  <2>2. Replies' = Replies
    BY <1>5, <1>6, <2>1 DEF Replies
  <2> QED BY <1>2, <2>2
<1> QED BY <1>7, <1>8, <1>9

\* Every step of the endpoints is a step of the service, or none.
LEMMA NextImplements ==
    AskInv /\ [AskNext]_askVars => Service!Next \/ UNCHANGED <<Wanted, Replies>>
<1> SUFFICES ASSUME AskInv, [AskNext]_askVars
             PROVE  Service!Next \/ UNCHANGED <<Wanted, Replies>>
  OBVIOUS
<1>1. request \in [Requests -> Request]
  BY DEF AskInv, AskTypeOK
<1>2. CASE UNCHANGED request
  BY <1>2 DEF Wanted, Replies, Seen
<1>3. ASSUME NEW r \in Requests,
             Ask(r) \/ Hit(r) \/ Miss(r) \/ AgentEnds(r) \/ TimesOut(r) \/ Store(r)
      PROVE  Service!Next \/ UNCHANGED <<Wanted, Replies>>
  <2> DEFINE o == request[r]
  <2>1. /\ o \in Request /\ o.pc \notin {"done", "failed"}
        /\ o.scope \in Scopes /\ o.question \in Questions
    BY <1>1, <1>3 DEF Ask, Hit, Miss, AgentEnds, TimesOut, Store, Request
  <2>2. PICK q : /\ request' = [request EXCEPT ![r] = q] /\ q.scope = o.scope
                 /\ q.pc = "done" => GoodReply(q.reply, q.scope)
    <3>1. CASE Ask(r)
      <4> WITNESS [o EXCEPT !.pc = "lookup"]
      <4> QED BY <1>1, <2>1, <3>1 DEF Ask, Request
    <3>2. CASE Miss(r)
      <4> WITNESS [o EXCEPT !.pc = "agent"]
      <4> QED BY <1>1, <2>1, <3>2 DEF Miss, Request
    <3>3. CASE TimesOut(r)
      <4> WITNESS [o EXCEPT !.pc = "failed"]
      <4> QED BY <1>1, <2>1, <3>3 DEF TimesOut, Request
    <3>4. CASE AgentEnds(r)
      <4>1. PICK refuses \in BOOLEAN :
              request' = [request EXCEPT ![r].pc = "store",
                                         ![r].reply = ReplyOf(r, refuses)]
        BY <3>4 DEF AgentEnds
      <4> WITNESS [o EXCEPT !.pc = "store", !.reply = ReplyOf(r, refuses)]
      <4> QED BY <1>1, <2>1, <4>1 DEF Request
    <3>5. CASE Hit(r)
      <4> WITNESS [o EXCEPT !.pc = "done", !.was_cached = TRUE,
                            !.reply = cache[ReadKey(r)]]
      <4>1. ReadKey(r) \in Keys /\ ReadKey(r)[2] = o.scope
        BY <2>1 DEF ReadKey, Keys
      <4>2. GoodReply(cache[ReadKey(r)], o.scope)
        BY <3>5, <4>1 DEF Hit, AskInv, CacheOK
      <4> QED BY <1>1, <2>1, <3>5, <4>2 DEF Hit, Request
    <3>6. CASE Store(r)
      <4> WITNESS [o EXCEPT !.pc = "done"]
      <4>1. GoodReply(o.reply, o.scope)
        BY <3>6 DEF Store, AskInv, RequestOK
      <4> QED BY <1>1, <2>1, <3>6, <4>1 DEF Store, Request
    <3> QED BY <1>3, <3>1, <3>2, <3>3, <3>4, <3>5, <3>6
  <2>3. request' \in [Requests -> Request]
    BY AskNextInv DEF AskInv, AskTypeOK
  <2>4. q \in Request
    BY <1>1, <2>2, <2>3
  <2> QED BY <1>1, <2>1, <2>2, <2>4, OneRequestSeen
<1> QED BY <1>2, <1>3 DEF AskNext, AgentRuns, Expire, askVars

\* The cache, the agent and its providers, the time-out and the refusals read
\* out of the text together implement AnswerService: one final answer, in scope,
\* with sources where it needs them.
THEOREM Implementation == AskSpec => ImplementsService
<1>1. AskInv /\ [AskNext]_askVars => [Service!Next]_<<Wanted, Replies>>
  BY NextImplements
<1> QED BY <1>1, InitImplements, AskInvariant, PTL
  DEF ImplementsService, Service!Spec, AskSpec, Wanted, Replies
=============================================================================
