--------------------------------- MODULE Ask ---------------------------------
(***************************************************************************)
(* The endpoints ask_json and ask_stream: the answer cache in Redis, the   *)
(* agent behind it, and the time-out around the agent.  Requests of one    *)
(* tenant run concurrently and meet in the cache only.                     *)
(***************************************************************************)
EXTENDS Agent

CONSTANTS
    Requests,   \* the requests, each made once; they are the agent's Callers
    Questions,  \* questions, up to case and surrounding blanks
    Endpoints,  \* the endpoints in use
    NoReply, Failure

ASSUME AskAssumption ==
    /\ Requests = Callers
    /\ Endpoints \subseteq {"json", "stream"}

VARIABLES request, cache

askVars == <<call, agent, request, cache>>

\* What an endpoint returns and caches.  scope is the book the answer was made
\* for, which the cached body does not tell.
Reply == [answer: {"text", "fallback", "refusal", "outage"},
          no_result: BOOLEAN, sources: SUBSET Books, scope: Scopes]

Keys == Questions \X Scopes
Request == [pc: {"new", "lookup", "agent", "store", "done", "failed"},
            endpoint: {"json", "stream"}, question: Questions, scope: Scopes,
            reply: Reply \cup {NoReply}, was_cached: BOOLEAN]

AskTypeOK ==
    /\ AgentTypeOK
    /\ request \in [Requests -> Request]
    /\ cache \in [Keys -> Reply \cup {NoReply}]

AskInit ==
    /\ AgentInit
    /\ request \in [Requests -> [pc: {"new"}, endpoint: Endpoints,
                                 question: Questions, scope: Scopes,
                                 reply: {NoReply}, was_cached: {FALSE}]]
    /\ cache = [k \in Keys |-> NoReply]

-----------------------------------------------------------------------------
\* The key of a question is made for every book.
MutantReadKey(r) == <<request[r].question, NoBook>>
\* _cache_key, as both endpoints read and as each of them writes: ask_json
\* leaves out the book.
ReadKey(r) == <<request[r].question, request[r].scope>>
WriteKey(r) ==
    <<request[r].question,
      IF request[r].endpoint = "json" THEN NoBook ELSE request[r].scope>>

Ask(r) ==
    /\ request[r].pc = "new"
    /\ request' = [request EXCEPT ![r].pc = "lookup"]
    /\ UNCHANGED <<call, agent, cache>>

\* _get_cached: a miss, a failure and a slow Redis come to the same.
Hit(r) ==
    /\ request[r].pc = "lookup"
    /\ cache[ReadKey(r)] # NoReply
    /\ request' = [request EXCEPT ![r].pc = "done", ![r].was_cached = TRUE,
                                  ![r].reply = cache[ReadKey(r)]]
    /\ UNCHANGED <<call, agent, cache>>

Miss(r) ==
    /\ request[r].pc = "lookup"
    /\ request' = [request EXCEPT ![r].pc = "agent"]
    /\ Invoke(r, request[r].scope)
    /\ UNCHANGED <<call, cache>>

AgentRuns(r) == AgentStep(r) /\ UNCHANGED <<request, cache>>

\* The agent's sources do not reach the reply.
MutantReplyOf(r, refuses) ==
    [answer |-> IF agent[r].answer = "text" /\ refuses THEN "refusal" ELSE agent[r].answer,
     no_result |-> agent[r].answer \in {"refusal", "outage"} \/ refuses,
     sources |-> {}, scope |-> request[r].scope]
\* A text that reads like a refusal becomes one; its sources stay.
ReplyOf(r, refuses) ==
    [answer |-> IF agent[r].answer = "text" /\ refuses THEN "refusal" ELSE agent[r].answer,
     no_result |-> agent[r].answer \in {"refusal", "outage"} \/ refuses,
     sources |-> agent[r].sources, scope |-> request[r].scope]

AgentEnds(r) ==
    /\ request[r].pc = "agent" /\ At(r, "end")
    /\ \E refuses \in BOOLEAN :
        /\ refuses => agent[r].answer = "text"
        /\ request' = [request EXCEPT ![r].pc = "store",
                                      ![r].reply = ReplyOf(r, refuses)]
    /\ Become(r, NoState)
    /\ EndCall(r)
    /\ UNCHANGED cache

\* The wait is not bounded.
MutantTimesOut(r) == FALSE
\* 280 s have passed: the agent is cancelled, and 504 or an error event is all
\* the client gets.
TimesOut(r) ==
    /\ request[r].pc = "agent"
    /\ request' = [request EXCEPT ![r].pc = "failed"]
    /\ Become(r, NoState)
    /\ EndCall(r)
    /\ UNCHANGED cache

\* Whether the endpoint caches the reply: ask_json spares the fallback text,
\* ask_stream does not.
Cacheable(r) ==
    request[r].endpoint = "json" => request[r].reply.answer # "fallback"

\* _set_cached is best effort.
Store(r) ==
    /\ request[r].pc = "store"
    /\ request' = [request EXCEPT ![r].pc = "done"]
    /\ \/ Cacheable(r) /\ cache' = [cache EXCEPT ![WriteKey(r)] = request[r].reply]
       \/ UNCHANGED cache
    /\ UNCHANGED <<call, agent>>

\* A day has passed.
Expire(k) ==
    /\ cache[k] # NoReply
    /\ cache' = [cache EXCEPT ![k] = NoReply]
    /\ UNCHANGED <<call, agent, request>>

AskNext ==
    \/ \E r \in Requests : \/ Ask(r) \/ Hit(r) \/ Miss(r) \/ AgentRuns(r)
                           \/ AgentEnds(r) \/ TimesOut(r) \/ Store(r)
    \/ \E k \in Keys : Expire(k)

AskSpec == AskInit /\ [][AskNext]_askVars

\* Redis answers or its socket times out, and the timer of the agent rings.
\* Nothing is assumed of the stores and of the providers.
AskFairness ==
    \A r \in Requests : /\ WF_askVars(Hit(r) \/ Miss(r))
                        /\ WF_askVars(AgentEnds(r) \/ TimesOut(r))
                        /\ WF_askVars(Store(r))

-----------------------------------------------------------------------------
(* The client's view. *)
Seen(r) ==
    CASE request[r].pc = "done" ->
            [answer |-> request[r].reply.answer,
             no_result |-> request[r].reply.no_result,
             sources |-> request[r].reply.sources]
      [] request[r].pc = "failed" -> Failure
      [] OTHER -> NoReply

Service == INSTANCE AnswerService WITH
    Silence <- NoReply,
    wanted <- [r \in Requests |-> request[r].scope],
    answer <- [r \in Requests |-> Seen(r)]

-----------------------------------------------------------------------------
(* Properties. *)
\* Cache, agent and providers implement the service: one final answer a request,
\* in scope, with sources exactly where an answer needs them.
ImplementsService == Service!Spec

\* A reply to a question about one book comes from that book, whether the agent
\* or the cache gave it, and whatever other requests have put into the cache.
RepliesInScope ==
    \A r \in Requests : request[r].reply # NoReply =>
        request[r].reply.sources \subseteq Within(request[r].scope)

\* No spinner for ever: a request gets a reply or an error whatever the searches
\* and the providers do.
AllAnswered ==
    \A r \in Requests : request[r].pc = "lookup"
                            ~> request[r].pc \in {"done", "failed"}

\* "the same question scoped to a different document must not reuse another
\* document's cached retrieval/answer" (cache.py).
CacheKeepsScope ==
    \A r \in Requests : request[r].was_cached =>
        request[r].reply.scope = request[r].scope
=============================================================================
