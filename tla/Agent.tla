-------------------------------- MODULE Agent --------------------------------
(***************************************************************************)
(* The graph that answers a question: retrieve, then a quality gate that   *)
(* generates, retries once with the question rephrased, or refuses.        *)
(*                                                                         *)
(* A passage is represented by the book it comes from; what a search, the  *)
(* reranker or the language model says is chosen freely among the outcomes *)
(* that control depends on.  Every graph is run by one caller.             *)
(***************************************************************************)
EXTENDS ProviderChain

CONSTANTS Books, NoBook

ASSUME AgentAssumption == NoBook \notin Books

VARIABLE agent

Scopes == Books \cup {NoBook}
Within(scope) == IF scope = NoBook THEN Books ELSE {scope}

\* The nodes and the calls to the language model inside them.
Calling == {"rephrase", "generate", "regenerate", "agree", "language"}
State == [pc: {"off", "embed", "search", "rank", "end", "lost"} \cup Calling,
          scope: Scopes,
          hits: SUBSET Books,                  \* what the searches found
          passages: SUBSET Books,              \* what the reranker kept
          best: BOOLEAN,                       \* best_score >= threshold
          vector: {"low", "citation", "high"}, \* the bar top_vector_score passes
          citation: BOOLEAN,                   \* state.question asks for a source
          embedFailed: BOOLEAN,
          retries: 0..2,
          answer: {"none", "text", "fallback", "refusal", "outage"},
          sources: SUBSET Books]
NoState == [pc |-> "off", scope |-> NoBook, hits |-> {},
            passages |-> {}, best |-> FALSE, vector |-> "low",
            citation |-> FALSE, embedFailed |-> FALSE, retries |-> 0,
            answer |-> "none", sources |-> {}]

AgentTypeOK == ChainTypeOK /\ agent \in [Callers -> State]
AgentInit == ChainInit /\ agent = [c \in Callers |-> NoState]

At(c, pc) == agent[c].pc = pc
Become(c, a) == agent' = [agent EXCEPT ![c] = a]

-----------------------------------------------------------------------------
(* retrieve_node *)

\* _initial_state
Invoke(c, scope) == Become(c, [NoState EXCEPT !.pc = "embed", !.scope = scope])

EmbedQuery(c) ==
    /\ At(c, "embed")
    /\ \E failed \in BOOLEAN :
        Become(c, [agent[c] EXCEPT !.pc = "search", !.embedFailed = failed])
    /\ UNCHANGED call

\* Both legs are awaited together; one that fails finds nothing, and without a
\* query vector there is only the keyword leg.  top_vector_score is the vector
\* leg's best.
Search(c) ==
    /\ At(c, "search")
    /\ \E vs, ks \in SUBSET Within(agent[c].scope), v \in {"low", "citation", "high"} :
        /\ agent[c].embedFailed => vs = {}
        /\ vs = {} => v = "low"
        /\ Become(c, [agent[c] EXCEPT !.pc = "rank", !.hits = vs \cup ks, !.vector = v])
    /\ UNCHANGED call

-----------------------------------------------------------------------------
(* quality_check_node *)
Confident(a) ==
    a.best \/ a.vector = "high" \/ (a.citation /\ a.vector = "citation")

\* One retry more than the graph has an edge for.
MutantDecision(a) ==
    CASE a.passages # {} /\ Confident(a) -> "generate"
      [] ~(a.passages # {} /\ Confident(a)) /\ a.retries < 2 -> "retry"
      [] OTHER -> "no_result"
Decision(a) ==
    CASE a.passages # {} /\ Confident(a) -> "generate"
      [] ~(a.passages # {} /\ Confident(a)) /\ a.retries < 1 -> "retry"
      [] OTHER -> "no_result"

\* generate_node has no use for what the gate looked at: it is dropped.
Accepted(a) == [a EXCEPT !.pc = "generate", !.best = FALSE, !.vector = "low",
                         !.citation = FALSE, !.embedFailed = FALSE]

\* The refusal is forgotten.
MutantRefused(a) == [a EXCEPT !.pc = "end"]
\* no_result_node
Refused(a) == [a EXCEPT !.pc = "end",
                        !.answer = IF a.embedFailed THEN "outage" ELSE "refusal"]

\* The conditional edges.  The one that leaves "retry" has no way back to it: a
\* second "retry" would be a KeyError.
Route(c, a, edges) ==
    LET d == Decision(a) IN
    IF d \notin edges THEN Become(c, [a EXCEPT !.pc = "lost"]) /\ EndCall(c)
    ELSE \/ d = "generate"  /\ Become(c, Accepted(a)) /\ StartCall(c)
         \/ d = "retry"     /\ Become(c, [a EXCEPT !.pc = "rephrase"]) /\ StartCall(c)
         \/ d = "no_result" /\ Become(c, Refused(a)) /\ EndCall(c)

\* rerank keeps the passages that overlap the question; the gate follows, and
\* looks whether the question asks for a source.
Rank(c) ==
    /\ At(c, "rank")
    /\ \E kept \in SUBSET agent[c].hits, best, citation \in BOOLEAN :
        /\ best => kept # {}
        /\ Route(c, [agent[c] EXCEPT !.passages = kept, !.hits = {}, !.best = best,
                                     !.citation = citation],
                 {"generate", "retry", "no_result"})

\* retry_node: the question is rephrased, or kept when the call raises, and the
\* gate is passed again with the old passages.
Rephrased(c) ==
    /\ At(c, "rephrase")
    /\ call[c].state \in {"text", "raised"}
    /\ \E citation \in BOOLEAN :
        /\ call[c].state = "raised" => citation = agent[c].citation
        /\ Route(c, [agent[c] EXCEPT !.retries = @ + 1, !.citation = citation],
                 {"generate", "no_result"})

-----------------------------------------------------------------------------
(* generate_node *)
Generated(a, answer) ==
    [a EXCEPT !.pc = "end", !.answer = answer, !.sources = a.passages]

\* A provider that is busy makes the answer fail.
MutantGenerateFails(c) ==
    /\ agent[c].pc \in {"generate", "regenerate"}
    /\ \/ call[c].state = "raised"
       \/ call[c].state = "trying" /\ call[c].attempt > 0
    /\ Become(c, Generated(agent[c], "fallback"))
    /\ UNCHANGED call
\* The first or the second generation raises: the fallback text, with sources.
GenerateFails(c) ==
    /\ agent[c].pc \in {"generate", "regenerate"}
    /\ call[c].state = "raised"
    /\ Become(c, Generated(agent[c], "fallback"))
    /\ UNCHANGED call

\* Tags out of range: the answer is generated once more.
Regenerate(c) ==
    /\ At(c, "generate")
    /\ call[c].state = "text"
    /\ Become(c, [agent[c] EXCEPT !.pc = "regenerate"])
    /\ StartCall(c)

\* An answer that cites two passages or more is checked for contradictions.
CheckAgreement(c) ==
    /\ agent[c].pc \in {"generate", "regenerate"}
    /\ call[c].state = "text"
    /\ Become(c, [agent[c] EXCEPT !.pc = "agree"])
    /\ StartCall(c)

\* Whether the check or the rewriting succeeds, the answer stands.
Written(c) ==
    \/ agent[c].pc \in {"generate", "regenerate"} /\ call[c].state = "text"
    \/ At(c, "agree") /\ call[c].state \in {"text", "raised"}

\* An answer in another language than the question's is rewritten.
EnforceLanguage(c) ==
    /\ Written(c)
    /\ Become(c, [agent[c] EXCEPT !.pc = "language"])
    /\ StartCall(c)

GenerateEnds(c) ==
    /\ \/ Written(c)
       \/ At(c, "language") /\ call[c].state \in {"text", "raised"}
    /\ Become(c, Generated(agent[c], "text"))
    /\ EndCall(c)

AgentStep(c) ==
    \/ EmbedQuery(c) \/ Search(c) \/ Rank(c) \/ Rephrased(c)
    \/ GenerateFails(c) \/ Regenerate(c) \/ CheckAgreement(c)
    \/ EnforceLanguage(c) \/ GenerateEnds(c)
    \/ ChainStep(c) /\ UNCHANGED agent

-----------------------------------------------------------------------------
\* A question is rephrased once at most, and the graph never takes an edge it
\* has not: the gate's third verdict always comes in time.
RetriesOnce ==
    \A c \in Callers : agent[c].retries <= 1 /\ agent[c].pc # "lost"

\* The fallback text is written only when a generation found every provider
\* exhausted.
FallbackIsLastResort ==
    \A c \in Callers : agent[c].pc = "end" /\ agent[c].answer = "fallback" =>
        \A p \in Providers : Exhausted(call[c], p)
=============================================================================
