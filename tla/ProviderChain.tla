---------------------------- MODULE ProviderChain ----------------------------
(***************************************************************************)
(* _chat_with_retry: one call to the language model, tried on each         *)
(* configured provider in turn.  A provider that answers 429 is asked up   *)
(* to three times; an empty completion or any other error ends its turn.   *)
(* The call raises when the last provider's turn has ended without a text. *)
(***************************************************************************)
EXTENDS Naturals

CONSTANTS
    Callers,      \* who may have a call under way, one at a time each
    NumProviders  \* how many providers _build_providers returns

ASSUME ProviderChainAssumption == NumProviders \in Nat

VARIABLE call

Providers == 1..NumProviders
MaxAttempts == 3

\* provider, attempt: the positions of the two loops.  quota and lost record
\* what the providers have said in this call: how often 429, or something that
\* cannot be retried.
Call == [state: {"idle", "trying", "text", "raised"},
         provider: 1..(NumProviders + 1), attempt: 0..(MaxAttempts - 1),
         quota: [Providers -> 0..MaxAttempts], lost: SUBSET Providers]
NoCall == [state |-> "idle", provider |-> 1, attempt |-> 0,
           quota |-> [p \in Providers |-> 0], lost |-> {}]

ChainTypeOK == call \in [Callers -> Call]
ChainInit == call = [c \in Callers |-> NoCall]

-----------------------------------------------------------------------------
\* Without a provider the call raises at once.
Begun == [NoCall EXCEPT !.state = IF NumProviders = 0 THEN "raised" ELSE "trying"]
StartCall(c) == call' = [call EXCEPT ![c] = Begun]
EndCall(c)   == call' = [call EXCEPT ![c] = NoCall]

\* The turn of the provider in hand is over.
TurnOver(k) == [k EXCEPT !.provider = @ + 1, !.attempt = 0,
                         !.state = IF k.provider = NumProviders THEN "raised"
                                                                ELSE "trying"]

ProviderAnswers(c) ==
    /\ call[c].state = "trying"
    /\ call' = [call EXCEPT ![c].state = "text"]

\* The first 429 ends the turn.
MutantProviderQuota(c) ==
    /\ call[c].state = "trying"
    /\ call' = [call EXCEPT ![c] =
                  TurnOver([call[c] EXCEPT !.quota[call[c].provider] = @ + 1])]

\* 429: sleep and try again, unless this was the last attempt.
ProviderQuota(c) ==
    LET k == [call[c] EXCEPT !.quota[call[c].provider] = @ + 1] IN
    /\ call[c].state = "trying"
    /\ call' = [call EXCEPT ![c] =
                  IF k.attempt < MaxAttempts - 1
                  THEN [k EXCEPT !.attempt = @ + 1] ELSE TurnOver(k)]

\* Any other status, a network error or an empty completion.
ProviderFails(c) ==
    /\ call[c].state = "trying"
    /\ call' = [call EXCEPT ![c] =
                  TurnOver([call[c] EXCEPT !.lost = @ \cup {call[c].provider}])]

ChainStep(c) == ProviderAnswers(c) \/ ProviderQuota(c) \/ ProviderFails(c)

-----------------------------------------------------------------------------
\* The provider has nothing more to give to this call.
Exhausted(k, p) == p \in k.lost \/ k.quota[p] = MaxAttempts

\* A call raises only when every provider has been exhausted: none is skipped,
\* and none is given up after fewer than three 429s.
RaisesAsLastResort ==
    \A c \in Callers : call[c].state = "raised" =>
        \A p \in Providers : Exhausted(call[c], p)

\* A provider is asked only after every one listed before it was exhausted, and
\* not again once it is: the order of LLM_PROVIDERS is kept.
AskedInOrder ==
    \A c \in Callers : call[c].state = "trying" =>
        /\ \A p \in Providers : p < call[c].provider => Exhausted(call[c], p)
        /\ \A p \in Providers : p >= call[c].provider => ~Exhausted(call[c], p)
=============================================================================
