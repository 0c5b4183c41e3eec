------------------------------ MODULE MCServices ------------------------------
(* Instances of the services for TLC.  They share no variable: a behaviour     *)
(* answers a question, embeds, extracts, logs in, or edits the indexes; the    *)
(* others stay in their initial states, where their fairness asks for nothing. *)
EXTENDS Ask, Embedding, PageOcr, Sessions, Library

CONSTANTS v1, v2, p1, p2

\* Two books with a passage in common, and one that only the first has.
MCIdsOf == [v \in {v1, v2} |-> IF v = v1 THEN {p1, p2} ELSE {p2}]

NotAsked == AskInit /\ UNCHANGED askVars
NotEmbedding == EmbedInit /\ UNCHANGED embedVars
NotReading == OcrInit /\ UNCHANGED ocrVars
NoSessions == SessionsInit /\ UNCHANGED sessionVars
NotIndexing == LibraryInit /\ UNCHANGED libraryVars

ServicesInit == AskInit /\ EmbedInit /\ OcrInit /\ SessionsInit /\ LibraryInit

ServicesNext ==
    \/ AskNext /\ NotEmbedding /\ NotReading /\ NoSessions /\ NotIndexing
    \/ EmbedNext /\ NotAsked /\ NotReading /\ NoSessions /\ NotIndexing
    \/ OcrNext /\ NotAsked /\ NotEmbedding /\ NoSessions /\ NotIndexing
    \/ SessionsNext /\ NotAsked /\ NotEmbedding /\ NotReading /\ NotIndexing
    \/ LibraryNext /\ NotAsked /\ NotEmbedding /\ NotReading /\ NoSessions

ServicesSpec ==
    /\ ServicesInit
    /\ [][ServicesNext]_<<askVars, embedVars, ocrVars, sessionVars, libraryVars>>
    /\ AskFairness /\ EmbedFairness /\ OcrFairness /\ SessionsFairness
=============================================================================
