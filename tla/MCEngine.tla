------------------------------ MODULE MCEngine ------------------------------
(* The model and the engine thread that owns it, one beside the other in a *)
(* single run: an initial state chooses the part that moves, and the other *)
(* rests.  Of the model: two tokens, chunks of two tokens and tiles of     *)
(* three; the prompts branch after none and after two of their tokens, and *)
(* end at a chunk boundary or beside one.                                  *)
EXTENDS Inference, EngineActor, TLC

CONSTANTS a, b

VARIABLE part   \* the component that moves

MCTokens == {a, b}

MCPrompts ==
    {p \in UNION {[1..n -> Tokens] : n \in 1..MaxPrompt} :
        \A i \in DOMAIN p : i % 2 = 0 \/ i = 5 => p[i] = a}

MCInit ==
    /\ part \in {"model", "engine"}
    /\ ModelInit
    /\ Init

MCNext ==
    /\ UNCHANGED part
    /\ \/ part = "model" /\ ModelNext /\ UNCHANGED vars
       \/ part = "engine" /\ Next /\ UNCHANGED modelVars

\* Fairness of the engine; while it rests it owes nothing, as no command has been sent.
MCSpec ==
    /\ MCInit
    /\ [][MCNext]_<<part, modelVars, vars>>
    /\ Fairness

============================================================================
