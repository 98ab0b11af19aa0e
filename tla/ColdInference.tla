--------------------------- MODULE ColdInference ---------------------------
(***************************************************************************)
(* What generation promises, whatever is cached: a request is answered     *)
(* from its own prompt.  Every token is drawn from the model's prediction  *)
(* for exactly the tokens of the prompt that was asked, followed by the    *)
(* tokens already generated for it.  There is no cache here, nothing that  *)
(* outlives a request, and so nothing an answer could be mixed up with.    *)
(***************************************************************************)
EXTENDS Integers, Sequences

CONSTANTS
    Tokens,     \* the vocabulary
    Prompts,    \* the prompts
    MaxSeqLen   \* the longest context

VARIABLES
    stage,      \* idle, reading or answering
    prompt,     \* the prompt that was asked last
    generated,  \* the tokens generated for it
    context     \* the tokens the next prediction is for, <<>> if there is none

vars == <<stage, prompt, generated, context>>

Init ==
    /\ stage = "idle"
    /\ prompt = <<>>
    /\ generated = <<>>
    /\ context = <<>>

\* A request comes with its prompt.
Ask ==
    /\ stage = "idle"
    /\ stage' = "reading"
    /\ prompt' \in Prompts
    /\ generated' = <<>>
    /\ UNCHANGED context

\* The prompt has been read, the whole of it and nothing else.
Read ==
    /\ stage = "reading"
    /\ stage' = "answering"
    /\ context' = prompt
    /\ UNCHANGED <<prompt, generated>>

\* A token is drawn and appended to what was generated.
Draw ==
    /\ stage = "answering"
    /\ context = prompt \o generated
    /\ Len(context) < MaxSeqLen
    /\ \E t \in Tokens :
          /\ generated' = Append(generated, t)
          /\ context' = Append(context, t)
    /\ UNCHANGED <<stage, prompt>>

\* The request is over, for whatever reason.
Finish ==
    /\ stage # "idle"
    /\ stage' = "idle"
    /\ context' = <<>>
    /\ UNCHANGED <<prompt, generated>>

Next == Ask \/ Read \/ Draw \/ Finish

Spec == Init /\ [][Next]_vars

============================================================================
