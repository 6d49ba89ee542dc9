----------------------------- MODULE OneEffect -----------------------------
(***************************************************************************)
(* What an idempotency key promises, with no rows, phases, clock or        *)
(* concurrent requests: an operation takes effect, and every answer is     *)
(* about that effect.  It may take effect again only when the one before   *)
(* was forgotten, which happens when a query fails; an effect that was     *)
(* answered is not forgotten.                                              *)
(***************************************************************************)
EXTENDS Naturals, Sequences

CONSTANT Bodies

VARIABLES
  effects,    \* what was asked for, of each effect
  forgotten,  \* how many of them no later request will be told of
  answers     \* the answers given: who asked for what, and the effect he was told of

vars == <<effects, forgotten, answers>>

Init == effects = <<>> /\ forgotten = 0 /\ answers = {}

\* There is an effect to be told of: the last.
Remembered == Len(effects) = forgotten + 1

Take(body) ==
  /\ Len(effects) = forgotten
  /\ effects' = Append(effects, body)
  /\ forgotten' \in {forgotten, forgotten + 1}
  /\ UNCHANGED answers

Forget ==
  /\ Remembered /\ answers = {}
  /\ forgotten' = forgotten + 1
  /\ UNCHANGED <<effects, answers>>

\* The one who is told may have asked for something else.
Tell(body) ==
  /\ Remembered
  /\ answers' = answers \cup {<<body, Len(effects)>>}
  /\ UNCHANGED <<effects, forgotten>>

Next == Forget \/ \E body \in Bodies : Take(body) \/ Tell(body)

Spec == Init /\ [][Next]_vars

=============================================================================
