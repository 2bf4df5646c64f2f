---------------------------- MODULE EvalService ----------------------------
(***************************************************************************)
(* What the evaluation cache promises its callers: nothing but speed.      *)
(* A call asks for the evaluation of a key (a position together with the *)
(* evaluation context folded into nEvalContext) and gets the evaluation    *)
(* that a direct call of the evaluator gives under the match equity table  *)
(* in force; the table changes only while no request is open.              *)
(***************************************************************************)
CONSTANTS Calls, Keys, METs, NoKey, NoValue

VARIABLES met,    \* the match equity table in use
          asked,  \* asked[t]: the key call t waits for, or NoKey
          out     \* out[t]: the last answer t got (arOutput)

serviceVars == <<met, asked, out>>

\* The evaluator is a deterministic function of the key and the table.
Evaluation(k, m) == <<k, m>>

Init == /\ met \in METs
        /\ asked = [t \in Calls |-> NoKey]
        /\ out = [t \in Calls |-> NoValue]

Ask(t, k) == /\ asked[t] = NoKey
             /\ asked' = [asked EXCEPT ![t] = k]
             /\ UNCHANGED <<met, out>>

Answer(t) == /\ asked[t] # NoKey
             /\ out' = [out EXCEPT ![t] = Evaluation(asked[t], met)]
             /\ asked' = [asked EXCEPT ![t] = NoKey]
             /\ UNCHANGED met

\* A request that may not be cached leaves no reproducible answer.
Uncached(t) == /\ asked[t] = NoKey
               /\ out' = [out EXCEPT ![t] = NoValue]
               /\ UNCHANGED <<met, asked>>

\* fInterrupt ends a request without an answer.
Interrupt(t) == /\ asked[t] # NoKey
                /\ asked' = [asked EXCEPT ![t] = NoKey]
                /\ UNCHANGED <<met, out>>

ChangeTable(m) == /\ \A t \in Calls : asked[t] = NoKey
                  /\ met' = m
                  /\ UNCHANGED <<asked, out>>

Next == \/ \E t \in Calls, k \in Keys : Ask(t, k)
        \/ \E t \in Calls : Answer(t) \/ Uncached(t) \/ Interrupt(t)
        \/ \E m \in METs : ChangeTable(m)

Spec == Init /\ [][Next]_serviceVars
=============================================================================
