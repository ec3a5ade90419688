---------------------------- MODULE AnalysisLine ----------------------------
(***************************************************************************)
(* What the service of the satellite analyses promises about the products  *)
(* of an incident day, however many calls of it meet, are repeated or      *)
(* crash: one product after the other is reserved, asked for once,         *)
(* computed and published, and the next one is not touched before.         *)
(***************************************************************************)
EXTENDS Naturals

CONSTANT Last    \* products of the incident day, in their order

VARIABLES
    reserved,    \* products with a reserved request
    asked,       \* times the endpoint was asked for each
    result,      \* what it made of each
    published    \* analyses the backend has

vars == <<reserved, asked, result, published>>

Products == 1..Last

Init ==
    /\ reserved = {}
    /\ asked = [a \in Products |-> 0]
    /\ result = [a \in Products |-> "none"]
    /\ published = [a \in Products |-> "none"]

\* The first product without an analysis.
Current(a) ==
    /\ published[a] = "none"
    /\ \A b \in 1..(a - 1) : published[b] # "none"

Reserve(a) ==
    /\ Current(a)
    /\ a \notin reserved
    /\ reserved' = reserved \cup {a}
    /\ UNCHANGED <<asked, result, published>>

Ask(a) ==
    /\ Current(a)
    /\ a \in reserved
    /\ asked[a] = 0
    /\ asked' = [asked EXCEPT ![a] = 1]
    /\ UNCHANGED <<reserved, result, published>>

Compute(a) ==
    /\ asked[a] = 1
    /\ result[a] = "none"
    /\ \E r \in {"proposals", "nothing", "unreadable", "failure"} :
            result' = [result EXCEPT ![a] = r]
    /\ UNCHANGED <<reserved, asked, published>>

Status(r) == IF r = "proposals" THEN "completed" ELSE "abstained"

Publish(a) ==
    /\ Current(a)
    /\ result[a] \in {"proposals", "nothing"}
    /\ published' = [published EXCEPT ![a] = Status(result[a])]
    /\ UNCHANGED <<reserved, asked, result>>

Next == \E a \in Products : Reserve(a) \/ Ask(a) \/ Compute(a) \/ Publish(a)

Spec == Init /\ [][Next]_vars
=============================================================================
