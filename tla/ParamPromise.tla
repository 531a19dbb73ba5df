---------------------------- MODULE ParamPromise ----------------------------
(* What evaluating parameters promises, without saying how: every parameter is
   given one result, after those it uses, or it is on or behind a cycle.  Only
   what the parameters need from each other is known (needs). *)
EXTENDS Integers, FiniteSets

CONSTANT OwnCodes    \* how a value or a bound fails by itself

VARIABLES needs,     \* parameter -> the parameters it uses
          results    \* parameter -> [code, param, cause] of those settled

vars == <<needs, results>>

Failed(p) == results[p].code # "OK"
Root(p) == IF results[p].code = "PARAM_FAILED" THEN results[p]
           ELSE [results[p] EXCEPT !.param = p]

(* A set without a way out: each member uses a member. *)
InTrouble(p) ==
  \E S \in SUBSET DOMAIN needs : p \in S /\ \A q \in S : needs[q] \cap S # {}

Init == results = <<>>

Settle(p, r) ==
  /\ p \notin DOMAIN results
  /\ results' = [q \in DOMAIN results \cup {p} |-> IF q = p THEN r ELSE results[q]]
  /\ UNCHANGED needs

(* All it uses is there: it has a value, or fails by itself. *)
Value(p) ==
  /\ needs[p] \subseteq DOMAIN results /\ \A q \in needs[p] : ~ Failed(q)
  /\ \E code \in {"OK"} \cup OwnCodes : Settle(p, [code |-> code, param |-> 0, cause |-> code])

(* Something it uses failed: it names the root cause of one such use. *)
Inherits(p) ==
  /\ needs[p] \subseteq DOMAIN results
  /\ \E q \in needs[p] :
       /\ Failed(q)
       /\ Settle(p, [code |-> "PARAM_FAILED", param |-> Root(q).param, cause |-> Root(q).cause])

(* It is on or behind a cycle, and can have no value. *)
Cycle(p) ==
  /\ InTrouble(p)
  /\ \E code \in {"PARAM_CYCLE", "PARAM_FAILED"} :
       Settle(p, [code |-> code, param |-> 0, cause |-> "PARAM_CYCLE"])

Next == \E p \in DOMAIN needs : Value(p) \/ Inherits(p) \/ Cycle(p)

Spec == Init /\ [][Next]_vars
=============================================================================
