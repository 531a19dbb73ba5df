------------------------------- MODULE Params -------------------------------
(***************************************************************************)
(* The parameters of one document: the dependency graph of their           *)
(* expressions and the evaluation order (forge-ir, ParamGraph), the cycles *)
(* of a rejected document, and the values or failures that features then   *)
(* use (forge-params, evaluate).                                           *)
(*                                                                         *)
(* A parameter is its position in declaration order, the document's before *)
(* those of its parts.  Of an expression only the identifiers it uses are  *)
(* kept, in source order; what its arithmetic does is chosen when it is    *)
(* evaluated.  The loops of the code are steps, the two breadth-first      *)
(* searches operators.                                                     *)
(***************************************************************************)
EXTENDS Integers, FiniteSets, SequencesExt

CONSTANTS
  Names,       \* identifiers
  Documents,   \* sequences of parameters; part 0 is the document
  OwnCodes     \* how a value or a bound fails by itself

Parameter == [part : Nat, name : Names, value : Seq(Names), min : Seq(Names), max : Seq(Names)]

ASSUME DocumentsAreParameters == Documents \subseteq Seq(Parameter)
ASSUME CodesAreTheirOwn == OwnCodes \cap {"OK", "PARAM_FAILED", "PARAM_CYCLE"} = {}

VARIABLES
  doc,       \* the document
  needs,     \* for the properties: parameter -> those its expressions mean
  phase,     \* "graph", "order", "evaluate", "components", "cycles", "done"
  cursor,    \* <<parameter, use>>: where ParamGraph::new is
  deps,      \* parameter -> the parameters it uses, in first-use order
  site,      \* <<parameter, used>> -> the first field that uses it
  missing,   \* parameter -> dependencies not yet ordered
  ready,     \* parameters whose dependencies are all ordered
  order,     \* the evaluation order
  index,     \* Tarjan: parameter -> when it was found; those found so far
  low,       \* Tarjan: parameter -> its low link
  stack,     \* Tarjan: found, component not closed
  work,      \* Tarjan: the depth-first path, with the next dependency of each
  sccs,      \* the components closed so far
  cycles,    \* one [members, field] for each component with a cycle
  results    \* parameter -> [code, param, cause] of those evaluated

vars == <<doc, needs, phase, cursor, deps, site, missing, ready, order,
          index, low, stack, work, sccs, cycles, results>>
graphVars == <<cursor, deps, site>>
orderVars == <<missing, ready, order>>
tarjanVars == <<index, low, stack, work, sccs>>

Ids == 1 .. Len(doc)
MinOf(S) == CHOOSE a \in S : \A b \in S : a <= b
With(f, x, v) == [y \in DOMAIN f \cup {x} |-> IF y = x THEN v ELSE f[y]]

----------------------------------------------------------------------------
(* Which parameter a name means (ParamScopes, used_params).                *)

Visible(part, name) == {q \in Ids : doc[q].part \in {0, part} /\ doc[q].name = name}
UsesIn(field, names) == [i \in DOMAIN names |-> [field |-> field, name |-> names[i]]]
Uses(p) ==
  UsesIn("value", doc[p].value) \o UsesIn("min", doc[p].min) \o UsesIn("max", doc[p].max)

Means(part, name, q) ==
  q \in Visible(part, name) /\ \A r \in Visible(part, name) : q <= r
Needs == [p \in Ids |-> {q \in Ids : \E u \in Range(Uses(p)) : Means(doc[p].part, u.name, q)}]

\* Document parameters come first, so the least is the first declaration.
Lookup(part, name) == MinOf(Visible(part, name))

----------------------------------------------------------------------------
(* The dependency graph (ParamGraph::new) and its order (order).           *)

Init ==
  /\ doc \in Documents /\ needs = Needs
  /\ phase = "graph" /\ cursor = <<1, 1>>
  /\ deps = [p \in Ids |-> <<>>] /\ site = <<>>
  /\ missing = [p \in Ids |-> 0] /\ ready = {} /\ order = <<>>
  /\ index = <<>> /\ low = <<>> /\ stack = <<>> /\ work = <<>> /\ sccs = {}
  /\ cycles = {} /\ results = <<>>

\* Mutant: bounds make no edges.
AddValueUse(p, q, field) ==
  IF q \in Range(deps[p]) \/ field # "value" THEN UNCHANGED <<deps, site>>
  ELSE /\ deps' = [deps EXCEPT ![p] = Append(@, q)]
       /\ site' = With(site, <<p, q>>, field)
AddUse(p, q, field) ==
  IF q \in Range(deps[p]) THEN UNCHANGED <<deps, site>>
  ELSE /\ deps' = [deps EXCEPT ![p] = Append(@, q)]
       /\ site' = With(site, <<p, q>>, field)

Build ==
  LET p == cursor[1]
      i == cursor[2]
  IN /\ phase = "graph" /\ p \in Ids
     /\ IF i \in DOMAIN Uses(p)
        THEN /\ cursor' = <<p, i + 1>>
             /\ LET use == Uses(p)[i]
                IN IF Visible(doc[p].part, use.name) = {}
                   THEN UNCHANGED <<deps, site>>
                   ELSE AddUse(p, Lookup(doc[p].part, use.name), use.field)
        ELSE cursor' = <<p + 1, 1>> /\ UNCHANGED <<deps, site>>
     /\ UNCHANGED <<doc, needs, phase, orderVars, tarjanVars, cycles, results>>

StartOrder ==
  /\ phase = "graph" /\ cursor[1] \notin Ids
  /\ phase' = "order"
  /\ missing' = [p \in Ids |-> Len(deps[p])]
  /\ ready' = {p \in Ids : Len(deps[p]) = 0}
  /\ UNCHANGED <<doc, needs, graphVars, order, tarjanVars, cycles, results>>

Users(p) == {u \in Ids : p \in Range(deps[u])}
\* Mutant: the last of the ready ones.
PopLast(S) == CHOOSE a \in S : \A b \in S : b <= a
PopFirst(S) == MinOf(S)
Order ==
  /\ phase = "order" /\ ready # {}
  /\ LET p == PopFirst(ready)
     IN /\ order' = Append(order, p)
        /\ missing' = [u \in Ids |-> IF u \in Users(p) THEN missing[u] - 1 ELSE missing[u]]
        /\ ready' = (ready \ {p}) \cup {u \in Users(p) : missing'[u] = 0}
  /\ UNCHANGED <<doc, needs, phase, graphVars, tarjanVars, cycles, results>>

Ordered ==
  /\ phase = "order" /\ ready = {}
  /\ phase' = "evaluate"
  /\ UNCHANGED <<doc, needs, graphVars, orderVars, tarjanVars, cycles, results>>

Blocked == Ids \ Range(order)

----------------------------------------------------------------------------
(* Values and failures (ParamValues).                                      *)

Ok == [code |-> "OK", param |-> 0, cause |-> "OK"]
Fails(code) == [code |-> code, param |-> 0, cause |-> code]
ParamFailed(root) == [code |-> "PARAM_FAILED", param |-> root.param, cause |-> root.cause]

Failed(p) == p \in DOMAIN results /\ results[p].code # "OK"
\* Mutant: the parameter that is used is named.
RootDirect(p) == [results[p] EXCEPT !.param = p, !.cause = results[p].code]
\* The parameter that failed by itself behind the failure of p, and its code.
Root(p) == IF results[p].code = "PARAM_FAILED" THEN results[p]
           ELSE [results[p] EXCEPT !.param = p]

FirstFailed(s) == s[MinOf({i \in DOMAIN s : Failed(s[i])})]

\* What eval_param may return: the arithmetic and the bounds are not modelled.
EvalParam(p) ==
  IF \E q \in Range(deps[p]) : Failed(q)
  THEN {ParamFailed(Root(FirstFailed(deps[p])))}
  ELSE {Ok} \cup {Fails(code) : code \in OwnCodes}

Evaluated == Cardinality(DOMAIN results)
Evaluate ==
  /\ phase = "evaluate" /\ Evaluated < Len(order)
  /\ LET p == order[Evaluated + 1]
     IN \E r \in EvalParam(p) : results' = With(results, p, r)
  /\ UNCHANGED <<doc, needs, phase, graphVars, orderVars, tarjanVars, cycles>>

StartComponents ==
  /\ phase = "evaluate" /\ Evaluated = Len(order)
  /\ phase' = "components"
  /\ UNCHANGED <<doc, needs, graphVars, orderVars, tarjanVars, cycles, results>>

----------------------------------------------------------------------------
(* Components (sccs) and one cycle for each that has one (cycles).         *)

Found(w) ==
  /\ index' = With(index, w, Cardinality(DOMAIN index))
  /\ low' = With(low, w, Cardinality(DOMAIN index))
  /\ stack' = Append(stack, w)

StartRoot ==
  /\ phase = "components" /\ work = <<>> /\ DOMAIN index # Ids
  /\ LET root == MinOf(Ids \ DOMAIN index)
     IN Found(root) /\ work' = <<[v |-> root, next |-> 1]>>
  /\ UNCHANGED <<doc, needs, phase, graphVars, orderVars, sccs, cycles, results>>

Lower(v, n) == low' = [low EXCEPT ![v] = IF n < @ THEN n ELSE @]
\* Mutant: a parameter of a closed component lowers the link, too.
OnceOnStack(w) == w \in DOMAIN index
OnStack(w) == w \in Range(stack)

Moved == [work EXCEPT ![Len(work)].next = @ + 1]
Descend ==
  /\ phase = "components" /\ work # <<>>
  /\ LET top == Last(work)
         d == deps[top.v]
         w == d[top.next]
     IN /\ top.next <= Len(d)
        /\ \/ /\ w \notin DOMAIN index
              /\ Found(w) /\ work' = Append(Moved, [v |-> w, next |-> 1])
           \/ /\ w \in DOMAIN index /\ OnStack(w)
              /\ Lower(top.v, index[w]) /\ work' = Moved /\ UNCHANGED <<index, stack>>
           \/ /\ w \in DOMAIN index /\ ~ OnStack(w)
              /\ work' = Moved /\ UNCHANGED <<index, low, stack>>
  /\ UNCHANGED <<doc, needs, phase, graphVars, orderVars, sccs, cycles, results>>

LowOnReturn(v) == LET u == work[Len(work) - 1].v IN IF low[v] < low[u] THEN low[v] ELSE low[u]

Return ==
  /\ phase = "components" /\ work # <<>>
  /\ LET v == Last(work).v
         at == CHOOSE i \in DOMAIN stack : stack[i] = v
     IN /\ Last(work).next > Len(deps[v])
        /\ work' = Front(work)
        /\ low' = IF Len(work) > 1 THEN [low EXCEPT ![work[Len(work) - 1].v] = LowOnReturn(v)]
                  ELSE low
        /\ IF low[v] = index[v]
           THEN /\ sccs' = sccs \cup {{stack[i] : i \in at .. Len(stack)}}
                /\ stack' = SubSeq(stack, 1, at - 1)
           ELSE UNCHANGED <<sccs, stack>>
  /\ UNCHANGED <<doc, needs, phase, graphVars, orderVars, index, cycles, results>>

\* The members of C in s, in their order.
Keeping(s, C) ==
  LET kept[i \in 0 .. Len(s)] ==
        IF i = 0 THEN <<>>
        ELSE IF s[i] \in C THEN Append(kept[i - 1], s[i]) ELSE kept[i - 1]
  IN kept[Len(s)]

\* Breadth-first from a parameter, dependencies in first-use order: the path to
\* the first dependency that is a goal, through parameters of `within` only.
Turn(s, within, goal) ==
  IF s.found # <<>> \/ s.queue = <<>> THEN s
  ELSE LET path == Head(s.queue)
           hits == Keeping(deps[Last(path)], goal)
           fresh == Keeping(deps[Last(path)], within \ s.seen)
       IN IF hits # <<>> THEN [s EXCEPT !.found = Append(path, hits[1])]
          ELSE [s EXCEPT !.seen = @ \cup Range(fresh),
                         !.queue = Tail(@) \o [i \in DOMAIN fresh |-> Append(path, fresh[i])]]
Search(from, within, goal) ==
  LET bfs[n \in 0 .. Len(doc)] ==
        IF n = 0 THEN [queue |-> <<(<<from>>)>>, seen |-> {from}, found |-> <<>>]
        ELSE Turn(bfs[n - 1], within, goal)
  IN bfs[Len(doc)].found

Cyclic(scc) == Cardinality(scc) > 1 \/ MinOf(scc) \in Range(deps[MinOf(scc)])
ShortestCycle(scc) == Search(MinOf(scc), scc, {MinOf(scc)})
CycleSite(members) == site[<<members[1], members[2]>>]

StartCycles ==
  /\ phase = "components" /\ work = <<>> /\ DOMAIN index = Ids
  /\ phase' = "cycles"
  /\ cycles' = {LET members == ShortestCycle(scc)
                IN [members |-> members, field |-> CycleSite(members)] :
                  scc \in {c \in sccs : Cyclic(c)}}
  /\ UNCHANGED <<doc, needs, graphVars, orderVars, tarjanVars, results>>

----------------------------------------------------------------------------
(* What a blocked parameter reports, and a feature that uses parameters.   *)

OnCycle == UNION {Range(c.members) : c \in cycles}
Culprit(p) == LET path == Search(p, Ids, OnCycle)
              IN IF path = <<>> THEN 0 ELSE Last(path)
BlockedResult(p) ==
  IF p \in OnCycle THEN Fails("PARAM_CYCLE")
  ELSE [code |-> "PARAM_FAILED", param |-> Culprit(p), cause |-> "PARAM_CYCLE"]

Block ==
  /\ phase = "cycles" /\ DOMAIN results # Ids
  /\ LET p == MinOf(Ids \ DOMAIN results)
     IN results' = With(results, p, BlockedResult(p))
  /\ UNCHANGED <<doc, needs, phase, graphVars, orderVars, tarjanVars, cycles>>

Finish ==
  /\ phase = "cycles" /\ DOMAIN results = Ids
  /\ phase' = "done"
  /\ UNCHANGED <<doc, needs, graphVars, orderVars, tarjanVars, cycles, results>>

\* The first failed parameter an expression uses in a part (failed_use), as the
\* failure of the feature; Ok when there is none.
FailedUse(part, names) ==
  LET used == Keeping(names, {n \in Names : Visible(part, n) # {}})
      ids == [i \in DOMAIN used |-> Lookup(part, used[i])]
  IN IF \E q \in Range(ids) : Failed(q) THEN ParamFailed(Root(FirstFailed(ids))) ELSE Ok

Next ==
  \/ Build \/ StartOrder \/ Order \/ Ordered
  \/ Evaluate \/ StartComponents
  \/ StartRoot \/ Descend \/ Return \/ StartCycles
  \/ Block \/ Finish

Spec == Init /\ [][Next]_vars


----------------------------------------------------------------------------
(* Reference definitions, from the document alone.                         *)

\* Parameter -> those it reaches through needs, in one step or more.
Reach ==
  LET r[n \in 0 .. Len(doc)] ==
        IF n = 0 THEN needs
        ELSE LET s == r[n - 1] IN [p \in Ids |-> s[p] \cup UNION {s[q] : q \in s[p]}]
  IN r[Len(doc)]
\* On or behind a cycle: in a set where each uses another.
InTrouble ==
  UNION {S \in SUBSET Ids : \A q \in S : needs[q] \cap S # {}}

\* Which parameter of a cycle is named is no part of the promise (see RootCause).
Settled == [p \in DOMAIN results |->
              [results[p] EXCEPT !.param = IF results[p].cause = "PARAM_CYCLE" THEN 0 ELSE @]]
Promise == INSTANCE ParamPromise WITH results <- Settled

----------------------------------------------------------------------------
(* Properties.                                                             *)

(* Every parameter is ordered as soon as its dependencies are, the first in
   declaration order first: at each place stands the least parameter whose
   dependencies stand before it, those of its bounds included (the tie-break of
   ParamGraph::order). *)
OrderIsLeast ==
  \A i \in DOMAIN order :
    LET before == {order[j] : j \in 1 .. i - 1}
    IN order[i] = MinOf({p \in Ids \ before : needs[p] \subseteq before})

(* What order() leaves out is what is on or behind a cycle, and nothing else. *)
BlockedIsInTrouble == phase \notin {"graph", "order"} => Blocked = InTrouble

(* Each set Tarjan's loop closes is a class of parameters that reach each other,
   complete when it is closed, and in the end every parameter is in one. *)
ComponentsAreClasses ==
  LET reach == Reach
  IN /\ \A scc \in sccs : \A p \in scc :
          scc = {p} \cup {q \in reach[p] : p \in reach[q]}
     /\ phase \in {"cycles", "done"} => UNION sccs = Ids

(* The cycle a document is rejected with follows dependencies, is closed, starts at
   the component's first parameter, is a shortest one through it, and is reported
   at the first field of that parameter that uses the next. *)
CyclesAreShortest ==
  LET reach == Reach
  IN /\ phase \in {"cycles", "done"} =>
          {c.members[1] : c \in cycles}
            = {p \in Ids : p \in reach[p] /\ \A q \in reach[p] : p \in reach[q] => p <= q}
     /\ \A c \in cycles :
          LET m == c.members
              n == Len(m) - 1
              first == Uses(m[1])
          IN /\ n >= 1 /\ m[n + 1] = m[1]
             /\ \A i \in 1 .. n : m[i + 1] \in needs[m[i]]
             /\ ~ \E k \in 1 .. n - 1 : \E s \in [1 .. k -> Ids] :
                    /\ s[1] = m[1] /\ m[1] \in needs[s[k]]
                    /\ \A i \in 1 .. k - 1 : s[i + 1] \in needs[s[i]]
             /\ c.field = first[MinOf({i \in DOMAIN first : Means(doc[m[1]].part, first[i].name, m[2])})].field

(* A value rests on values only: also on those its untaken branches and its bounds use. *)
OkRestsOnOk ==
  \A p \in DOMAIN results : results[p].code = "OK" =>
    \A q \in needs[p] : q \in DOMAIN results /\ results[q].code = "OK"

(* PARAM_FAILED names a parameter that is used, directly or not, that failed by
   itself and with the code given (values.rs:53-61). *)
CauseIsRoot(used, r) ==
  r.code = "PARAM_FAILED" =>
    /\ r.param \in used /\ r.param \in DOMAIN results
    /\ results[r.param].code = r.cause /\ r.cause \in OwnCodes \cup {"PARAM_CYCLE"}
ParametersNameRoot ==
  phase = "done" => LET reach == Reach IN \A p \in Ids : CauseIsRoot(reach[p], results[p])

(* A feature is refused exactly when an expression of it uses a parameter without
   a value (failed_use). *)
FeaturesNameRoot ==
  phase = "done" =>
    LET reach == Reach
    IN \A part \in {doc[p].part : p \in Ids}, m, n \in {doc[p].name : p \in Ids} :
         LET used == {q \in Ids : Means(part, m, q) \/ Means(part, n, q)}
             r == FailedUse(part, <<m, n>>)
         IN /\ r.code = "OK" <=> \A q \in used : results[q].code = "OK"
            /\ CauseIsRoot(used \cup UNION {reach[q] : q \in used}, r)

(* Parameters and features alike are told the root cause, whatever the order of
   declaration, of evaluation and of the uses. *)
RootCause == ParametersNameRoot /\ FeaturesNameRoot

(* The components are the classes, and each with a cycle is told by a shortest one. *)
CyclesAreFound == ComponentsAreClasses /\ CyclesAreShortest

(* It keeps the promise, whatever the document. *)
KeepsPromise == Promise!Spec
=============================================================================
