---------------------------- MODULE ParamsProofs ----------------------------
(***************************************************************************)
(* Theorems about Params, for every document and every failure.            *)
(*                                                                         *)
(* The order and the values: the invariant IInv, its steps, the refinement *)
(* of ParamPromise.  What is reached, by induction over numbers.  The      *)
(* components: TarjanInv and its steps.  The search: what it keeps and     *)
(* finds.  The cycles: CyclesFit.  The root cause: RootInv.                *)
(***************************************************************************)
EXTENDS Params, TLAPS, WellFoundedInduction, FiniteSetTheorems, SequenceTheorems

(***************************************************************************)
(* Small sets, functions and sequences.                                    *)
(***************************************************************************)
LEMMA MinOfIsLeast ==
  ASSUME NEW S, S \subseteq Nat, S # {}
  PROVE  MinOf(S) \in S /\ \A y \in S : MinOf(S) <= y
<1> DEFINE R == {ss \in Nat \X Nat : ss[1] < ss[2]}
<1>1. IsWellFoundedOn(R, Nat)
  BY NatLessThanWellFounded, Zenon DEF OpToRel
<1>2. PICK x \in S : \A y \in S : ~ (<<y, x>> \in R)
  BY <1>1, WFMin
<1>3. ASSUME NEW y \in S PROVE x <= y
  <2>1. x \in Nat /\ y \in Nat
    OBVIOUS
  <2>2. y < x => <<y, x>> \in R
    BY <2>1
  <2> HIDE DEF R
  <2> QED BY <1>2, <2>1, <2>2
<1> QED BY <1>3 DEF MinOf

LEMMA Distinct ==
  ASSUME NEW S, IsFiniteSet(S), NEW s \in Seq(S),
         \A i, j \in DOMAIN s : s[i] = s[j] => i = j
  PROVE  IsFiniteSet(Range(s)) /\ Cardinality(Range(s)) = Len(s)
<1>1. s \in Bijection(1 .. Len(s), Range(s))
  BY DEF Bijection, Injection, Surjection, IsInjective, Range
<1>2. Len(s) \in Nat /\ ExistsBijection(1 .. Len(s), Range(s))
  BY <1>1 DEF ExistsBijection
<1> QED BY <1>2, FS_CountingElements, FS_NatBijection

LEMMA AppendDistinct ==
  ASSUME NEW S, NEW s \in Seq(S), NEW x \in S, x \notin Range(s),
         \A i, j \in DOMAIN s : s[i] = s[j] => i = j
  PROVE  LET t == Append(s, x)
         IN /\ t \in Seq(S) /\ Len(t) = Len(s) + 1 /\ DOMAIN t = 1 .. Len(s) + 1
            /\ \A i \in DOMAIN s : t[i] = s[i]
            /\ t[Len(s) + 1] = x
            /\ Range(t) = Range(s) \cup {x}
            /\ \A i, j \in DOMAIN t : t[i] = t[j] => i = j
BY DEF Range

(***************************************************************************)
(* The invariant.  Shape: what the variables are.  GraphIsNeeds: the graph *)
(* built so far holds what the expressions mean.  OrderIsSound: the counts *)
(* and the ready set agree with the order.  ResultsRest: what is settled.  *)
(***************************************************************************)
Phases == {"graph", "order", "evaluate", "components", "cycles", "done"}

Shape ==
  /\ doc \in Seq(Parameter) /\ needs = Needs
  /\ phase \in Phases
  /\ cursor \in (1 .. Len(doc) + 1) \X (Nat \ {0})
  /\ deps \in [Ids -> Seq(Ids)]

Seen(p, i) == p < cursor[1] \/ (p = cursor[1] /\ i < cursor[2])
GraphIsNeeds ==
  /\ \A p \in Ids : \A i, j \in DOMAIN deps[p] : deps[p][i] = deps[p][j] => i = j
  /\ \A p \in Ids : Range(deps[p]) \subseteq needs[p]
  /\ \A p, q \in Ids : \A i \in DOMAIN Uses(p) :
       Seen(p, i) /\ Means(doc[p].part, Uses(p)[i].name, q) => q \in Range(deps[p])
  /\ phase # "graph" => cursor[1] \notin Ids

OrderIsSound ==
  /\ order \in Seq(Ids)
  /\ \A i, j \in DOMAIN order : order[i] = order[j] => i = j
  /\ \A i \in DOMAIN order : needs[order[i]] \subseteq {order[j] : j \in 1 .. i - 1}
  /\ phase = "graph" => order = <<>>
  /\ phase # "graph" =>
       /\ missing = [p \in Ids |-> Cardinality(needs[p] \ Range(order))]
       /\ ready = {p \in Ids \ Range(order) : needs[p] \subseteq Range(order)}
  /\ phase \notin {"graph", "order"} => ready = {}
  /\ OrderIsLeast

Result == [code : {"OK", "PARAM_FAILED"} \cup OwnCodes, param : Ids \cup {0}, cause : {"OK"} \cup OwnCodes]
ResultsRest ==
  /\ DOMAIN results \subseteq Ids
  /\ phase \in {"graph", "order"} => DOMAIN results = {}
  /\ phase = "evaluate" =>
       /\ Evaluated \in 0 .. Len(order)
       /\ DOMAIN results = {order[i] : i \in 1 .. Evaluated}
  /\ phase \notin {"graph", "order", "evaluate"} => Range(order) \subseteq DOMAIN results
  /\ \A p \in DOMAIN results \cap Range(order) : results[p] \in Result
  /\ \A p \in DOMAIN results \ Range(order) :
       /\ DOMAIN results[p] = {"code", "param", "cause"}
       /\ results[p].code \in {"PARAM_CYCLE", "PARAM_FAILED"} /\ results[p].cause = "PARAM_CYCLE"
  /\ OkRestsOnOk

IInv == Shape /\ GraphIsNeeds /\ OrderIsSound /\ ResultsRest

Fields == {"value", "min", "max"}
Use == [field : Fields, name : Names]
LEMMA UsesInAreUses ==
  ASSUME NEW field \in Fields, NEW names \in Seq(Names)
  PROVE  UsesIn(field, names) \in Seq(Use)
<1>1. /\ Len(names) \in Nat /\ DOMAIN names = 1 .. Len(names)
      /\ \A i \in 1 .. Len(names) : names[i] \in Names
  OBVIOUS
<1> QED BY <1>1, IsASeq DEF UsesIn, Use

LEMMA UsesAreUses == ASSUME Shape, NEW p \in Ids PROVE Uses(p) \in Seq(Use)
<1>1. doc[p] \in Parameter
  BY DEF Shape, Ids
<1>2. /\ doc[p].value \in Seq(Names) /\ doc[p].min \in Seq(Names) /\ doc[p].max \in Seq(Names)
  BY <1>1 DEF Parameter
<1>3. /\ UsesIn("value", doc[p].value) \in Seq(Use)
      /\ UsesIn("min", doc[p].min) \in Seq(Use)
      /\ UsesIn("max", doc[p].max) \in Seq(Use)
  BY <1>2, UsesInAreUses DEF Fields
<1> QED BY <1>3 DEF Uses

LEMMA IdsAreFinite == ASSUME Shape PROVE Len(doc) \in Nat /\ IsFiniteSet(Ids) /\ Ids \subseteq Nat
<1>1. Len(doc) \in Nat
  BY DEF Shape
<1> QED BY <1>1, FS_Interval DEF Ids

LEMMA LookupMeans ==
  ASSUME Shape, NEW part, NEW name, NEW q
  PROVE  Means(part, name, q) <=> Visible(part, name) # {} /\ q = Lookup(part, name)
<1> DEFINE V == Visible(part, name)
<1>1. V \subseteq Nat
  BY IdsAreFinite DEF Visible
<1>2. V # {} => Lookup(part, name) \in V /\ \A y \in V : Lookup(part, name) <= y
  BY <1>1, MinOfIsLeast DEF Lookup
<1>3. V # {} => Lookup(part, name) \in Nat
  BY <1>1, <1>2
<1> QED BY <1>1, <1>2, <1>3 DEF Means

LEMMA NeedsMeans ==
  ASSUME Shape, NEW p \in Ids
  PROVE  /\ needs[p] = {q \in Ids : \E i \in DOMAIN Uses(p) : Means(doc[p].part, Uses(p)[i].name, q)}
         /\ needs[p] \subseteq Ids /\ DOMAIN needs = Ids
BY DEF Shape, Needs, Range

LEMMA GraphIsDone ==
  ASSUME Shape, GraphIsNeeds, cursor[1] \notin Ids, NEW p \in Ids
  PROVE  Range(deps[p]) = needs[p]
<1>1. \A i \in DOMAIN Uses(p) : Seen(p, i)
  BY IdsAreFinite DEF Seen, Shape, Ids
<1> QED BY <1>1, NeedsMeans DEF GraphIsNeeds

LEMMA DocumentStays ==
  ASSUME doc' = doc, needs' = needs
  PROVE  /\ Ids' = Ids /\ Needs' = Needs
         /\ \A p : Uses(p)' = Uses(p)
         /\ \A part, name, q : Means(part, name, q)' = Means(part, name, q)
<1>1. Ids' = Ids
  BY DEF Ids
<1>2. \A p : Uses(p)' = Uses(p)
  BY DEF Uses
<1>3. \A part, name : Visible(part, name)' = Visible(part, name)
  BY <1>1 DEF Visible
<1>4. \A part, name, q : Means(part, name, q)' = Means(part, name, q)
  BY <1>3 DEF Means
<1>5. Needs' = Needs
  BY <1>1, <1>2, <1>4 DEF Needs
<1> QED BY <1>1, <1>2, <1>4, <1>5

(***************************************************************************)
(* The steps.                                                              *)
(***************************************************************************)
LEMMA InitHolds == Init => IInv
<1> SUFFICES ASSUME Init PROVE IInv
  OBVIOUS
<1>1. doc \in Seq(Parameter) /\ Len(doc) \in Nat
  BY DocumentsAreParameters DEF Init
<1>2. Shape
  BY <1>1 DEF Init, Shape, Phases, Ids
<1>3. GraphIsNeeds
  <2>1. \A p \in Ids : deps[p] = <<>> /\ DOMAIN deps[p] = {} /\ Range(deps[p]) = {}
    BY DEF Init, Range
  <2>2. \A p \in Ids : \A i \in DOMAIN Uses(p) : ~ Seen(p, i)
    BY <1>2, IdsAreFinite, UsesAreUses DEF Seen, Init, Ids
  <2> QED BY <2>1, <2>2 DEF GraphIsNeeds, Init
<1>4. OrderIsSound
  BY DEF Init, OrderIsSound, OrderIsLeast
<1>5. ResultsRest
  BY DEF Init, ResultsRest, OkRestsOnOk
<1> QED BY <1>2, <1>3, <1>4, <1>5 DEF IInv

LEMMA AddUseStep ==
  ASSUME Shape, GraphIsNeeds, NEW p \in Ids, NEW q \in needs[p], NEW field, AddUse(p, q, field)
  PROVE  /\ deps' \in [Ids -> Seq(Ids)]
         /\ \A r \in Ids : \A i, j \in DOMAIN deps'[r] : deps'[r][i] = deps'[r][j] => i = j
         /\ \A r \in Ids : Range(deps[r]) \subseteq Range(deps'[r])
         /\ \A r \in Ids : Range(deps'[r]) \subseteq needs[r]
         /\ q \in Range(deps'[p])
<1>1. q \in Ids /\ deps[p] \in Seq(Ids)
  BY NeedsMeans DEF Shape
<1>2. CASE q \in Range(deps[p])
  BY <1>2 DEF AddUse, Shape, GraphIsNeeds
<1>3. CASE q \notin Range(deps[p])
  <2> DEFINE d == Append(deps[p], q)
  <2>1. deps' = [deps EXCEPT ![p] = d]
    BY <1>3 DEF AddUse
  <2>2. /\ d \in Seq(Ids) /\ Range(d) = Range(deps[p]) \cup {q}
        /\ \A i, j \in DOMAIN d : d[i] = d[j] => i = j
    BY <1>1, <1>3, AppendDistinct DEF GraphIsNeeds
  <2> HIDE DEF d
  <2>3. /\ deps'[p] = d /\ \A r \in Ids : r # p => deps'[r] = deps[r]
        /\ deps' \in [Ids -> Seq(Ids)]
    BY <2>1, <2>2 DEF Shape
  <2> QED BY <2>2, <2>3 DEF GraphIsNeeds
<1> QED BY <1>2, <1>3

LEMMA BuildStep == ASSUME IInv, Build PROVE IInv'
<1> DEFINE p == cursor[1]
           i == cursor[2]
           part == doc[p].part
           name == Uses(p)[i].name
           field == Uses(p)[i].field
<1>1. /\ p \in Ids /\ phase = "graph" /\ phase' = phase /\ doc' = doc /\ needs' = needs
      /\ order' = order /\ missing' = missing /\ ready' = ready /\ results' = results
  BY DEF Build, orderVars
<1>2. Ids' = Ids /\ Needs' = Needs /\ DOMAIN Uses(p) = 1 .. Len(Uses(p)) /\ Len(Uses(p)) \in Nat
  BY <1>1, DocumentStays, UsesAreUses DEF IInv
<1>3. i \in Nat \ {0} /\ p \in Nat /\ Len(doc) \in Nat
  BY DEF IInv, Shape
<1>4. /\ deps' \in [Ids -> Seq(Ids)]
      /\ \A r \in Ids : \A k, j \in DOMAIN deps'[r] : deps'[r][k] = deps'[r][j] => k = j
      /\ \A r \in Ids : Range(deps[r]) \subseteq Range(deps'[r])
      /\ \A r \in Ids : Range(deps'[r]) \subseteq needs[r]
      /\ i \in DOMAIN Uses(p) => \A q : Means(part, name, q) => q \in Range(deps'[p])
  <2>1. CASE i \notin DOMAIN Uses(p) \/ Visible(part, name) = {}
    <3>1. deps' = deps
      BY <1>1, <2>1 DEF Build
    <3>2. i \in DOMAIN Uses(p) => \A q : ~ Means(part, name, q)
      BY <2>1 DEF Means
    <3> QED BY <3>1, <3>2 DEF IInv, Shape, GraphIsNeeds
  <2>2. CASE i \in DOMAIN Uses(p) /\ Visible(part, name) # {}
    <3> DEFINE q == Lookup(part, name)
    <3>1. AddUse(p, q, field)
      BY <1>1, <2>2 DEF Build
    <3>2. \A r : Means(part, name, r) <=> r = q
      BY <2>2, LookupMeans DEF IInv
    <3>3. q \in Ids
      BY <3>2 DEF Means, Visible
    <3>4. q \in needs[p]
      BY <1>1, <2>2, <3>2, <3>3, NeedsMeans DEF IInv
    <3> HIDE DEF q
    <3>5. /\ deps' \in [Ids -> Seq(Ids)]
          /\ \A r \in Ids : \A k, j \in DOMAIN deps'[r] : deps'[r][k] = deps'[r][j] => k = j
          /\ \A r \in Ids : Range(deps[r]) \subseteq Range(deps'[r])
          /\ \A r \in Ids : Range(deps'[r]) \subseteq needs[r]
          /\ q \in Range(deps'[p])
      BY <1>1, <3>1, <3>4, AddUseStep DEF IInv
    <3> QED BY <3>2, <3>5
  <2> QED BY <2>1, <2>2
<1>5. /\ cursor' \in (1 .. Len(doc) + 1) \X (Nat \ {0})
      /\ \A r \in Ids : \A k \in DOMAIN Uses(r) : Seen(r, k)' => Seen(r, k) \/ (r = p /\ k = i)
  <2>1. CASE i \in DOMAIN Uses(p)
    <3>1. cursor' = <<p, i + 1>>
      BY <1>1, <2>1 DEF Build
    <3> QED BY <1>1, <1>3, <3>1, UsesAreUses DEF Seen, IInv, Shape, Ids
  <2>2. CASE i \notin DOMAIN Uses(p)
    <3>1. cursor' = <<p + 1, 1>>
      BY <1>1, <2>2 DEF Build
    <3>2. i > Len(Uses(p))
      BY <1>2, <1>3, <2>2
    <3>3. \A k \in DOMAIN Uses(p) : k < i
      BY <1>2, <1>3, <3>2
    <3>4. \A r \in Ids : r < p + 1 => r < p \/ r = p
      BY <1>3, IdsAreFinite DEF IInv
    <3>5. \A r \in Ids : \A k \in DOMAIN Uses(r) : ~ (r = p + 1 /\ k < 1)
      BY UsesAreUses DEF IInv
    <3> QED BY <1>1, <1>3, <3>1, <3>3, <3>4, <3>5 DEF Seen, Ids
  <2> QED BY <2>1, <2>2
<1>6. Shape'
  BY <1>1, <1>2, <1>4, <1>5 DEF IInv, Shape
<1>7. GraphIsNeeds'
  <2>1. ASSUME NEW r \in Ids, NEW q \in Ids, NEW k \in DOMAIN Uses(r), Seen(r, k)',
               Means(doc[r].part, Uses(r)[k].name, q)
        PROVE  q \in Range(deps'[r])
    <3>1. CASE Seen(r, k)
      BY <1>4, <2>1, <3>1 DEF IInv, GraphIsNeeds
    <3>2. CASE r = p /\ k = i
      BY <1>4, <2>1, <3>2
    <3> QED BY <1>5, <2>1, <3>1, <3>2
  <2>2. /\ \A r : Uses(r)' = Uses(r)
        /\ \A x, y, z : Means(x, y, z)' = Means(x, y, z)
    BY <1>1, DocumentStays
  <2>3. \A r \in Ids : Range(deps[r])' = Range(deps'[r])
    BY DEF Range
  <2>4. \A r, q \in Ids : \A k \in DOMAIN Uses(r) :
          Seen(r, k)' /\ Means(doc[r].part, Uses(r)[k].name, q)' => q \in Range(deps[r])'
    BY <1>1, <2>1, <2>2, <2>3
  <2> QED BY <1>1, <1>2, <1>4, <2>2, <2>3, <2>4 DEF GraphIsNeeds
<1>8. OrderIsSound' /\ ResultsRest'
  BY <1>1, <1>2 DEF IInv, OrderIsSound, OrderIsLeast, ResultsRest, OkRestsOnOk, Evaluated
<1> QED BY <1>6, <1>7, <1>8 DEF IInv

LEMMA FrameStep ==
  ASSUME IInv, UNCHANGED <<doc, needs, cursor, deps, orderVars, results>>,
         phase' = phase \/ /\ phase # "graph" /\ phase' \in {"evaluate", "components", "cycles", "done"}
                           /\ ready = {}
                           /\ phase' = "evaluate" => phase = "order"
                           /\ phase' # "evaluate" => Range(order) \subseteq DOMAIN results
  PROVE  IInv'
<1>1. Ids' = Ids /\ Needs' = Needs /\ \A r : Uses(r)' = Uses(r)
  BY DocumentStays
<1>2. \A x, y, z : Means(x, y, z)' = Means(x, y, z)
  BY DocumentStays
<1>3. Shape'
  BY <1>1 DEF IInv, Shape, Phases
<1>4. GraphIsNeeds'
  BY <1>1, <1>2 DEF IInv, GraphIsNeeds, Seen, Range
<1>5. /\ order' = order /\ missing' = missing /\ ready' = ready /\ results' = results
      /\ Range(order)' = Range(order) /\ needs' = needs /\ Evaluated' = Evaluated
  BY DEF orderVars, Range, Evaluated
<1>6. /\ phase = "graph" <=> phase' = "graph"
      /\ phase' \notin {"graph", "order"} => ready = {}
  BY DEF IInv, OrderIsSound
<1>7. OrderIsSound'
  <2>1. OrderIsLeast'
    <3>1. OrderIsLeast /\ Ids' = Ids
      BY <1>1 DEF IInv, OrderIsSound
    <3> QED BY <1>5, <3>1 DEF OrderIsLeast
  <2> QED BY <1>1, <1>5, <1>6, <2>1 DEF IInv, OrderIsSound
<1>8. ResultsRest'
  <2>1. phase' = "evaluate" => Evaluated \in 0 .. Len(order) /\ DOMAIN results = {order[i] : i \in 1 .. Evaluated}
    <3>1. CASE phase = "evaluate"
      BY <3>1 DEF IInv, ResultsRest
    <3>2. CASE phase = "order"
      <4>1. DOMAIN results = {}
        BY <3>2 DEF IInv, ResultsRest
      <4>2. Evaluated = 0 /\ Len(order) \in Nat
        BY <4>1, FS_EmptySet DEF Evaluated, IInv, OrderIsSound
      <4> QED BY <4>1, <4>2
    <3> QED BY <3>1, <3>2
  <2>2. phase' \notin {"graph", "order", "evaluate"} => Range(order) \subseteq DOMAIN results
    BY DEF IInv, ResultsRest
  <2>3. phase' \in {"graph", "order"} => DOMAIN results = {}
    BY DEF IInv, ResultsRest
  <2>4. OkRestsOnOk'
    BY <1>5 DEF IInv, ResultsRest, OkRestsOnOk
  <2>5. Result' = Result
    BY <1>1 DEF Result
  <2> QED BY <1>1, <1>5, <2>1, <2>2, <2>3, <2>4, <2>5 DEF IInv, ResultsRest
<1> QED BY <1>3, <1>4, <1>7, <1>8 DEF IInv

LEMMA StartOrderStep == ASSUME IInv, StartOrder PROVE IInv'
<1>1. /\ phase = "graph" /\ phase' = "order" /\ cursor[1] \notin Ids
      /\ doc' = doc /\ needs' = needs /\ cursor' = cursor /\ deps' = deps
      /\ order' = order /\ results' = results
      /\ missing' = [p \in Ids |-> Len(deps[p])]
      /\ ready' = {p \in Ids : Len(deps[p]) = 0}
  BY DEF StartOrder, graphVars
<1>2. order = <<>> /\ Range(order) = {} /\ DOMAIN order = {}
  BY <1>1 DEF IInv, OrderIsSound, Range
<1>3. ASSUME NEW p \in Ids
      PROVE  /\ Len(deps[p]) = Cardinality(needs[p] \ Range(order))
             /\ Len(deps[p]) = 0 <=> needs[p] \subseteq Range(order)
  <2>1. Range(deps[p]) = needs[p] /\ deps[p] \in Seq(Ids)
    BY <1>1, GraphIsDone DEF IInv, Shape
  <2>2. IsFiniteSet(needs[p]) /\ Cardinality(needs[p]) = Len(deps[p])
    BY <2>1, IdsAreFinite, Distinct DEF IInv, GraphIsNeeds
  <2> QED BY <1>2, <2>2, FS_EmptySet
<1>4. Ids' = Ids /\ Needs' = Needs /\ \A r : Uses(r)' = Uses(r)
  BY <1>1, DocumentStays
<1>5. \A x, y, z : Means(x, y, z)' = Means(x, y, z)
  BY <1>1, DocumentStays
<1>6. Shape'
  BY <1>1, <1>4 DEF IInv, Shape, Phases
<1>7. GraphIsNeeds'
  BY <1>1, <1>4, <1>5 DEF IInv, GraphIsNeeds, Seen, Range
<1>8. OrderIsSound'
  <2>1. Range(order)' = Range(order)
    BY <1>1 DEF Range
  <2> QED BY <1>1, <1>2, <1>3, <1>4, <2>1 DEF IInv, OrderIsSound, OrderIsLeast
<1>9. ResultsRest'
  BY <1>1, <1>4 DEF IInv, ResultsRest, OkRestsOnOk, Range
<1> QED BY <1>6, <1>7, <1>8, <1>9 DEF IInv

LEMMA OrderStep == ASSUME IInv, Order PROVE IInv'
<1> DEFINE p == MinOf(ready)
           n == Len(order) + 1
           O == Range(order)
<1>1. /\ phase = "order" /\ phase' = phase /\ ready # {}
      /\ doc' = doc /\ needs' = needs /\ cursor' = cursor /\ deps' = deps /\ results' = results
      /\ order' = Append(order, p)
      /\ missing' = [u \in Ids |-> IF u \in Users(p) THEN missing[u] - 1 ELSE missing[u]]
      /\ ready' = (ready \ {p}) \cup {u \in Users(p) : missing'[u] = 0}
  BY DEF Order, PopFirst, graphVars
<1>2. Ids' = Ids /\ Needs' = Needs /\ (\A r : Uses(r)' = Uses(r)) /\ IsFiniteSet(Ids) /\ Ids \subseteq Nat
  BY <1>1, DocumentStays, IdsAreFinite DEF IInv
<1>3. \A x, y, z : Means(x, y, z)' = Means(x, y, z)
  BY <1>1, DocumentStays
<1>4. ready = {u \in Ids \ O : needs[u] \subseteq O}
  BY <1>1 DEF IInv, OrderIsSound
<1>5. p \in ready /\ p \in Ids /\ p \notin O /\ needs[p] \subseteq O
  BY <1>1, <1>2, <1>4, MinOfIsLeast
<1>6. /\ order' \in Seq(Ids) /\ Len(order') = n /\ DOMAIN order' = 1 .. n
      /\ \A i \in DOMAIN order : order'[i] = order[i]
      /\ order'[n] = p
      /\ Range(order') = O \cup {p}
      /\ \A i, j \in DOMAIN order' : order'[i] = order'[j] => i = j
      /\ DOMAIN order = 1 .. n - 1 /\ n \in Nat
  <2> HIDE DEF p
  <2> QED BY <1>1, <1>5, AppendDistinct DEF IInv, OrderIsSound
<1> HIDE DEF p, n
<1>7. \A i \in DOMAIN order : needs[order[i]] \subseteq {order[j] : j \in 1 .. i - 1}
  BY DEF IInv, OrderIsSound
<1>8. \A u \in O : needs[u] \subseteq O
  BY <1>6, <1>7 DEF Range
<1>9. ASSUME NEW u \in Ids
      PROVE  /\ u \in Users(p) <=> p \in needs[u]
             /\ IsFiniteSet(needs[u] \ O)
             /\ missing[u] = Cardinality(needs[u] \ O)
  <2>1. Range(deps[u]) = needs[u]
    BY <1>1, GraphIsDone DEF IInv, GraphIsNeeds
  <2>2. IsFiniteSet(needs[u] \ O)
    BY <1>2, NeedsMeans, FS_Subset DEF IInv
  <2>3. missing[u] = Cardinality(needs[u] \ O)
    BY <1>1 DEF IInv, OrderIsSound
  <2> QED BY <2>1, <2>2, <2>3 DEF Users
<1>10. ASSUME NEW u \in Ids
       PROVE  /\ missing'[u] = Cardinality(needs[u] \ (O \cup {p}))
              /\ missing'[u] = 0 <=> needs[u] \subseteq O \cup {p}
  <2>1. missing'[u] = IF p \in needs[u] THEN Cardinality(needs[u] \ O) - 1 ELSE Cardinality(needs[u] \ O)
    BY <1>1, <1>9
  <2>2. needs[u] \ (O \cup {p}) = (needs[u] \ O) \ {p}
    OBVIOUS
  <2>3. /\ IsFiniteSet((needs[u] \ O) \ {p})
        /\ Cardinality((needs[u] \ O) \ {p})
             = IF p \in needs[u] \ O THEN Cardinality(needs[u] \ O) - 1 ELSE Cardinality(needs[u] \ O)
    BY <1>9, FS_RemoveElement
  <2>4. missing'[u] = Cardinality(needs[u] \ (O \cup {p}))
    BY <1>5, <2>1, <2>2, <2>3
  <2>5. missing'[u] = 0 <=> needs[u] \ (O \cup {p}) = {}
    BY <2>2, <2>3, <2>4, FS_EmptySet
  <2> QED BY <2>4, <2>5
<1>11. ready' = {u \in Ids \ (O \cup {p}) : needs[u] \subseteq O \cup {p}}
  <2>1. ASSUME NEW u \in ready' PROVE u \in Ids \ (O \cup {p}) /\ needs[u] \subseteq O \cup {p}
    <3>1. CASE u \in ready \ {p}
      BY <1>4, <3>1
    <3>2. CASE u \in Users(p) /\ missing'[u] = 0
      <4>1. u \in Ids
        BY <3>2 DEF Users
      <4>2. p \in needs[u] /\ needs[u] \subseteq O \cup {p}
        BY <1>9, <1>10, <3>2, <4>1
      <4> QED BY <1>5, <1>8, <4>1, <4>2
    <3> QED BY <1>1, <2>1, <3>1, <3>2
  <2>2. ASSUME NEW u \in Ids \ (O \cup {p}), needs[u] \subseteq O \cup {p} PROVE u \in ready'
    <3>1. CASE p \in needs[u]
      BY <1>1, <1>9, <1>10, <2>2, <3>1
    <3>2. CASE p \notin needs[u]
      BY <1>1, <1>4, <2>2, <3>2
    <3> QED BY <3>1, <3>2
  <2> QED BY <2>1, <2>2
<1>12. ASSUME NEW i \in DOMAIN order'
       PROVE  /\ needs[order'[i]] \subseteq {order'[j] : j \in 1 .. i - 1}
              /\ order'[i] = MinOf({r \in Ids \ {order'[j] : j \in 1 .. i - 1} :
                                      needs[r] \subseteq {order'[j] : j \in 1 .. i - 1}})
  <2>1. CASE i \in DOMAIN order
    <3>1. {order'[j] : j \in 1 .. i - 1} = {order[j] : j \in 1 .. i - 1}
      BY <1>6, <2>1
    <3>2. order[i] = MinOf({r \in Ids \ {order[j] : j \in 1 .. i - 1} :
                             needs[r] \subseteq {order[j] : j \in 1 .. i - 1}})
      BY <2>1 DEF IInv, OrderIsSound, OrderIsLeast
    <3>3. order'[i] = order[i]
      BY <1>6, <2>1
    <3> QED BY <1>7, <2>1, <3>1, <3>2, <3>3
  <2>2. CASE i = n
    <3>1. {order'[j] : j \in 1 .. i - 1} = O
      BY <1>6, <2>2 DEF Range
    <3>2. order'[i] = MinOf(ready)
      BY <1>6, <2>2 DEF p
    <3> QED BY <1>4, <1>5, <1>6, <2>2, <3>1, <3>2
  <2> QED BY <1>6, <2>1, <2>2
<1>13. Shape'
  BY <1>1, <1>2 DEF IInv, Shape
<1>14. GraphIsNeeds'
  BY <1>1, <1>2, <1>3 DEF IInv, GraphIsNeeds, Seen, Range
<1>15. OrderIsSound'
  <2>1. Range(order)' = O \cup {p}
    BY <1>6 DEF Range
  <2>2. missing' = [u \in Ids |-> Cardinality(needs[u] \ (O \cup {p}))]
    BY <1>1, <1>10
  <2>3. OrderIsLeast'
    BY <1>1, <1>2, <1>12 DEF OrderIsLeast
  <2> QED BY <1>1, <1>2, <1>6, <1>11, <1>12, <2>1, <2>2, <2>3 DEF OrderIsSound
<1>16. ResultsRest'
  BY <1>1, <1>2 DEF IInv, ResultsRest, OkRestsOnOk
<1> QED BY <1>13, <1>14, <1>15, <1>16 DEF IInv

(* What eval_param returns, once all a parameter needs is evaluated. *)
LEMMA EvalParamMeans ==
  ASSUME IInv, phase # "graph", NEW p \in Ids, NEW r \in EvalParam(p),
         needs[p] \subseteq DOMAIN results, needs[p] \subseteq Range(order)
  PROVE  /\ r \in Result
         /\ \/ /\ \A q \in needs[p] : results[q].code = "OK"
               /\ \E code \in {"OK"} \cup OwnCodes : r = [code |-> code, param |-> 0, cause |-> code]
            \/ \E q \in needs[p] : results[q].code # "OK" /\ r = ParamFailed(Root(q))
<1>1. /\ Range(deps[p]) = needs[p] /\ deps[p] \in Seq(Ids)
      /\ DOMAIN deps[p] \subseteq Nat
  <2>1. deps[p] \in Seq(Ids)
    BY DEF IInv, Shape
  <2>2. Range(deps[p]) = needs[p]
    BY GraphIsDone DEF IInv, GraphIsNeeds
  <2> QED BY <2>1, <2>2
<1>2. \A q \in needs[p] : results[q] \in Result /\ (Failed(q) <=> results[q].code # "OK")
  BY DEF IInv, ResultsRest, Failed
<1>3. CASE \E q \in needs[p] : Failed(q)
  <2> DEFINE I == {i \in DOMAIN deps[p] : Failed(deps[p][i])}
             q == deps[p][MinOf(I)]
  <2>1. I # {}
    BY <1>1, <1>3 DEF Range
  <2>2. MinOf(I) \in I
    BY <1>1, <2>1, MinOfIsLeast
  <2>3. q \in needs[p] /\ Failed(q)
    BY <1>1, <2>2 DEF Range
  <2>4. r = ParamFailed(Root(q))
    BY <1>1, <1>3 DEF EvalParam, FirstFailed
  <2> HIDE DEF q
  <2>5. results[q] \in Result /\ q \in Ids /\ results[q].code # "OK"
    BY <1>2, <2>3, NeedsMeans DEF IInv
  <2>6. Root(q).param \in Ids \cup {0} /\ Root(q).cause \in {"OK"} \cup OwnCodes
    BY <2>5 DEF Root, Result
  <2> QED BY <2>3, <2>4, <2>5, <2>6 DEF ParamFailed, Result
<1>4. CASE ~ \E q \in needs[p] : Failed(q)
  <2>1. r \in {Ok} \cup {Fails(code) : code \in OwnCodes}
    BY <1>1, <1>4 DEF EvalParam
  <2>2. \E code \in {"OK"} \cup OwnCodes : r = [code |-> code, param |-> 0, cause |-> code]
    BY <2>1 DEF Ok, Fails
  <2>3. \A q \in needs[p] : results[q].code = "OK"
    BY <1>2, <1>4
  <2> QED BY <2>2, <2>3 DEF Result
<1> QED BY <1>3, <1>4

(* The parameter Evaluate settles: all it needs is settled, it is not. *)
LEMMA NextToEvaluate ==
  ASSUME IInv, phase = "evaluate", Evaluated < Len(order)
  PROVE  LET p == order[Evaluated + 1]
         IN /\ p \in Ids /\ p \in Range(order) /\ p \notin DOMAIN results
            /\ needs[p] \subseteq DOMAIN results /\ needs[p] \subseteq Range(order)
            /\ Evaluated \in Nat /\ IsFiniteSet(DOMAIN results)
<1> DEFINE e == Evaluated
<1>1. /\ e \in Nat /\ order \in Seq(Ids) /\ DOMAIN results = {order[i] : i \in 1 .. e}
      /\ \A i, j \in DOMAIN order : order[i] = order[j] => i = j
      /\ \A i \in DOMAIN order : needs[order[i]] \subseteq {order[j] : j \in 1 .. i - 1}
      /\ Len(order) \in Nat /\ DOMAIN order = 1 .. Len(order)
  BY DEF IInv, OrderIsSound, ResultsRest
<1>2. IsFiniteSet(DOMAIN results)
  BY IdsAreFinite, FS_Subset DEF IInv, ResultsRest
<1> HIDE DEF e
<1>3. e < Len(order) /\ e + 1 \in DOMAIN order /\ (e + 1) - 1 = e
  BY <1>1 DEF e
<1>4. needs[order[e + 1]] \subseteq DOMAIN results
  BY <1>1, <1>3
<1>5. DOMAIN results \subseteq Range(order)
  BY <1>1, <1>3 DEF Range
<1>6. order[e + 1] \notin DOMAIN results
  BY <1>1, <1>3
<1>7. order[e + 1] \in Ids /\ order[e + 1] \in Range(order)
  BY <1>1, <1>3 DEF Range
<1> QED BY <1>1, <1>2, <1>4, <1>5, <1>6, <1>7 DEF e

LEMMA EvaluateStep == ASSUME IInv, Evaluate PROVE IInv'
<1> DEFINE p == order[Evaluated + 1]
           e == Evaluated
<1>1. /\ phase = "evaluate" /\ phase' = phase /\ Evaluated < Len(order)
      /\ doc' = doc /\ needs' = needs /\ cursor' = cursor /\ deps' = deps
      /\ order' = order /\ missing' = missing /\ ready' = ready
  BY DEF Evaluate, graphVars, orderVars
<1>2. PICK r \in EvalParam(p) : results' = With(results, p, r)
  BY DEF Evaluate
<1>3. /\ p \in Ids /\ p \in Range(order) /\ p \notin DOMAIN results
      /\ needs[p] \subseteq DOMAIN results /\ needs[p] \subseteq Range(order)
      /\ e \in Nat /\ IsFiniteSet(DOMAIN results)
  BY <1>1, NextToEvaluate
<1>4. /\ r \in Result
      /\ \/ /\ \A q \in needs[p] : results[q].code = "OK"
            /\ \E code \in {"OK"} \cup OwnCodes : r = [code |-> code, param |-> 0, cause |-> code]
         \/ \E q \in needs[p] : results[q].code # "OK" /\ r = ParamFailed(Root(q))
  <2> HIDE DEF p
  <2> QED BY <1>1, <1>2, <1>3, EvalParamMeans
<1> HIDE DEF p
<1>5. /\ DOMAIN results' = DOMAIN results \cup {p} /\ results'[p] = r
      /\ \A q \in DOMAIN results : results'[q] = results[q]
  BY <1>2, <1>3 DEF With
<1>6. Evaluated' = e + 1
  BY <1>3, <1>5, FS_AddElement DEF Evaluated
<1>7. /\ Ids' = Ids /\ Needs' = Needs /\ Range(order)' = Range(order)
      /\ \A u : Uses(u)' = Uses(u)
  BY <1>1, DocumentStays DEF Range
<1>8. \A x, y, z : Means(x, y, z)' = Means(x, y, z)
  BY <1>1, DocumentStays
<1>9. Shape'
  BY <1>1, <1>7 DEF IInv, Shape
<1>10. GraphIsNeeds'
  BY <1>1, <1>7, <1>8 DEF IInv, GraphIsNeeds, Seen, Range
<1>11. OrderIsSound'
  <2>1. OrderIsLeast /\ Ids' = Ids
    BY <1>7 DEF IInv, OrderIsSound
  <2>2. OrderIsLeast'
    <3>1. order' = order /\ needs' = needs
      BY <1>1
    <3> QED BY <2>1, <3>1 DEF OrderIsLeast
  <2> QED BY <1>1, <1>7, <2>2 DEF IInv, OrderIsSound
<1>12. ResultsRest'
  <2>1. DOMAIN results' \subseteq Ids /\ DOMAIN results' \subseteq Range(order)
    <3>1. DOMAIN results = {order[i] : i \in 1 .. e} /\ order \in Seq(Ids) /\ e < Len(order)
      BY <1>1 DEF IInv, ResultsRest, OrderIsSound
    <3>2. DOMAIN results \subseteq Range(order) /\ Range(order) \subseteq Ids
      BY <1>3, <3>1 DEF Range
    <3> QED BY <1>3, <1>5, <3>2
  <2>2. Evaluated' \in 0 .. Len(order) /\ DOMAIN results' = {order[i] : i \in 1 .. Evaluated'}
    <3>1. DOMAIN results = {order[i] : i \in 1 .. e} /\ Len(order) \in Nat
      BY <1>1 DEF IInv, ResultsRest, OrderIsSound
    <3>2. p = order[e + 1]
      BY DEF p
    <3> HIDE DEF e
    <3>3. {order[i] : i \in 1 .. e + 1} = {order[i] : i \in 1 .. e} \cup {order[e + 1]}
      BY <1>3
    <3>4. e + 1 \in 0 .. Len(order)
      BY <1>1, <1>3, <3>1 DEF e
    <3> QED BY <1>5, <1>6, <3>1, <3>2, <3>3, <3>4
  <2>3. Result' = Result
    BY <1>7 DEF Result
  <2>4. \A q \in DOMAIN results' : results'[q] \in Result
    BY <1>4, <1>5, <2>1 DEF IInv, ResultsRest
  <2>5. OkRestsOnOk'
    <3>1. r.code = "OK" => \A q \in needs[p] : results[q].code = "OK"
      BY <1>4 DEF ParamFailed
    <3>2. ASSUME NEW u \in DOMAIN results', results'[u].code = "OK", NEW q \in needs[u]
          PROVE  q \in DOMAIN results' /\ results'[q].code = "OK"
      <4>1. CASE u = p
        BY <1>3, <1>5, <3>1, <3>2, <4>1
      <4>2. CASE u # p
        <5>1. u \in DOMAIN results /\ results[u].code = "OK"
          BY <1>5, <3>2, <4>2
        <5>2. q \in DOMAIN results /\ results[q].code = "OK"
          BY <3>2, <5>1 DEF IInv, ResultsRest, OkRestsOnOk
        <5> QED BY <1>5, <5>2
      <4> QED BY <4>1, <4>2
    <3> QED BY <1>1, <3>2 DEF OkRestsOnOk
  <2> QED BY <1>1, <1>7, <2>1, <2>2, <2>3, <2>4, <2>5 DEF ResultsRest
<1> QED BY <1>9, <1>10, <1>11, <1>12 DEF IInv

LEMMA BlockStep == ASSUME IInv, Block PROVE IInv'
<1> DEFINE p == MinOf(Ids \ DOMAIN results)
           r == BlockedResult(p)
<1>1. /\ phase = "cycles" /\ phase' = phase /\ DOMAIN results # Ids
      /\ doc' = doc /\ needs' = needs /\ cursor' = cursor /\ deps' = deps
      /\ order' = order /\ missing' = missing /\ ready' = ready
      /\ results' = With(results, p, r)
  BY DEF Block, graphVars, orderVars
<1>2. p \in Ids \ DOMAIN results /\ p \notin Range(order)
  <2>1. Ids \subseteq Nat /\ Ids \ DOMAIN results # {}
    BY <1>1, IdsAreFinite DEF IInv, ResultsRest
  <2>2. p \in Ids \ DOMAIN results
    BY <2>1, MinOfIsLeast
  <2> QED BY <1>1, <2>2 DEF IInv, ResultsRest
<1>3. /\ DOMAIN r = {"code", "param", "cause"}
      /\ r.code \in {"PARAM_CYCLE", "PARAM_FAILED"} /\ r.cause = "PARAM_CYCLE"
  BY DEF BlockedResult, Fails
<1> HIDE DEF p, r
<1>4. /\ DOMAIN results' = DOMAIN results \cup {p} /\ results'[p] = r
      /\ \A q \in DOMAIN results : results'[q] = results[q]
  BY <1>1, <1>2 DEF With
<1>5. /\ Ids' = Ids /\ Needs' = Needs /\ Range(order)' = Range(order)
      /\ \A u : Uses(u)' = Uses(u)
  BY <1>1, DocumentStays DEF Range
<1>6. \A x, y, z : Means(x, y, z)' = Means(x, y, z)
  BY <1>1, DocumentStays
<1>7. Shape'
  BY <1>1, <1>5 DEF IInv, Shape
<1>8. GraphIsNeeds'
  BY <1>1, <1>5, <1>6 DEF IInv, GraphIsNeeds, Seen, Range
<1>9. OrderIsSound'
  <2>1. OrderIsLeast /\ Ids' = Ids
    BY <1>5 DEF IInv, OrderIsSound
  <2>2. OrderIsLeast'
    BY <1>1, <2>1 DEF OrderIsLeast
  <2> QED BY <1>1, <1>5, <2>2 DEF IInv, OrderIsSound
<1>10. ResultsRest'
  <2>1. Result' = Result
    BY <1>5 DEF Result
  <2>2. OkRestsOnOk'
    <3>1. ASSUME NEW u \in DOMAIN results', results'[u].code = "OK", NEW q \in needs[u]
          PROVE  q \in DOMAIN results' /\ results'[q].code = "OK"
      <4>1. u \in DOMAIN results /\ results[u].code = "OK"
        BY <1>3, <1>4, <3>1
      <4>2. q \in DOMAIN results /\ results[q].code = "OK"
        BY <3>1, <4>1 DEF IInv, ResultsRest, OkRestsOnOk
      <4> QED BY <1>4, <4>2
    <3> QED BY <1>1, <3>1 DEF OkRestsOnOk
  <2>3. /\ Range(order) \subseteq DOMAIN results
        /\ \A q \in DOMAIN results \cap Range(order) : results[q] \in Result
        /\ \A q \in DOMAIN results \ Range(order) :
             /\ DOMAIN results[q] = {"code", "param", "cause"}
             /\ results[q].code \in {"PARAM_CYCLE", "PARAM_FAILED"} /\ results[q].cause = "PARAM_CYCLE"
        /\ DOMAIN results \subseteq Ids
    BY <1>1 DEF IInv, ResultsRest
  <2> QED BY <1>1, <1>2, <1>3, <1>4, <1>5, <2>1, <2>2, <2>3 DEF ResultsRest
<1> QED BY <1>7, <1>8, <1>9, <1>10 DEF IInv

LEMMA StepHolds == ASSUME IInv, [Next]_vars PROVE IInv'
<1>1. CASE Build \/ StartOrder \/ Order \/ Evaluate \/ Block
  BY <1>1, BuildStep, StartOrderStep, OrderStep, EvaluateStep, BlockStep
<1>2. CASE Ordered
  <2>1. phase = "order" /\ phase' = "evaluate" /\ ready = {}
    BY <1>2 DEF Ordered
  <2>2. UNCHANGED <<doc, needs, cursor, deps, orderVars, results>>
    BY <1>2 DEF Ordered, graphVars
  <2> QED BY <2>1, <2>2, FrameStep
<1>3. CASE StartComponents
  <2>1. phase = "evaluate" /\ phase' = "components" /\ Evaluated = Len(order)
    BY <1>3 DEF StartComponents
  <2>2. ready = {} /\ Range(order) \subseteq DOMAIN results
    BY <2>1 DEF IInv, OrderIsSound, ResultsRest, Range
  <2>3. UNCHANGED <<doc, needs, cursor, deps, orderVars, results>>
    BY <1>3 DEF StartComponents, graphVars
  <2> QED BY <2>1, <2>2, <2>3, FrameStep
<1>4. CASE StartRoot \/ Descend \/ Return \/ UNCHANGED vars
  <2>1. phase' = phase /\ UNCHANGED <<doc, needs, cursor, deps, orderVars, results>>
    BY <1>4 DEF StartRoot, Descend, Return, vars, graphVars, orderVars
  <2> QED BY <2>1, FrameStep
<1>5. CASE StartCycles \/ Finish
  <2>1. phase \in {"components", "cycles"} /\ phase' \in {"cycles", "done"}
    BY <1>5 DEF StartCycles, Finish
  <2>2. ready = {} /\ Range(order) \subseteq DOMAIN results
    BY <2>1 DEF IInv, OrderIsSound, ResultsRest
  <2>3. UNCHANGED <<doc, needs, cursor, deps, orderVars, results>>
    BY <1>5 DEF StartCycles, Finish, graphVars
  <2> QED BY <2>1, <2>2, <2>3, FrameStep
<1> QED BY <1>1, <1>2, <1>3, <1>4, <1>5 DEF Next

LEMMA AlwaysIInv == Spec => []IInv
<1>1. Init => IInv
  BY InitHolds
<1>2. IInv /\ [Next]_vars => IInv'
  BY StepHolds
<1> QED BY <1>1, <1>2, PTL DEF Spec

(***************************************************************************)
(* What is left out of the order.                                          *)
(***************************************************************************)
LEMMA BlockedIsClosed ==
  ASSUME IInv, phase \notin {"graph", "order"}
  PROVE  Blocked \subseteq Ids /\ \A q \in Blocked : needs[q] \cap Blocked # {}
<1>1. \A q \in Ids \ Range(order) : ~ (needs[q] \subseteq Range(order))
  BY DEF IInv, OrderIsSound
<1>2. \A q \in Ids : needs[q] \subseteq Ids
  BY NeedsMeans DEF IInv
<1> QED BY <1>1, <1>2 DEF Blocked

LEMMA OrderedIsFree ==
  ASSUME IInv, NEW S, \A q \in S : needs[q] \cap S # {}
  PROVE  S \cap Range(order) = {}
<1> SUFFICES ASSUME S \cap Range(order) # {} PROVE FALSE
  OBVIOUS
<1> DEFINE I == {i \in DOMAIN order : order[i] \in S}
           k == MinOf(I)
<1>1. /\ DOMAIN order \subseteq Nat
      /\ DOMAIN order = 1 .. Len(order) /\ Len(order) \in Nat
      /\ \A i \in DOMAIN order : needs[order[i]] \subseteq {order[j] : j \in 1 .. i - 1}
  BY DEF IInv, OrderIsSound
<1>2. I # {} /\ I \subseteq Nat
  BY <1>1 DEF Range
<1>3. k \in I /\ \A i \in I : k <= i
  BY <1>2, MinOfIsLeast
<1> HIDE DEF k
<1>4. PICK x \in needs[order[k]] : x \in S
  BY <1>3
<1>5. PICK j \in 1 .. k - 1 : x = order[j]
  BY <1>1, <1>3, <1>4
<1>6. j \in I /\ j < k
  BY <1>1, <1>3, <1>4, <1>5
<1> QED BY <1>1, <1>3, <1>6

LEMMA IInvBlocked == IInv => BlockedIsInTrouble
<1> SUFFICES ASSUME IInv, phase \notin {"graph", "order"} PROVE Blocked = InTrouble
  BY DEF BlockedIsInTrouble
<1>1. Blocked \subseteq InTrouble
  BY BlockedIsClosed DEF InTrouble
<1>2. InTrouble \subseteq Blocked
  BY OrderedIsFree DEF InTrouble, Blocked
<1> QED BY <1>1, <1>2

(***************************************************************************)
(* The theorems.                                                           *)
(***************************************************************************)

(* For every document: each parameter is evaluated after all its expressions use,
   and of those that could come next the first declared one is (ParamGraph::order). *)
THEOREM OrderIsLeastHolds == Spec => []OrderIsLeast
<1>1. IInv => OrderIsLeast
  BY DEF IInv, OrderIsSound
<1> QED BY <1>1, AlwaysIInv, PTL

(* For every document: the parameters order() leaves out are those on or behind a
   cycle, no more and no fewer. *)
THEOREM BlockedIsInTroubleHolds == Spec => []BlockedIsInTrouble
<1>1. IInv => BlockedIsInTrouble
  BY IInvBlocked
<1> QED BY <1>1, AlwaysIInv, PTL

(* For every document and every failure: a parameter with a value uses only
   parameters with values, those of its bounds and untaken branches included. *)
THEOREM OkRestsOnOkHolds == Spec => []OkRestsOnOk
<1>1. IInv => OkRestsOnOk
  BY DEF IInv, ResultsRest
<1> QED BY <1>1, AlwaysIInv, PTL

(***************************************************************************)
(* The refinement.                                                         *)
(***************************************************************************)
LEMMA SettledIs ==
  /\ DOMAIN Settled = DOMAIN results
  /\ \A q \in DOMAIN results :
       Settled[q] = [results[q] EXCEPT !.param = IF results[q].cause = "PARAM_CYCLE" THEN 0 ELSE @]
BY DEF Settled

(* A result of an evaluated parameter is its own, cycles apart. *)
LEMMA EvaluatedIsSettled ==
  ASSUME NEW r \in Result
  PROVE  [r EXCEPT !.param = IF r.cause = "PARAM_CYCLE" THEN 0 ELSE @] = r
<1>1. r.cause # "PARAM_CYCLE"
  BY CodesAreTheirOwn DEF Result
<1> QED BY <1>1 DEF Result

LEMMA EvaluateRefines == ASSUME IInv, Evaluate PROVE Promise!Next
<1> DEFINE p == order[Evaluated + 1]
<1>1. phase = "evaluate" /\ Evaluated < Len(order) /\ needs' = needs
  BY DEF Evaluate
<1>2. PICK r \in EvalParam(p) : results' = With(results, p, r)
  BY DEF Evaluate
<1>3. /\ p \in Ids /\ p \in Range(order) /\ p \notin DOMAIN results
      /\ needs[p] \subseteq DOMAIN results /\ needs[p] \subseteq Range(order)
  BY <1>1, NextToEvaluate
<1> HIDE DEF p
<1>4. /\ r \in Result
      /\ \/ /\ \A q \in needs[p] : results[q].code = "OK"
            /\ \E code \in {"OK"} \cup OwnCodes : r = [code |-> code, param |-> 0, cause |-> code]
         \/ \E q \in needs[p] : results[q].code # "OK" /\ r = ParamFailed(Root(q))
  BY <1>1, <1>2, <1>3, EvalParamMeans
<1>5. Settled' = [q \in DOMAIN Settled \cup {p} |-> IF q = p THEN r ELSE Settled[q]]
  <2>1. /\ DOMAIN results' = DOMAIN results \cup {p} /\ results'[p] = r
        /\ \A q \in DOMAIN results : results'[q] = results[q]
    BY <1>2, <1>3 DEF With
  <2>2. [r EXCEPT !.param = IF r.cause = "PARAM_CYCLE" THEN 0 ELSE @] = r
    BY <1>4, EvaluatedIsSettled
  <2> QED BY <2>1, <2>2 DEF Settled
<1>6. \A q \in needs[p] : results[q] \in Result /\ Settled[q] = results[q]
  BY <1>3, SettledIs, EvaluatedIsSettled DEF IInv, ResultsRest
<1>7. p \in DOMAIN needs /\ DOMAIN Settled = DOMAIN results
  BY <1>3, NeedsMeans, SettledIs DEF IInv
<1>8. Promise!Settle(p, r)
  BY <1>1, <1>3, <1>5, <1>7 DEF Promise!Settle
<1>9. CASE /\ \A q \in needs[p] : results[q].code = "OK"
           /\ \E code \in {"OK"} \cup OwnCodes : r = [code |-> code, param |-> 0, cause |-> code]
  <2>1. Promise!Value(p)
    BY <1>3, <1>6, <1>7, <1>8, <1>9 DEF Promise!Value, Promise!Failed
  <2> QED BY <1>7, <2>1 DEF Promise!Next
<1>10. CASE \E q \in needs[p] : results[q].code # "OK" /\ r = ParamFailed(Root(q))
  <2>1. PICK q \in needs[p] : results[q].code # "OK" /\ r = ParamFailed(Root(q))
    BY <1>10
  <2>2. Promise!Failed(q) /\ Promise!Root(q) = Root(q)
    BY <1>6, <2>1 DEF Promise!Failed, Promise!Root, Root
  <2>3. Promise!Inherits(p)
    BY <1>3, <1>7, <1>8, <2>1, <2>2 DEF Promise!Inherits, ParamFailed
  <2> QED BY <1>7, <2>3 DEF Promise!Next
<1> QED BY <1>4, <1>9, <1>10

LEMMA BlockRefines == ASSUME IInv, Block PROVE Promise!Next
<1> DEFINE p == MinOf(Ids \ DOMAIN results)
           r == BlockedResult(p)
           s == [code |-> r.code, param |-> 0, cause |-> "PARAM_CYCLE"]
<1>1. phase = "cycles" /\ DOMAIN results # Ids /\ needs' = needs /\ results' = With(results, p, r)
  BY DEF Block
<1>2. p \in Ids \ DOMAIN results /\ p \in Blocked
  <2>1. Ids \subseteq Nat /\ Ids \ DOMAIN results # {}
    BY <1>1, IdsAreFinite DEF IInv, ResultsRest
  <2>2. p \in Ids \ DOMAIN results
    BY <2>1, MinOfIsLeast
  <2> QED BY <1>1, <2>2 DEF IInv, ResultsRest, Blocked
<1>3. /\ r.code \in {"PARAM_CYCLE", "PARAM_FAILED"} /\ r.cause = "PARAM_CYCLE"
      /\ [r EXCEPT !.param = IF r.cause = "PARAM_CYCLE" THEN 0 ELSE @] = s
  BY DEF BlockedResult, Fails
<1> HIDE DEF p, r
<1>4. Settled' = [q \in DOMAIN Settled \cup {p} |-> IF q = p THEN s ELSE Settled[q]]
  <2>1. /\ DOMAIN results' = DOMAIN results \cup {p} /\ results'[p] = r
        /\ \A q \in DOMAIN results : results'[q] = results[q]
    BY <1>1, <1>2 DEF With
  <2> HIDE DEF s
  <2> QED BY <1>3, <2>1 DEF Settled
<1>5. p \in DOMAIN needs /\ DOMAIN needs = Ids /\ DOMAIN Settled = DOMAIN results
  BY <1>2, NeedsMeans, SettledIs DEF IInv
<1>6. Promise!InTrouble(p)
  BY <1>1, <1>2, <1>5, BlockedIsClosed DEF Promise!InTrouble
<1>7. Promise!Settle(p, s)
  <2> HIDE DEF s
  <2> QED BY <1>1, <1>2, <1>4, <1>5 DEF Promise!Settle
<1>8. Promise!Cycle(p)
  BY <1>3, <1>6, <1>7 DEF Promise!Cycle
<1> QED BY <1>5, <1>8 DEF Promise!Next

LEMMA StepRefines == ASSUME IInv, [Next]_vars PROVE [Promise!Next]_Promise!vars
<1>1. CASE Evaluate \/ Block
  BY <1>1, EvaluateRefines, BlockRefines
<1>2. CASE ~ (Evaluate \/ Block)
  <2>1. needs' = needs /\ results' = results
    BY <1>2 DEF Next, vars, Build, StartOrder, Order, Ordered, StartComponents, StartRoot,
                Descend, Return, StartCycles, Finish
  <2>2. Settled' = Settled
    BY <2>1 DEF Settled
  <2> QED BY <2>1, <2>2 DEF Promise!vars
<1> QED BY <1>1, <1>2

(* For every document and every failure, evaluation implements its promise: each
   parameter is settled once, after what it uses, and as that calls for; only
   what is on or behind a cycle is settled without (evaluate). *)
THEOREM KeepsPromiseHolds == Spec => KeepsPromise
<1>1. Init => Promise!Init
  BY DEF Init, Promise!Init, Settled
<1>2. IInv /\ [Next]_vars => [Promise!Next]_Promise!vars
  BY StepRefines
<1> QED BY <1>1, <1>2, AlwaysIInv, PTL DEF Spec, KeepsPromise, Promise!Spec

(***************************************************************************)
(* Recursive functions of numbers.  Induction on a set of numbers: if n    *)
(* were missing, moving each member below it up by one would be one-to-one *)
(* into a smaller set.                                                     *)
(***************************************************************************)
LEMMA Induction ==
  ASSUME NEW n \in Nat, NEW S, 0 \in S, \A i \in 0 .. n - 1 : i \in S => i + 1 \in S
  PROVE  n \in S
<1> SUFFICES ASSUME n \notin S PROVE FALSE
  OBVIOUS
<1> DEFINE T == S \cap 0 .. n
           up == [i \in T |-> i + 1]
<1>1. IsFiniteSet(T) /\ 0 \in T
  <2>1. IsFiniteSet(0 .. n)
    BY FS_Interval
  <2> QED BY <2>1, FS_Subset
<1>2. /\ IsFiniteSet(T \ {0}) /\ Cardinality(T \ {0}) = Cardinality(T) - 1
      /\ Cardinality(T) \in Nat
  BY <1>1, FS_RemoveElement, FS_CardinalityType
<1>3. up \in Injection(T, T \ {0})
  <2>1. \A i \in T : i + 1 \in T \ {0}
    OBVIOUS
  <2>2. \A i, k \in T : up[i] = up[k] => i = k
    OBVIOUS
  <2> QED BY <2>1, <2>2 DEF Injection, IsInjective
<1>4. Cardinality(T) <= Cardinality(T \ {0})
  BY <1>2, <1>3, FS_Injection
<1> QED BY <1>2, <1>4

Stepper(G, n, S) == G \in [1 .. n -> [S -> S]]
Iteration(f, n, S, a, G) ==
  f \in [0 .. n -> S] /\ f[0] = a /\ \A i \in 1 .. n : f[i] = G[i][f[i - 1]]

LEMMA Iterates ==
  ASSUME NEW n \in Nat, NEW S, NEW a \in S, NEW G, Stepper(G, n, S)
  PROVE  \E f : Iteration(f, n, S, a, G)
<1> USE DEF Stepper, Iteration
<1> DEFINE Steps(f, m) == /\ f \in [0 .. m -> S] /\ f[0] = a
                          /\ \A i \in 1 .. m : f[i] = G[i][f[i - 1]]
           T == {m \in 0 .. n : \E f : Steps(f, m)}
<1>1. 0 \in T
  <2> DEFINE f == [i \in 0 .. 0 |-> a]
  <2>1. Steps(f, 0)
    OBVIOUS
  <2> HIDE DEF f, Steps
  <2> QED BY <2>1
<1>2. ASSUME NEW m \in 0 .. n - 1, m \in T PROVE m + 1 \in T
  <2>1. PICK f : Steps(f, m)
    BY <1>2
  <2> DEFINE g == [i \in 0 .. m + 1 |-> IF i <= m THEN f[i] ELSE G[m + 1][f[m]]]
  <2>2. \A i \in 1 .. m + 1 : g[i] = G[i][g[i - 1]]
    <3>1. ASSUME NEW i \in 1 .. m + 1 PROVE g[i] = G[i][g[i - 1]]
      <4>1. CASE i <= m
        BY <2>1, <4>1
      <4>2. CASE i = m + 1
        BY <4>2
      <4> QED BY <4>1, <4>2
    <3> QED BY <3>1
  <2>3. G[m + 1][f[m]] \in S
    <3>1. f[m] \in S /\ m + 1 \in 1 .. n
      BY <2>1
    <3> QED BY <3>1
  <2>4. g \in [0 .. m + 1 -> S] /\ g[0] = a
    BY <2>1, <2>3
  <2>5. Steps(g, m + 1)
    BY <2>2, <2>4
  <2> HIDE DEF g, Steps
  <2> QED BY <2>5
<1> HIDE DEF Steps
<1>3. n \in T
  <2> HIDE DEF T
  <2> QED BY <1>1, <1>2, Induction
<1> QED BY <1>3 DEF Steps

(***************************************************************************)
(* What is reached: the least set that holds what p needs and is closed.   *)
(***************************************************************************)
Closed(S) == \A q \in S : needs[q] \subseteq S

LEMMA ReachSteps ==
  ASSUME Shape
  PROVE  \E r \in [0 .. Len(doc) -> [Ids -> SUBSET Ids]] :
           /\ r[0] = needs /\ r[Len(doc)] = Reach
           /\ \A i \in 1 .. Len(doc) :
                r[i] = [p \in Ids |-> r[i - 1][p] \cup UNION {r[i - 1][q] : q \in r[i - 1][p]}]
<1> DEFINE n == Len(doc)
           S == [Ids -> SUBSET Ids]
           Next1(s) == [p \in Ids |-> s[p] \cup UNION {s[q] : q \in s[p]}]
           G == [i \in 1 .. n |-> [s \in S |-> Next1(s)]]
           r[i \in 0 .. n] ==
             IF i = 0 THEN needs
             ELSE LET s == r[i - 1] IN [p \in Ids |-> s[p] \cup UNION {s[q] : q \in s[p]}]
<1>1. n \in Nat /\ needs \in S
  BY NeedsMeans DEF Shape, Needs
<1>2. \A s \in S : Next1(s) \in S
  OBVIOUS
<1>3. Stepper(G, n, S)
  BY <1>2 DEF Stepper
<1>4. PICK f : Iteration(f, n, S, needs, G)
  <2> HIDE DEF n, S, G, r, Next1
  <2> QED BY <1>1, <1>3, Iterates
<1> USE DEF Iteration
<1>5. \A i \in 1 .. n : f[i] = Next1(f[i - 1])
  <2>1. ASSUME NEW i \in 1 .. n PROVE f[i] = Next1(f[i - 1])
    <3>1. i - 1 \in 0 .. n
      BY <1>1
    <3>2. f[i - 1] \in S
      BY <1>4, <3>1
    <3> HIDE DEF S, n, Next1
    <3> QED BY <1>4, <3>2
  <2> QED BY <2>1
<1>6. f = [i \in 0 .. n |-> IF i = 0 THEN needs
                            ELSE LET s == f[i - 1] IN [p \in Ids |-> s[p] \cup UNION {s[q] : q \in s[p]}]]
  <2>1. ASSUME NEW i \in 0 .. n
        PROVE  f[i] = IF i = 0 THEN needs ELSE Next1(f[i - 1])
    <3>1. i # 0 => i \in 1 .. n
      BY <1>1
    <3> HIDE DEF n, Next1
    <3> QED BY <1>4, <1>5, <3>1
  <2> HIDE DEF n
  <2> QED BY <1>4, <2>1
<1>7. r = [i \in 0 .. n |-> IF i = 0 THEN needs
                            ELSE LET s == r[i - 1] IN [p \in Ids |-> s[p] \cup UNION {s[q] : q \in s[p]}]]
  <2> HIDE DEF n
  <2> QED BY <1>6
<1>8. Reach = r[n]
  BY DEF Reach
<1> HIDE DEF r
<1>9. r[0] = needs /\ \A i \in 1 .. n : r[i] = Next1(r[i - 1])
  <2>1. ASSUME NEW i \in 0 .. n PROVE r[i] = IF i = 0 THEN needs ELSE Next1(r[i - 1])
    <3> HIDE DEF n
    <3> QED BY <1>7
  <2>2. 0 \in 0 .. n /\ \A i \in 1 .. n : i \in 0 .. n /\ i # 0
    BY <1>1
  <2> HIDE DEF n, Next1
  <2> QED BY <2>1, <2>2
<1>10. r \in [0 .. n -> S]
  <2> DEFINE T == {i \in 0 .. n : r[i] \in S}
  <2>1. 0 \in T
    BY <1>1, <1>9
  <2>2. ASSUME NEW i \in 0 .. n - 1, i \in T PROVE i + 1 \in T
    <3>1. i + 1 \in 1 .. n /\ (i + 1) - 1 = i /\ i + 1 \in 0 .. n
      BY <1>1
    <3>2. r[i + 1] = Next1(r[i])
      BY <1>9, <3>1
    <3>3. r[i] \in S
      BY <2>2
    <3> HIDE DEF Next1, S, n
    <3> QED BY <1>2, <3>1, <3>2, <3>3
  <2>3. \A m \in 0 .. n : m \in T
    <3>1. ASSUME NEW m \in 0 .. n PROVE m \in T
      <4>1. m \in Nat /\ \A i \in 0 .. m - 1 : i \in 0 .. n - 1
        BY <1>1
      <4> HIDE DEF T
      <4> QED BY <2>1, <2>2, <4>1, Induction
    <3> QED BY <3>1
  <2>4. DOMAIN r = 0 .. n /\ r = [i \in 0 .. n |-> r[i]]
    <3>1. DOMAIN r = 0 .. n
      BY <1>7
    <3> QED BY <1>7, <3>1
  <2> HIDE DEF n, S
  <2> QED BY <2>3, <2>4
<1> QED BY <1>8, <1>9, <1>10

LEMMA ReachIsLeast ==
  ASSUME Shape
  PROVE  /\ DOMAIN Reach = Ids
         /\ \A p \in Ids : Reach[p] \subseteq Ids /\ needs[p] \subseteq Reach[p] /\ Closed(Reach[p])
         /\ \A p \in Ids, S \in SUBSET Ids : needs[p] \subseteq S /\ Closed(S) => Reach[p] \subseteq S
<1> DEFINE n == Len(doc)
<1>1. PICK r \in [0 .. n -> [Ids -> SUBSET Ids]] :
        /\ r[0] = needs /\ r[n] = Reach
        /\ \A i \in 1 .. n :
             r[i] = [p \in Ids |-> r[i - 1][p] \cup UNION {r[i - 1][q] : q \in r[i - 1][p]}]
  BY ReachSteps
<1>2. n \in Nat /\ IsFiniteSet(Ids) /\ Ids \subseteq Nat /\ Cardinality(Ids) = n
  BY IdsAreFinite, FS_Interval DEF Ids
<1> HIDE DEF n
<1> DEFINE Good(s, i) ==
             /\ \A p \in Ids : needs[p] \subseteq s[p]
             /\ \A p \in Ids, S \in SUBSET Ids : needs[p] \subseteq S /\ Closed(S) => s[p] \subseteq S
             /\ \A p \in Ids : Closed(s[p]) \/ Cardinality(s[p]) > i
           T == {i \in 0 .. n : Good(r[i], i)}
<1>3. \A S \in SUBSET Ids : IsFiniteSet(S) /\ Cardinality(S) \in Nat
  BY <1>2, FS_Subset, FS_CardinalityType
<1>4. 0 \in T
  <2>1. \A p \in Ids : needs[p] \in SUBSET Ids /\ r[0][p] = needs[p]
    BY <1>1, NeedsMeans
  <2>2. \A p \in Ids : needs[p] = {} \/ Cardinality(needs[p]) > 0
    BY <1>3, <2>1, FS_EmptySet
  <2>3. Good(r[0], 0)
    BY <2>1, <2>2 DEF Closed
  <2> HIDE DEF Good
  <2> QED BY <1>2, <2>3
<1>5. ASSUME NEW i \in 0 .. n - 1, i \in T PROVE i + 1 \in T
  <2> DEFINE s == r[i]
             t == r[i + 1]
  <2>1. i + 1 \in 1 .. n /\ (i + 1) - 1 = i /\ i \in 0 .. n /\ i + 1 \in 0 .. n /\ i \in Nat
    BY <1>2
  <2>2. /\ s \in [Ids -> SUBSET Ids] /\ t \in [Ids -> SUBSET Ids]
        /\ t = [p \in Ids |-> s[p] \cup UNION {s[q] : q \in s[p]}] /\ Good(s, i)
    BY <1>1, <1>5, <2>1
  <2> HIDE DEF s, t
  <2>3. ASSUME NEW p \in Ids, NEW S \in SUBSET Ids, needs[p] \subseteq S, Closed(S)
        PROVE  t[p] \subseteq S
    <3>1. s[p] \subseteq S
      BY <2>2, <2>3
    <3>2. \A q \in s[p] : q \in Ids /\ s[q] \subseteq S
      BY <2>2, <2>3, <3>1 DEF Closed
    <3> QED BY <2>2, <3>1, <3>2
  <2>4. ASSUME NEW p \in Ids PROVE Closed(t[p]) \/ Cardinality(t[p]) > i + 1
    <3>1. /\ s[p] \in SUBSET Ids /\ t[p] \in SUBSET Ids /\ s[p] \subseteq t[p]
          /\ needs[p] \subseteq s[p] /\ \A q \in s[p] : needs[q] \subseteq t[p]
      BY <2>2
    <3>2. CASE Closed(s[p])
      <4>1. t[p] \subseteq s[p]
        BY <2>3, <3>1, <3>2
      <4> QED BY <3>1, <3>2, <4>1 DEF Closed
    <3>3. CASE ~ Closed(s[p])
      <4>1. s[p] # t[p]
        BY <3>1, <3>3 DEF Closed
      <4>2. Cardinality(s[p]) < Cardinality(t[p])
        BY <1>3, <3>1, <4>1, FS_Subset
      <4>3. Cardinality(s[p]) > i
        BY <2>2, <3>3
      <4> QED BY <1>3, <2>1, <3>1, <4>2, <4>3
    <3> QED BY <3>2, <3>3
  <2>5. \A p \in Ids : needs[p] \subseteq t[p]
    BY <2>2
  <2>6. Good(t, i + 1)
    BY <2>3, <2>4, <2>5
  <2> QED BY <2>1, <2>6 DEF t
<1>6. Good(r[n], n)
  <2>1. n \in T
    <3> HIDE DEF T
    <3> QED BY <1>2, <1>4, <1>5, Induction
  <2> QED BY <2>1
<1>7. \A p \in Ids : Reach[p] \in SUBSET Ids /\ ~ Cardinality(Reach[p]) > n
  <2>1. Reach \in [Ids -> SUBSET Ids]
    BY <1>1, <1>2
  <2>2. \A p \in Ids : Cardinality(Reach[p]) <= n
    BY <1>2, <2>1, FS_Subset
  <2> QED BY <1>2, <1>3, <2>1, <2>2
<1>8. DOMAIN Reach = Ids
  BY <1>1, <1>2
<1> QED BY <1>1, <1>6, <1>7, <1>8

(* p is q or reaches it. *)
Gets(p, q) == q = p \/ q \in Reach[p]

LEMMA GetsFacts ==
  ASSUME Shape
  PROVE  /\ \A p \in Ids : Gets(p, p)
         /\ \A p \in Ids : \A q \in needs[p] : Gets(p, q)
         /\ \A p, q, r \in Ids : Gets(p, q) /\ Gets(q, r) => Gets(p, r)
         /\ \A p, q \in Ids : q \in Reach[p] => Reach[q] \subseteq Reach[p]
         /\ \A p, r \in Ids : r \in Reach[p] => \E q \in needs[p] : Gets(q, r)
<1>1. \A p, q \in Ids : q \in Reach[p] => Reach[q] \subseteq Reach[p]
  BY ReachIsLeast DEF Closed
<1>2. ASSUME NEW p \in Ids, NEW r \in Reach[p] PROVE \E q \in needs[p] : Gets(q, r)
  <2> DEFINE S == needs[p] \cup UNION {Reach[q] : q \in needs[p]}
  <2>1. needs[p] \subseteq Ids
    BY NeedsMeans
  <2>2. S \in SUBSET Ids
    BY <2>1, ReachIsLeast
  <2>3. Closed(S)
    <3>1. \A q \in needs[p] : needs[q] \subseteq Reach[q] /\ Closed(Reach[q])
      BY <2>1, ReachIsLeast
    <3>2. ASSUME NEW q \in S PROVE needs[q] \subseteq S
      <4>1. CASE q \in needs[p]
        BY <3>1, <4>1
      <4>2. CASE \E x \in needs[p] : q \in Reach[x]
        BY <3>1, <4>2 DEF Closed
      <4> QED BY <3>2, <4>1, <4>2
    <3> HIDE DEF S
    <3> QED BY <3>2 DEF Closed
  <2>4. Reach[p] \subseteq S
    <3>1. needs[p] \subseteq S
      OBVIOUS
    <3> HIDE DEF S
    <3> QED BY <2>2, <2>3, <3>1, ReachIsLeast
  <2> QED BY <1>2, <2>4 DEF Gets
<1>3. \A p \in Ids : \A q \in needs[p] : Gets(p, q)
  BY ReachIsLeast DEF Gets
<1> QED BY <1>1, <1>2, <1>3 DEF Gets

(***************************************************************************)
(* The components.  While one is searched for, the path is work, the       *)
(* parameters found and not yet in a component are on the stack.           *)
(***************************************************************************)
Frame == [v : Ids, next : Nat \ {0}]
OnPath(k) == work[k].v
\* Dependency i of v has been looked at; its link has been taken, too.
Looked(v, i) == \A k \in DOMAIN work : OnPath(k) = v => i < work[k].next
Linked(v, i) == /\ Looked(v, i)
                /\ \A k \in DOMAIN work : OnPath(k) = v /\ k < Len(work) => i + 1 < work[k].next

IndexFits ==
  /\ DOMAIN index \subseteq Ids /\ DOMAIN low = DOMAIN index
  /\ \A v \in DOMAIN index :
       index[v] \in Nat /\ index[v] < Cardinality(DOMAIN index) /\ low[v] \in Nat /\ low[v] <= index[v]
  /\ \A v, w \in DOMAIN index : index[v] = index[w] => v = w
StackFits ==
  /\ stack \in Seq(Ids) /\ Range(stack) \cap UNION sccs = {}
  /\ Range(stack) \cup UNION sccs = DOMAIN index
  /\ \A i, j \in DOMAIN stack : i < j => index[stack[i]] < index[stack[j]]
PathFits ==
  /\ work \in Seq(Frame)
  /\ \A k \in DOMAIN work : OnPath(k) \in Range(stack) /\ work[k].next <= Len(deps[OnPath(k)]) + 1
  /\ \A k, l \in DOMAIN work : k < l => index[OnPath(k)] < index[OnPath(l)]
  /\ \A k \in DOMAIN work : k < Len(work) =>
       work[k].next > 1 /\ deps[OnPath(k)][work[k].next - 1] = OnPath(k + 1)
EdgesAreFound ==
  \A v \in DOMAIN index : \A i \in DOMAIN deps[v] : Looked(v, i) => deps[v][i] \in DOMAIN index

\* Links are low enough: below those that can be reached, and below each other.
LinksAreLow ==
  /\ \A v \in Range(stack) : \A i \in DOMAIN deps[v] :
       Linked(v, i) /\ deps[v][i] \in Range(stack) => low[v] <= index[deps[v][i]]
  /\ \A k \in DOMAIN work : \A x \in Range(stack) :
       index[OnPath(k)] <= index[x] /\ (k < Len(work) => index[x] < index[OnPath(k + 1)]) =>
         low[OnPath(k)] <= low[x]
\* Links are reached, what the path leads to is, and the path is reached from it.
LinksAreReached ==
  /\ \A x \in Range(stack) : \E y \in Range(stack) : index[y] = low[x] /\ Gets(x, y)
  /\ \A k \in DOMAIN work : \A x \in Range(stack) : index[OnPath(k)] <= index[x] => Gets(OnPath(k), x)
  /\ \A x \in Range(stack) : \E k \in DOMAIN work :
       index[OnPath(k)] <= index[x] /\ Gets(x, OnPath(k))
ClassesAreClosed ==
  /\ Closed(UNION sccs)
  /\ \A scc \in sccs : scc # {} /\ \A p \in scc : scc = {p} \cup {q \in Reach[p] : p \in Reach[q]}

Searching ==
  /\ IndexFits /\ StackFits /\ PathFits /\ EdgesAreFound
  /\ LinksAreLow /\ LinksAreReached /\ ClassesAreClosed
TarjanInv ==
  /\ phase \notin {"components", "cycles", "done"} =>
       index = <<>> /\ low = <<>> /\ stack = <<>> /\ work = <<>> /\ sccs = {}
  /\ phase \in {"components", "cycles", "done"} => Searching
  /\ phase \in {"cycles", "done"} => work = <<>> /\ DOMAIN index = Ids

LEMMA EdgesAre ==
  ASSUME IInv, phase # "graph", NEW p \in Ids
  PROVE  /\ deps[p] \in Seq(Ids) /\ DOMAIN deps[p] = 1 .. Len(deps[p]) /\ Len(deps[p]) \in Nat
         /\ Range(deps[p]) = needs[p] /\ needs[p] \subseteq Ids
         /\ \A i \in DOMAIN deps[p] : deps[p][i] \in needs[p]
         /\ \A i, j \in DOMAIN deps[p] : deps[p][i] = deps[p][j] => i = j
<1>1. deps[p] \in Seq(Ids)
  BY DEF IInv, Shape
<1>2. Range(deps[p]) = needs[p]
  BY GraphIsDone DEF IInv, GraphIsNeeds
<1>3. needs[p] \subseteq Ids
  BY NeedsMeans DEF IInv
<1>4. \A i, j \in DOMAIN deps[p] : deps[p][i] = deps[p][j] => i = j
  BY DEF IInv, GraphIsNeeds
<1> QED BY <1>1, <1>2, <1>3, <1>4 DEF Range

LEMMA ReachStays ==
  ASSUME doc' = doc, needs' = needs
  PROVE  /\ Reach' = Reach /\ Ids' = Ids
         /\ \A S : Closed(S)' = Closed(S) /\ \A p, q : Gets(p, q)' = Gets(p, q)
<1>1. Ids' = Ids
  BY DEF Ids
<1>2. Reach' = Reach
  BY <1>1 DEF Reach
<1> QED BY <1>1, <1>2 DEF Closed, Gets

(* The stack and the path, as numbers. *)
LEMMA SearchFacts ==
  ASSUME IInv, phase # "graph", Searching
  PROVE  /\ IsFiniteSet(DOMAIN index) /\ Cardinality(DOMAIN index) \in Nat
         /\ \A x \in Range(stack) : x \in DOMAIN index /\ x \in Ids /\ index[x] \in Nat /\ low[x] \in Nat
         /\ Len(work) \in Nat /\ DOMAIN work = 1 .. Len(work)
         /\ \A k \in DOMAIN work :
              /\ OnPath(k) \in Range(stack) /\ work[k].next \in Nat \ {0} /\ index[OnPath(k)] \in Nat
              /\ OnPath(k) \in DOMAIN index /\ OnPath(k) \in Ids
         /\ \A k, l \in DOMAIN work : k <= l => index[OnPath(k)] <= index[OnPath(l)]
         /\ \A k, l \in DOMAIN work : OnPath(k) = OnPath(l) => k = l
<1>1. IsFiniteSet(DOMAIN index) /\ Cardinality(DOMAIN index) \in Nat
  <2>1. DOMAIN index \subseteq Ids /\ IsFiniteSet(Ids)
    BY IdsAreFinite DEF IInv, Searching, IndexFits
  <2> QED BY <2>1, FS_Subset, FS_CardinalityType
<1>2. \A x \in Range(stack) : x \in DOMAIN index /\ x \in Ids /\ index[x] \in Nat /\ low[x] \in Nat
  BY DEF Searching, IndexFits, StackFits
<1>3. Len(work) \in Nat /\ DOMAIN work = 1 .. Len(work)
  BY DEF Searching, PathFits
<1>4. \A k \in DOMAIN work :
         /\ OnPath(k) \in Range(stack) /\ work[k].next \in Nat \ {0}
         /\ index[OnPath(k)] \in Nat /\ OnPath(k) \in DOMAIN index /\ OnPath(k) \in Ids
  <2>1. \A k \in DOMAIN work : OnPath(k) \in Range(stack) /\ work[k].next \in Nat \ {0}
    <3>1. \A k \in DOMAIN work : work[k] \in Frame
      <4>1. work \in Seq(Frame)
        BY DEF Searching, PathFits
      <4> QED BY <4>1
    <3>2. \A k \in DOMAIN work : OnPath(k) \in Range(stack)
      BY DEF Searching, PathFits
    <3> HIDE DEF OnPath
    <3> QED BY <3>1, <3>2 DEF Frame
  <2> QED BY <1>2, <2>1
<1>5. \A k, l \in DOMAIN work : k < l => index[OnPath(k)] < index[OnPath(l)]
  BY DEF Searching, PathFits
<1>6. \A k, l \in DOMAIN work : k <= l => index[OnPath(k)] <= index[OnPath(l)]
  <2>1. \A k, l \in DOMAIN work : k <= l => k < l \/ k = l
    BY <1>3
  <2> QED BY <1>4, <1>5, <2>1
<1>7. ASSUME NEW k \in DOMAIN work, NEW l \in DOMAIN work, OnPath(k) = OnPath(l), k # l PROVE FALSE
  <2>1. k < l \/ l < k
    BY <1>3, <1>7
  <2>2. index[OnPath(k)] < index[OnPath(l)] \/ index[OnPath(l)] < index[OnPath(k)]
    BY <1>5, <2>1
  <2> QED BY <1>4, <1>7, <2>2
<1> QED BY <1>1, <1>2, <1>3, <1>4, <1>6, <1>7

(* A parameter is found: it goes on the stack and the path (StartRoot, Descend). *)
LEMMA FoundStep ==
  ASSUME IInv, phase # "graph", Searching, NEW w \in Ids \ DOMAIN index, Found(w),
         doc' = doc, needs' = needs, deps' = deps, sccs' = sccs,
         NEW base \in Seq(Frame), Len(base) = Len(work),
         work' = Append(base, [v |-> w, next |-> 1]),
         \A k \in DOMAIN work :
           base[k].v = OnPath(k) /\ base[k].next = IF k = Len(work) THEN work[k].next + 1 ELSE work[k].next,
         work # <<>> => /\ work[Len(work)].next \in DOMAIN deps[OnPath(Len(work))]
                        /\ deps[OnPath(Len(work))][work[Len(work)].next] = w
  PROVE  Searching'
<1> DEFINE m == Len(work)
           n == Cardinality(DOMAIN index)
           F == DOMAIN index
           St == Range(stack)
<1>0. /\ IsFiniteSet(F) /\ n \in Nat /\ m \in Nat /\ DOMAIN work = 1 .. m /\ (m > 0 => m \in DOMAIN work)
      /\ \A x \in St : x \in F /\ x \in Ids /\ index[x] \in Nat /\ low[x] \in Nat
      /\ \A k \in DOMAIN work :
              /\ OnPath(k) \in St /\ work[k].next \in Nat \ {0} /\ index[OnPath(k)] \in Nat
              /\ OnPath(k) \in F /\ OnPath(k) \in Ids
      /\ \A k, l \in DOMAIN work : k <= l => index[OnPath(k)] <= index[OnPath(l)]
      /\ \A k, l \in DOMAIN work : OnPath(k) = OnPath(l) => k = l
      /\ \A x \in F : index[x] \in Nat /\ index[x] < n /\ low[x] \in Nat /\ low[x] <= index[x]
  BY SearchFacts DEF Searching, IndexFits
<1>1. /\ DOMAIN index' = F \cup {w} /\ index'[w] = n /\ \A v \in F : index'[v] = index[v]
      /\ DOMAIN low' = F \cup {w} /\ low'[w] = n /\ \A v \in F : low'[v] = low[v]
      /\ Cardinality(DOMAIN index') = n + 1
  <2>1. DOMAIN low = F
    BY DEF Searching, IndexFits
  <2>2. /\ index' = With(index, w, n) /\ low' = With(low, w, n)
    BY DEF Found
  <2>3. /\ DOMAIN index' = F \cup {w} /\ index'[w] = n /\ \A v \in F : index'[v] = index[v]
        /\ DOMAIN low' = F \cup {w} /\ low'[w] = n /\ \A v \in F : low'[v] = low[v]
    <3> HIDE DEF n
    <3> QED BY <2>1, <2>2 DEF With
  <2>4. Cardinality(F \cup {w}) = n + 1
    BY <1>0, FS_AddElement
  <2> QED BY <2>3, <2>4
<1>2. /\ stack' \in Seq(Ids) /\ Range(stack') = St \cup {w}
      /\ DOMAIN stack' = 1 .. Len(stack) + 1 /\ Len(stack) \in Nat /\ DOMAIN stack = 1 .. Len(stack)
      /\ \A i \in DOMAIN stack : stack'[i] = stack[i] /\ stack'[Len(stack) + 1] = w
  <2>1. stack \in Seq(Ids) /\ stack' = Append(stack, w) /\ w \in Ids
    BY DEF Found, Searching, StackFits
  <2>2. /\ stack' \in Seq(Ids) /\ Len(stack) \in Nat /\ DOMAIN stack = 1 .. Len(stack)
        /\ DOMAIN stack' = 1 .. Len(stack) + 1
        /\ \A i \in DOMAIN stack : stack'[i] = stack[i]
        /\ stack'[Len(stack) + 1] = w
    BY <2>1
  <2> QED BY <2>2 DEF Range
<1>3. /\ work' \in Seq(Frame) /\ DOMAIN work' = 1 .. m + 1 /\ Len(work') = m + 1
      /\ \A k \in DOMAIN work : OnPath(k)' = OnPath(k)
      /\ \A k \in DOMAIN work : work'[k].next = IF k = m THEN work[k].next + 1 ELSE work[k].next
      /\ \A k : k = m + 1 => OnPath(k)' = w /\ work'[k].next = 1
  <2> DEFINE top == [v |-> w, next |-> 1]
  <2>1. top \in Frame /\ top.v = w /\ top.next = 1
    BY DEF Frame
  <2> HIDE DEF top
  <2>2. /\ work' \in Seq(Frame) /\ DOMAIN work' = 1 .. m + 1 /\ Len(work') = m + 1
        /\ \A k \in DOMAIN work : work'[k] = base[k]
        /\ work'[m + 1] = top
    BY <1>0, <2>1 DEF top
  <2> HIDE DEF m
  <2> QED BY <1>0, <2>1, <2>2 DEF OnPath, m
<1> HIDE DEF m, n
<1>4. /\ F' = F \cup {w} /\ St' = St \cup {w} /\ w \notin F /\ w \notin St /\ w \in Ids
      /\ Ids' = Ids /\ Frame' = Frame
  <2>1. St' = Range(stack')
    BY DEF Range
  <2> QED BY <1>0, <1>1, <1>2, <2>1, ReachStays DEF Frame
<1>5. ASSUME NEW v \in F, NEW i, Looked(v, i)'
      PROVE  \A k \in DOMAIN work : OnPath(k) = v => IF k = m THEN i < work[k].next + 1 ELSE i < work[k].next
  <2>1. \A k \in DOMAIN work : k \in DOMAIN work'
    BY <1>0, <1>3
  <2> QED BY <1>3, <1>5, <2>1 DEF Looked
<1>6. ASSUME NEW v \in F, NEW i \in Nat, Linked(v, i)' PROVE Linked(v, i)
  <2>1. \A k \in DOMAIN work : k \in DOMAIN work' /\ k < Len(work')
    BY <1>0, <1>3
  <2>2. ASSUME NEW k \in DOMAIN work, OnPath(k) = v
        PROVE  i < work[k].next /\ (k < m => i + 1 < work[k].next)
    <3>1. i + 1 < work'[k].next
      BY <1>3, <1>6, <2>1, <2>2 DEF Linked
    <3> QED BY <1>0, <1>3, <2>2, <3>1
  <2> QED BY <2>2 DEF Linked, Looked, m
<1>7. IndexFits'
  <2>1. \A v \in F' : /\ index'[v] \in Nat /\ index'[v] < n + 1 /\ low'[v] \in Nat /\ low'[v] <= index'[v]
    BY <1>0, <1>1, <1>4
  <2>2. \A v, x \in F' : index'[v] = index'[x] => v = x
    <3>1. \A v, x \in F : index[v] = index[x] => v = x
      BY DEF Searching, IndexFits
    <3>2. \A v \in F : index'[v] # n
      BY <1>0, <1>1
    <3> QED BY <1>1, <1>4, <3>1, <3>2
  <2>3. F \subseteq Ids
    BY DEF Searching, IndexFits
  <2> QED BY <1>1, <1>4, <2>1, <2>2, <2>3 DEF IndexFits
<1>8. StackFits'
  <2>1. \A i, j \in DOMAIN stack' : i < j => index'[stack'[i]] < index'[stack'[j]]
    <3>1. ASSUME NEW i \in DOMAIN stack', NEW j \in DOMAIN stack', i < j
          PROVE  index'[stack'[i]] < index'[stack'[j]]
      <4>1. i \in DOMAIN stack /\ stack[i] \in St
        BY <1>2, <3>1 DEF Range
      <4>2. CASE j \in DOMAIN stack
        <5>1. index[stack[i]] < index[stack[j]] /\ stack[j] \in St
          BY <3>1, <4>1, <4>2 DEF Searching, StackFits, Range
        <5> QED BY <1>0, <1>1, <1>2, <4>1, <4>2, <5>1
      <4>3. CASE j = Len(stack) + 1
        BY <1>0, <1>1, <1>2, <4>1, <4>3
      <4> QED BY <1>2, <4>2, <4>3
    <3> QED BY <3>1
  <2>2. w \notin UNION sccs /\ St \cap UNION sccs = {} /\ St \cup UNION sccs = F
    BY <1>4 DEF Searching, StackFits
  <2> QED BY <1>1, <1>2, <1>4, <2>1, <2>2 DEF StackFits
<1>9. PathFits'
  <2>1. ASSUME NEW k \in DOMAIN work' PROVE OnPath(k)' \in Range(stack') /\ work'[k].next <= Len(deps[OnPath(k)']) + 1
    <3>1. CASE k \in DOMAIN work
      <4>1. work[k].next <= Len(deps[OnPath(k)]) + 1 /\ OnPath(k) \in Ids
        BY <1>0, <3>1 DEF Searching, PathFits
      <4>2. k = m => work[k].next <= Len(deps[OnPath(k)])
        <5>1. k = m => work # <<>> /\ work[k].next \in DOMAIN deps[OnPath(k)]
          BY <3>1 DEF m
        <5> QED BY <4>1, <5>1, EdgesAre
      <4>3. Len(deps[OnPath(k)]) \in Nat
        BY <4>1, EdgesAre
      <4>4. work'[k].next <= Len(deps[OnPath(k)]) + 1
        <5>1. work[k].next \in Nat
          BY <1>0, <3>1
        <5>2. k # m => work'[k].next = work[k].next
          BY <1>3, <3>1
        <5>3. k = m => work'[k].next = work[k].next + 1
          BY <1>3, <3>1
        <5> QED BY <4>1, <4>2, <4>3, <5>1, <5>2, <5>3
      <4>5. OnPath(k)' = OnPath(k) /\ OnPath(k) \in Range(stack')
        BY <1>0, <1>2, <1>3, <3>1
      <4> QED BY <4>4, <4>5
    <3>2. CASE k = m + 1
      BY <1>2, <1>3, <1>4, <3>2, EdgesAre
    <3> QED BY <1>0, <1>3, <3>1, <3>2
  <2>2. ASSUME NEW k \in DOMAIN work', NEW l \in DOMAIN work', k < l
        PROVE  index'[OnPath(k)'] < index'[OnPath(l)']
    <3>1. k \in DOMAIN work /\ OnPath(k) \in F
      BY <1>0, <1>3, <2>2
    <3>2. CASE l \in DOMAIN work
      <4>1. index[OnPath(k)] < index[OnPath(l)] /\ OnPath(l) \in F
        BY <1>0, <2>2, <3>1, <3>2 DEF Searching, PathFits
      <4> QED BY <1>1, <1>3, <3>1, <3>2, <4>1
    <3>3. CASE l = m + 1
      BY <1>0, <1>1, <1>3, <3>1, <3>3
    <3> QED BY <1>0, <1>3, <3>2, <3>3
  <2>3. ASSUME NEW k \in DOMAIN work', k < Len(work')
        PROVE  work'[k].next > 1 /\ deps[OnPath(k)'][work'[k].next - 1] = OnPath(k + 1)'
    <3>1. k \in DOMAIN work
      BY <1>0, <1>3, <2>3
    <3>2. CASE k = m
      <4>1. work # <<>> /\ work[m].next \in Nat \ {0} /\ work'[m].next = work[m].next + 1
        BY <1>0, <1>3, <3>1, <3>2 DEF m
      <4>2. deps[OnPath(k)][work[k].next] = w /\ OnPath(k)' = OnPath(k) /\ OnPath(k + 1)' = w
        <5>1. OnPath(k + 1)' = w
          BY <1>3, <3>2
        <5> QED BY <1>3, <3>1, <3>2, <4>1, <5>1 DEF m
      <4> QED BY <1>3, <3>2, <4>1, <4>2
    <3>3. CASE k < m
      <4>1. work[k].next > 1 /\ deps[OnPath(k)][work[k].next - 1] = OnPath(k + 1)
        BY <3>1, <3>3 DEF Searching, PathFits, m
      <4>2. k + 1 \in DOMAIN work /\ k # m
        BY <1>0, <3>1, <3>3
      <4> QED BY <1>3, <3>1, <4>1, <4>2
    <3> QED BY <1>0, <3>1, <3>2, <3>3
  <2>4. deps' = deps /\ Frame' = Frame
    BY <1>4
  <2> QED BY <1>3, <1>4, <2>1, <2>2, <2>3, <2>4 DEF PathFits
<1>10. EdgesAreFound'
  <2>1. ASSUME NEW v \in F, NEW i \in DOMAIN deps[v], Looked(v, i)' PROVE deps[v][i] \in F \cup {w}
    <3>1. v \in Ids /\ i \in Nat
      <4>1. v \in Ids
        BY DEF Searching, IndexFits
      <4> QED BY <4>1, EdgesAre
    <3>2. CASE m > 0 /\ v = OnPath(m) /\ i = work[m].next
      <4>1. work # <<>>
        BY <1>0, <3>2 DEF m
      <4> QED BY <3>2, <4>1 DEF m
    <3>3. CASE ~ (m > 0 /\ v = OnPath(m) /\ i = work[m].next)
      <4>1. ASSUME NEW k \in DOMAIN work, OnPath(k) = v PROVE i < work[k].next
        <5>1. work[k].next \in Nat /\ (k = m => m > 0)
          BY <1>0
        <5>2. IF k = m THEN i < work[k].next + 1 ELSE i < work[k].next
          BY <1>5, <2>1, <4>1
        <5> QED BY <3>1, <3>3, <4>1, <5>1, <5>2
      <4>2. Looked(v, i)
        BY <4>1 DEF Looked
      <4> QED BY <4>2 DEF Searching, EdgesAreFound
    <3> QED BY <3>2, <3>3
  <2>2. \A i \in DOMAIN deps[w] : ~ Looked(w, i)'
    <3>1. \A i \in DOMAIN deps[w] : i \in Nat /\ i >= 1
      BY <1>4, EdgesAre
    <3>2. m + 1 \in DOMAIN work'
      BY <1>0, <1>3
    <3> QED BY <1>3, <3>1, <3>2 DEF Looked
  <2> QED BY <1>1, <2>1, <2>2 DEF EdgesAreFound
<1>11. LinksAreLow'
  <2>1. ASSUME NEW v \in St, NEW i \in DOMAIN deps[v], Linked(v, i)', deps[v][i] \in St \cup {w}
        PROVE  low[v] <= index'[deps[v][i]]
    <3>1. v \in F /\ i \in Nat
      BY <1>0, EdgesAre
    <3>2. Linked(v, i) /\ Looked(v, i)
      BY <1>6, <2>1, <3>1 DEF Linked
    <3>3. deps[v][i] \in F
      BY <3>1, <3>2 DEF Searching, EdgesAreFound
    <3>4. deps[v][i] \in St
      BY <1>4, <2>1, <3>3
    <3> QED BY <1>1, <3>2, <3>3, <3>4 DEF Searching, LinksAreLow
  <2>2. \A i \in DOMAIN deps[w] : ~ Linked(w, i)'
    <3>1. \A i \in DOMAIN deps[w] : i \in Nat /\ i >= 1
      BY <1>4, EdgesAre
    <3>2. m + 1 \in DOMAIN work'
      BY <1>0, <1>3
    <3> QED BY <1>3, <3>1, <3>2 DEF Looked, Linked
  <2>3. ASSUME NEW k \in DOMAIN work', NEW x \in St \cup {w}, index'[OnPath(k)'] <= index'[x],
               k < m + 1 => index'[x] < index'[OnPath(k + 1)']
        PROVE  low'[OnPath(k)'] <= low'[x]
    <3>1. CASE k = m + 1
      <4>1. x = w
        BY <1>0, <1>1, <1>3, <2>3, <3>1
      <4> QED BY <1>1, <1>3, <1>0, <3>1, <4>1
    <3>2. CASE k \in DOMAIN work
      <4>0. k < m + 1 /\ OnPath(k) \in F /\ OnPath(k)' = OnPath(k) /\ m \in DOMAIN work
        BY <1>0, <1>3, <3>2
      <4>1. x \in St
        <5>1. CASE k = m
          BY <1>0, <1>1, <1>3, <2>3, <4>0, <5>1
        <5>2. CASE k # m
          <6>1. k + 1 \in DOMAIN work
            BY <1>0, <3>2, <5>2
          <6>2. index'[x] < index[OnPath(k + 1)] /\ index[OnPath(k + 1)] < n
            BY <1>0, <1>1, <1>3, <2>3, <4>0, <6>1
          <6>3. x # w /\ index[OnPath(k + 1)] \in Nat
            BY <1>0, <1>1, <6>1, <6>2
          <6> QED BY <6>3
        <5> QED BY <5>1, <5>2
      <4>2. k < m => index[x] < index[OnPath(k + 1)]
        <5>1. k < m => k + 1 \in DOMAIN work
          BY <1>0, <3>2
        <5> QED BY <1>0, <1>1, <1>3, <2>3, <4>0, <4>1, <5>1
      <4>3. index[OnPath(k)] <= index[x]
        BY <1>0, <1>1, <2>3, <4>0, <4>1
      <4>4. low[OnPath(k)] <= low[x]
        BY <3>2, <4>1, <4>2, <4>3 DEF Searching, LinksAreLow, m
      <4> QED BY <1>0, <1>1, <4>0, <4>1, <4>4
    <3> QED BY <1>0, <1>3, <3>1, <3>2
  <2>4. \A v \in St : low'[v] = low[v]
    BY <1>0, <1>1
  <2>5. /\ deps' = deps /\ Range(stack)' = St \cup {w} /\ Len(work)' = m + 1
        /\ \A v \in St : v # w
    BY <1>3, <1>4
  <2>6. \A v \in St \cup {w} : \A i \in DOMAIN deps[v] :
           Linked(v, i)' /\ deps[v][i] \in St \cup {w} => low'[v] <= index'[deps[v][i]]
    BY <2>1, <2>2, <2>4
  <2> HIDE DEF St
  <2> QED BY <2>3, <2>5, <2>6 DEF LinksAreLow
<1>12. LinksAreReached'
  <2>1. \A p, q : Gets(p, q)' = Gets(p, q)
    BY ReachStays
  <2>2. ASSUME NEW x \in St \cup {w} PROVE \E y \in St \cup {w} : index'[y] = low'[x] /\ Gets(x, y)
    <3>1. CASE x = w
      BY <1>1, <3>1 DEF Gets
    <3>2. CASE x \in St
      <4>1. PICK y \in St : index[y] = low[x] /\ Gets(x, y)
        BY <3>2 DEF Searching, LinksAreReached
      <4> QED BY <1>0, <1>1, <3>2, <4>1
    <3> QED BY <3>1, <3>2
  <2>3. ASSUME NEW k \in DOMAIN work', NEW x \in St \cup {w}, index'[OnPath(k)'] <= index'[x]
        PROVE  Gets(OnPath(k)', x)
    <3>1. CASE k = m + 1
      <4>1. x = w
        BY <1>0, <1>1, <1>3, <2>3, <3>1
      <4> QED BY <1>3, <3>1, <4>1 DEF Gets
    <3>2. CASE k \in DOMAIN work /\ x \in St
      <4>1. index[OnPath(k)] <= index[x]
        BY <1>0, <1>1, <1>3, <2>3, <3>2
      <4> QED BY <1>3, <3>2, <4>1 DEF Searching, LinksAreReached
    <3>3. CASE k \in DOMAIN work /\ x = w
      <4>1. m \in DOMAIN work /\ work # <<>> /\ k <= m
        BY <1>0, <3>3 DEF m
      <4>2. Gets(OnPath(k), OnPath(m))
        BY <1>0, <3>3, <4>1 DEF Searching, LinksAreReached
      <4>3. w \in needs[OnPath(m)]
        BY <1>0, <4>1, EdgesAre DEF m
      <4>4. Gets(OnPath(m), w)
        BY <1>0, <4>1, <4>3, GetsFacts DEF IInv
      <4>5. Gets(OnPath(k), w)
        BY <1>0, <1>4, <3>3, <4>1, <4>2, <4>4, GetsFacts DEF IInv
      <4> QED BY <1>3, <3>3, <4>5
    <3> QED BY <1>0, <1>3, <3>1, <3>2, <3>3
  <2>4. ASSUME NEW x \in St \cup {w}
        PROVE  \E k \in DOMAIN work' : index'[OnPath(k)'] <= index'[x] /\ Gets(x, OnPath(k)')
    <3>1. CASE x = w
      <4>1. m + 1 \in DOMAIN work'
        BY <1>0, <1>3
      <4> QED BY <1>0, <1>1, <1>3, <3>1, <4>1 DEF Gets
    <3>2. CASE x \in St
      <4>1. PICK k \in DOMAIN work : index[OnPath(k)] <= index[x] /\ Gets(x, OnPath(k))
        BY <3>2 DEF Searching, LinksAreReached
      <4>2. k \in DOMAIN work'
        BY <1>0, <1>3, <4>1
      <4> QED BY <1>0, <1>1, <1>3, <3>2, <4>1, <4>2
    <3> QED BY <3>1, <3>2
  <2>5. Range(stack)' = St \cup {w}
    BY <1>4
  <2> HIDE DEF St
  <2> QED BY <2>1, <2>2, <2>3, <2>4, <2>5 DEF LinksAreReached
<1>13. ClassesAreClosed'
  <2>1. \A S : Closed(S)' = Closed(S)
    BY ReachStays
  <2>2. Reach' = Reach
    BY ReachStays
  <2>3. ClassesAreClosed
    BY DEF Searching
  <2> QED BY <2>1, <2>2, <2>3 DEF ClassesAreClosed
<1> QED BY <1>7, <1>8, <1>9, <1>10, <1>11, <1>12, <1>13 DEF Searching

LEMMA Replaced ==
  ASSUME NEW S, NEW s \in Seq(S), NEW i \in DOMAIN s, NEW x \in S, NEW t, t = [s EXCEPT ![i] = x]
  PROVE  /\ t \in Seq(S) /\ Len(t) = Len(s) /\ DOMAIN t = DOMAIN s
         /\ t[i] = x /\ \A k \in DOMAIN s : k # i => t[k] = s[k]
<1>1. t \in Seq(S) /\ Len(t) = Len(s)
  BY ExceptSeq
<1> QED BY <1>1

(* A dependency that was found before is looked at (Descend). *)
LEMMA LookStep ==
  ASSUME IInv, phase # "graph", Searching, work # <<>>,
         doc' = doc, needs' = needs, deps' = deps, sccs' = sccs, index' = index, stack' = stack,
         NEW m \in Nat, m = Len(work), NEW v, v = OnPath(m), NEW e, e = work[m].next,
         e <= Len(deps[v]), NEW w \in DOMAIN index, w = deps[v][e],
         work' = [work EXCEPT ![m].next = @ + 1],
         IF w \in Range(stack) THEN Lower(v, index[w]) ELSE low' = low
  PROVE  Searching'
<1> DEFINE F == DOMAIN index
           St == Range(stack)
<1>0. /\ DOMAIN work = 1 .. m /\ m \in DOMAIN work
      /\ \A x \in St : x \in F /\ x \in Ids /\ index[x] \in Nat /\ low[x] \in Nat
      /\ \A k \in DOMAIN work :
              /\ OnPath(k) \in St /\ work[k].next \in Nat \ {0} /\ index[OnPath(k)] \in Nat
              /\ OnPath(k) \in F /\ OnPath(k) \in Ids
      /\ \A k, l \in DOMAIN work : k <= l => index[OnPath(k)] <= index[OnPath(l)]
      /\ \A k, l \in DOMAIN work : OnPath(k) = OnPath(l) => k = l
      /\ \A x \in F : x \in Ids /\ index[x] \in Nat /\ low[x] \in Nat /\ low[x] <= index[x]
      /\ DOMAIN low = F
  <2>1. m # 0
    BY DEF Searching, PathFits
  <2>2. DOMAIN work = 1 .. m
    BY SearchFacts
  <2> QED BY <2>1, <2>2, SearchFacts DEF Searching, IndexFits
<1>1. /\ v \in St /\ v \in F /\ v \in Ids /\ e \in Nat \ {0} /\ e \in DOMAIN deps[v]
      /\ Len(deps[v]) \in Nat
  <2>1. v \in St /\ v \in F /\ v \in Ids /\ e \in Nat \ {0}
    BY <1>0
  <2> QED BY <2>1, EdgesAre
<1>2. /\ work' \in Seq(Frame) /\ DOMAIN work' = 1 .. m /\ Len(work') = m
      /\ \A k \in DOMAIN work : OnPath(k)' = OnPath(k)
      /\ \A k \in DOMAIN work : work'[k].next = IF k = m THEN e + 1 ELSE work[k].next
  <2>1. work \in Seq(Frame)
    BY DEF Searching, PathFits
  <2>2. work[m] \in Frame
    BY <1>0, <2>1
  <2> DEFINE t == [work[m] EXCEPT !.next = @ + 1]
  <2>3. t \in Frame /\ t.v = v /\ t.next = e + 1
    BY <2>2 DEF Frame, OnPath
  <2>4. work' = [work EXCEPT ![m] = t]
    OBVIOUS
  <2> HIDE DEF t
  <2>5. /\ work' \in Seq(Frame) /\ DOMAIN work' = 1 .. m /\ Len(work') = m
        /\ work'[m] = t /\ \A k \in DOMAIN work : k # m => work'[k] = work[k]
    <3>1. m \in DOMAIN work /\ t \in Frame
      BY <1>0, <2>3
    <3>2. /\ work' \in Seq(Frame) /\ Len(work') = Len(work) /\ DOMAIN work' = DOMAIN work
          /\ work'[m] = t /\ \A k \in DOMAIN work : k # m => work'[k] = work[k]
      BY ONLY <2>1, <2>4, <3>1, Replaced
    <3> QED BY <1>0, <3>2
  <2> QED BY <1>0, <2>3, <2>5 DEF OnPath
<1>3. /\ DOMAIN low' = F /\ low'[v] <= low[v] /\ \A x \in F : x # v => low'[x] = low[x]
      /\ \A x \in F : low'[x] \in Nat /\ low'[x] <= low[x]
      /\ w \in St => low'[v] <= index[w]
      /\ low'[v] = low[v] \/ (w \in St /\ low'[v] = index[w])
  <2>1. CASE w \in St
    <3>1. low' = [low EXCEPT ![v] = IF index[w] < low[v] THEN index[w] ELSE low[v]]
      BY <2>1 DEF Lower
    <3>2. index[w] \in Nat /\ low[v] \in Nat
      BY <1>0, <1>1
    <3>3. /\ DOMAIN low' = F /\ low'[v] = IF index[w] < low[v] THEN index[w] ELSE low[v]
          /\ \A x \in F : x # v => low'[x] = low[x]
      BY <1>0, <1>1, <3>1
    <3>4. /\ low'[v] \in Nat /\ low'[v] <= low[v] /\ low'[v] <= index[w]
          /\ low'[v] = low[v] \/ low'[v] = index[w]
      <4>1. CASE index[w] < low[v]
        BY <3>2, <3>3, <4>1
      <4>2. CASE ~ (index[w] < low[v])
        BY <3>2, <3>3, <4>2
      <4> QED BY <4>1, <4>2
    <3>5. \A x \in F : low'[x] \in Nat /\ low'[x] <= low[x]
      <4>1. \A x \in F : x # v => low'[x] = low[x] /\ low[x] <= low[x]
        BY <1>0, <3>3
      <4> QED BY <1>0, <3>4, <4>1
    <3> HIDE DEF F, St
    <3> QED BY <2>1, <3>3, <3>4, <3>5
  <2>2. CASE w \notin St
    BY <1>0, <1>1, <2>2
  <2> QED BY <2>1, <2>2
<1>4. F' = F /\ St' = St /\ Ids' = Ids /\ Frame' = Frame
  <2>1. Ids' = Ids
    BY ReachStays
  <2> QED BY <2>1 DEF Range, Frame
<1>5. ASSUME NEW x \in F, NEW i \in Nat, Looked(x, i)' PROVE Looked(x, i) \/ (x = v /\ i = e)
  <2>1. \A k \in DOMAIN work : OnPath(k) = x => IF k = m THEN i < e + 1 ELSE i < work[k].next
    BY <1>0, <1>2, <1>5 DEF Looked
  <2>2. ASSUME ~ (x = v /\ i = e), NEW k \in DOMAIN work, OnPath(k) = x PROVE i < work[k].next
    <3>1. CASE k = m
      BY <1>1, <2>1, <2>2, <3>1
    <3>2. CASE k # m
      BY <2>1, <2>2, <3>2
    <3> QED BY <3>1, <3>2
  <2> QED BY <2>2 DEF Looked
<1>6. ASSUME NEW x \in F, NEW i \in Nat, Linked(x, i)' PROVE Linked(x, i) \/ (x = v /\ i = e)
  <2>1. Looked(x, i) \/ (x = v /\ i = e)
    BY <1>5, <1>6 DEF Linked
  <2>2. \A k \in DOMAIN work : OnPath(k) = x /\ k < m => i + 1 < work[k].next
    <3>1. ASSUME NEW k \in DOMAIN work, OnPath(k) = x, k < m PROVE i + 1 < work[k].next
      <4>1. k \in DOMAIN work' /\ k < Len(work') /\ OnPath(k)' = x
        BY <1>0, <1>2, <3>1
      <4>2. i + 1 < work'[k].next
        BY <1>6, <4>1 DEF Linked
      <4> QED BY <1>0, <1>2, <3>1, <4>2
    <3> QED BY <3>1
  <2> QED BY <2>1, <2>2 DEF Linked
<1>7. IndexFits'
  <2>1. \A x \in F : low'[x] \in Nat /\ low'[x] <= index[x]
    BY <1>0, <1>3
  <2>2. IndexFits
    BY DEF Searching
  <2> QED BY <1>3, <1>4, <2>1, <2>2 DEF IndexFits
<1>8. StackFits'
  <2>1. StackFits
    BY DEF Searching
  <2> QED BY <1>4, <2>1 DEF StackFits
<1>9. PathFits'
  <2>1. \A k \in DOMAIN work : work[k].next <= Len(deps[OnPath(k)]) + 1
    BY DEF Searching, PathFits
  <2>2. \A k \in DOMAIN work : work'[k].next <= Len(deps[OnPath(k)]) + 1
    <3>1. \A k \in DOMAIN work : k = m => work'[k].next = e + 1 /\ OnPath(k) = v
      BY <1>2
    <3>2. \A k \in DOMAIN work : k # m => work'[k].next = work[k].next
      BY <1>2
    <3> QED BY <1>1, <2>1, <3>1, <3>2
  <2>3. ASSUME NEW k \in DOMAIN work, k < m
        PROVE  work'[k].next > 1 /\ deps[OnPath(k)][work'[k].next - 1] = OnPath(k + 1)'
    <3>1. work[k].next > 1 /\ deps[OnPath(k)][work[k].next - 1] = OnPath(k + 1)
      BY <2>3 DEF Searching, PathFits
    <3>2. work'[k].next = work[k].next /\ OnPath(k + 1)' = OnPath(k + 1)
      BY <1>0, <1>2, <2>3
    <3> QED BY <3>1, <3>2
  <2>4. \A k, l \in DOMAIN work : k < l => index[OnPath(k)] < index[OnPath(l)]
    BY DEF Searching, PathFits
  <2>5. \A k \in DOMAIN work' : k \in DOMAIN work
    BY <1>0, <1>2
  <2>6. \A k \in DOMAIN work : OnPath(k)' \in St /\ work'[k].next <= Len(deps[OnPath(k)']) + 1
    BY <1>0, <1>2, <2>2
  <2>7. \A k, l \in DOMAIN work : k < l => index[OnPath(k)'] < index[OnPath(l)']
    BY <1>2, <2>4
  <2>8. \A k \in DOMAIN work : k < m => work'[k].next > 1 /\ deps[OnPath(k)'][work'[k].next - 1] = OnPath(k + 1)'
    BY <1>2, <2>3
  <2>9. Range(stack)' = St
    BY <1>4
  <2> HIDE DEF St
  <2> QED BY <1>2, <1>4, <2>5, <2>6, <2>7, <2>8, <2>9 DEF PathFits
<1>10. EdgesAreFound'
  <2>1. ASSUME NEW x \in F, NEW i \in DOMAIN deps[x], Looked(x, i)' PROVE deps[x][i] \in F
    <3>1. x \in Ids /\ i \in Nat
      BY <1>0, EdgesAre
    <3>2. Looked(x, i) => deps[x][i] \in F
      BY DEF Searching, EdgesAreFound
    <3> QED BY <1>5, <2>1, <3>1, <3>2
  <2> QED BY <1>4, <2>1 DEF EdgesAreFound
<1>11. LinksAreLow'
  <2>1. ASSUME NEW x \in St, NEW i \in DOMAIN deps[x], Linked(x, i)', deps[x][i] \in St
        PROVE  low'[x] <= index[deps[x][i]]
    <3>1. x \in F /\ x \in Ids /\ i \in Nat
      BY <1>0, EdgesAre
    <3>2. CASE Linked(x, i)
      <4>1. low[x] <= index[deps[x][i]] /\ index[deps[x][i]] \in Nat
        BY <1>0, <2>1, <3>2 DEF Searching, LinksAreLow
      <4> QED BY <1>0, <1>3, <3>1, <4>1
    <3>3. CASE x = v /\ i = e
      BY <1>3, <2>1, <3>3
    <3> QED BY <1>6, <2>1, <3>1, <3>2, <3>3
  <2>2. ASSUME NEW k \in DOMAIN work, NEW x \in St, index[OnPath(k)] <= index[x],
               k < m => index[x] < index[OnPath(k + 1)]
        PROVE  low'[OnPath(k)] <= low'[x]
    <3>1. low[OnPath(k)] <= low[x]
      BY <2>2 DEF Searching, LinksAreLow
    <3>2. CASE x = v
      <4>1. k = m
        <5>1. k < m => k + 1 \in DOMAIN work /\ k + 1 <= m
          BY <1>0
        <5>2. k < m => index[OnPath(k + 1)] <= index[v] /\ index[OnPath(k + 1)] \in Nat
          BY <1>0, <5>1
        <5> QED BY <1>0, <2>2, <3>2, <5>2
      <4> QED BY <1>0, <1>3, <3>2, <4>1
    <3>3. CASE x # v
      BY <1>0, <1>3, <3>1, <3>3
    <3> QED BY <3>2, <3>3
  <2>3. \A k \in DOMAIN work' : k \in DOMAIN work /\ OnPath(k)' = OnPath(k)
    BY <1>0, <1>2
  <2>4. \A k \in DOMAIN work' : k < m => OnPath(k + 1)' = OnPath(k + 1)
    <3>1. \A k \in DOMAIN work' : k < m => k + 1 \in DOMAIN work
      BY <1>0, <1>2
    <3> QED BY <1>2, <3>1
  <2>5. Range(stack)' = St /\ Len(work)' = m
    BY <1>2, <1>4
  <2> HIDE DEF St
  <2> QED BY <2>1, <2>2, <2>3, <2>4, <2>5 DEF LinksAreLow
<1>12. LinksAreReached'
  <2>1. \A p, q : Gets(p, q)' = Gets(p, q)
    BY ReachStays
  <2>2. ASSUME NEW x \in St PROVE \E y \in St : index[y] = low'[x] /\ Gets(x, y)
    <3>1. PICK y \in St : index[y] = low[x] /\ Gets(x, y)
      BY DEF Searching, LinksAreReached
    <3>2. CASE low'[x] = low[x]
      BY <3>1, <3>2
    <3>3. CASE low'[x] # low[x]
      <4>1. x = v /\ w \in St /\ low'[v] = index[w]
        BY <1>0, <1>3, <3>3
      <4>2. w \in needs[v]
        BY <1>1, EdgesAre
      <4>3. Gets(v, w)
        BY <1>1, <4>2, GetsFacts DEF IInv
      <4> QED BY <4>1, <4>3
    <3> QED BY <3>2, <3>3
  <2>3. \A k \in DOMAIN work' : k \in DOMAIN work /\ OnPath(k)' = OnPath(k)
    BY <1>0, <1>2
  <2>4. /\ Range(stack)' = St /\ DOMAIN work' = DOMAIN work
        /\ \A k \in DOMAIN work : \A x \in St : index[OnPath(k)] <= index[x] => Gets(OnPath(k), x)
        /\ \A x \in St : \E k \in DOMAIN work : index[OnPath(k)] <= index[x] /\ Gets(x, OnPath(k))
    BY <1>0, <1>2, <1>4 DEF Searching, LinksAreReached
  <2>5. \A k \in DOMAIN work' : \A x \in St : index'[OnPath(k)'] <= index'[x] => Gets(OnPath(k)', x)
    BY <2>3, <2>4
  <2>6. \A x \in St : \E k \in DOMAIN work' : index'[OnPath(k)'] <= index'[x] /\ Gets(x, OnPath(k)')
    BY <2>3, <2>4
  <2> HIDE DEF St
  <2> QED BY <2>1, <2>2, <2>4, <2>5, <2>6 DEF LinksAreReached
<1>13. ClassesAreClosed'
  <2>1. \A S : Closed(S)' = Closed(S)
    BY ReachStays
  <2>2. Reach' = Reach
    BY ReachStays
  <2>3. ClassesAreClosed
    BY DEF Searching
  <2> QED BY <2>1, <2>2, <2>3 DEF ClassesAreClosed
<1> QED BY <1>7, <1>8, <1>9, <1>10, <1>11, <1>12, <1>13 DEF Searching

LEMMA PrefixIs ==
  ASSUME NEW S, NEW s \in Seq(S), NEW n \in 0 .. Len(s)
  PROVE  /\ SubSeq(s, 1, n) \in Seq(S) /\ Len(SubSeq(s, 1, n)) = n /\ DOMAIN SubSeq(s, 1, n) = 1 .. n
         /\ \A i \in 1 .. n : i \in DOMAIN s /\ SubSeq(s, 1, n)[i] = s[i]
<1>1. n \in Int /\ 1 \in Int /\ \A i \in 1 .. n : i \in DOMAIN s /\ s[i] \in S
  OBVIOUS
<1>2. /\ SubSeq(s, 1, n) \in Seq(S) /\ Len(SubSeq(s, 1, n)) = n
      /\ \A i \in 1 .. n : SubSeq(s, 1, n)[i] = s[i]
  BY <1>1, SubSeqProperties
<1> QED BY <1>1, <1>2

LEMMA FrontIs ==
  ASSUME NEW S, NEW s \in Seq(S), s # <<>>
  PROVE  /\ Front(s) \in Seq(S) /\ Len(Front(s)) = Len(s) - 1 /\ DOMAIN Front(s) = 1 .. Len(s) - 1
         /\ \A i \in 1 .. Len(s) - 1 : Front(s)[i] = s[i]
         /\ Len(s) \in Nat \ {0} /\ DOMAIN s = 1 .. Len(s)
<1>1. Len(s) \in Nat /\ DOMAIN s = 1 .. Len(s) /\ Len(s) # 0
  BY EmptySeq
<1>2. Len(s) - 1 \in 0 .. Len(s)
  BY <1>1
<1> QED BY <1>1, <1>2, PrefixIs DEF Front

(* A parameter all of whose dependencies were looked at leaves the path: what is
   common to both cases of Return. *)
LEMMA ReturnFacts ==
  ASSUME IInv, phase # "graph", Searching, work # <<>>,
         NEW m, m = Len(work), NEW v, v = OnPath(m), work[m].next > Len(deps[v]), work' = Front(work)
  PROVE  /\ m \in Nat \ {0} /\ DOMAIN work = 1 .. m /\ m \in DOMAIN work
         /\ work' \in Seq(Frame) /\ DOMAIN work' = 1 .. m - 1 /\ Len(work') = m - 1
         /\ \A k \in 1 .. m - 1 : k \in DOMAIN work /\ work'[k].next = work[k].next /\ OnPath(k)' = OnPath(k)
         /\ \A x \in Range(stack) :
              x \in DOMAIN index /\ x \in Ids /\ index[x] \in Nat /\ low[x] \in Nat /\ low[x] <= index[x]
         /\ \A k \in DOMAIN work :
              /\ OnPath(k) \in Range(stack) /\ work[k].next \in Nat \ {0} /\ index[OnPath(k)] \in Nat
              /\ OnPath(k) \in DOMAIN index /\ OnPath(k) \in Ids
              /\ k # m => index[OnPath(k)] < index[v]
         /\ \A k, l \in DOMAIN work : k <= l => index[OnPath(k)] <= index[OnPath(l)]
         /\ \A k, l \in DOMAIN work : OnPath(k) = OnPath(l) => k = l
         /\ \A x, i : Looked(x, i)' => Looked(x, i) \/ x = v
         /\ \A i \in DOMAIN deps[v] : Linked(v, i)
         /\ \A x, i : Linked(x, i)' =>
              Linked(x, i) \/ x = v \/ (m > 1 /\ x = OnPath(m - 1) /\ ~ (i + 1 < work[m - 1].next)
                                              /\ i < work[m - 1].next)
         /\ v \in Range(stack) /\ \A x \in Range(stack) : index[v] <= index[x] => low[v] <= low[x]
<1>1. /\ m \in Nat \ {0} /\ DOMAIN work = 1 .. m /\ m \in DOMAIN work
      /\ work' \in Seq(Frame) /\ DOMAIN work' = 1 .. m - 1 /\ Len(work') = m - 1
      /\ \A k \in 1 .. m - 1 : k \in DOMAIN work /\ work'[k] = work[k]
  <2>1. work \in Seq(Frame)
    BY DEF Searching, PathFits
  <2> QED BY <2>1, FrontIs
<1>2. \A k \in 1 .. m - 1 : k \in DOMAIN work /\ work'[k].next = work[k].next /\ OnPath(k)' = OnPath(k)
  BY <1>1 DEF OnPath
<1>3. \A x \in Range(stack) :
        x \in DOMAIN index /\ x \in Ids /\ index[x] \in Nat /\ low[x] \in Nat /\ low[x] <= index[x]
  <2>1. \A x \in DOMAIN index : low[x] <= index[x]
    BY DEF Searching, IndexFits
  <2> QED BY <2>1, SearchFacts
<1>4. /\ \A k \in DOMAIN work :
           /\ OnPath(k) \in Range(stack) /\ work[k].next \in Nat \ {0} /\ index[OnPath(k)] \in Nat
           /\ OnPath(k) \in DOMAIN index /\ OnPath(k) \in Ids
      /\ \A k, l \in DOMAIN work : k <= l => index[OnPath(k)] <= index[OnPath(l)]
      /\ \A k, l \in DOMAIN work : OnPath(k) = OnPath(l) => k = l
  BY SearchFacts
<1>5. \A k \in DOMAIN work : k # m => index[OnPath(k)] < index[v]
  <2>1. \A k \in DOMAIN work : k # m => k < m
    BY <1>1
  <2> QED BY <1>1, <2>1 DEF Searching, PathFits
<1>6. ASSUME NEW x, NEW i, Looked(x, i)' PROVE Looked(x, i) \/ x = v
  <2>1. ASSUME x # v, NEW k \in DOMAIN work, OnPath(k) = x PROVE i < work[k].next
    <3>1. k # m
      BY <2>1
    <3>2. k \in 1 .. m - 1 /\ k \in DOMAIN work'
      BY <1>1, <2>1, <3>1
    <3> QED BY <1>2, <1>6, <2>1, <3>2 DEF Looked
  <2> QED BY <2>1 DEF Looked
<1>7. \A i \in DOMAIN deps[v] : Linked(v, i)
  <2>1. \A k \in DOMAIN work : OnPath(k) = v => k = m
    BY <1>1, <1>4
  <2>2. \A i \in DOMAIN deps[v] : i < work[m].next
    <3>1. v \in Ids
      BY <1>1, <1>4
    <3>2. \A i \in DOMAIN deps[v] : i \in Nat /\ i <= Len(deps[v]) /\ Len(deps[v]) \in Nat
      BY <3>1, EdgesAre
    <3> QED BY <1>1, <1>4, <3>2
  <2> QED BY <1>1, <2>1, <2>2 DEF Linked, Looked
<1>8. ASSUME NEW x, NEW i, Linked(x, i)'
      PROVE  Linked(x, i) \/ x = v
             \/ (m > 1 /\ x = OnPath(m - 1) /\ ~ (i + 1 < work[m - 1].next) /\ i < work[m - 1].next)
  <2>1. CASE m > 1 /\ x = OnPath(m - 1)
    <3>1. m - 1 \in 1 .. m - 1 /\ m - 1 \in DOMAIN work'
      BY <1>1, <2>1
    <3>2. i < work[m - 1].next
      BY <1>2, <1>8, <2>1, <3>1 DEF Linked, Looked
    <3>3. \A k \in DOMAIN work : OnPath(k) = x => k = m - 1
      BY <1>2, <1>4, <2>1, <3>1
    <3> QED BY <1>1, <2>1, <3>2, <3>3 DEF Linked, Looked
  <2>2. CASE ~ (m > 1 /\ x = OnPath(m - 1))
    <3>1. ASSUME x # v, NEW k \in DOMAIN work, OnPath(k) = x PROVE i < work[k].next /\ i + 1 < work[k].next
      <4>1. k # m
        BY <3>1
      <4>2. k # m - 1
        BY <1>1, <2>2, <3>1, <4>1
      <4>3. k \in 1 .. m - 1 /\ k \in DOMAIN work' /\ k < Len(work')
        BY <1>1, <3>1, <4>1, <4>2
      <4> QED BY <1>2, <1>8, <3>1, <4>3 DEF Linked, Looked
    <3> QED BY <3>1 DEF Linked, Looked
  <2> QED BY <2>1, <2>2
<1>9. v \in Range(stack) /\ \A x \in Range(stack) : index[v] <= index[x] => low[v] <= low[x]
  <2>1. v \in Range(stack)
    BY <1>1, <1>4
  <2> QED BY <1>1, <2>1 DEF Searching, LinksAreLow
<1> QED BY <1>1, <1>2, <1>3, <1>4, <1>5, <1>6, <1>7, <1>8, <1>9

(* A parameter that reaches none before it closes a component. *)
From(at) == {stack[i] : i \in at .. Len(stack)}
LEMMA CloseStep ==
  ASSUME IInv, phase # "graph", Searching, work # <<>>,
         doc' = doc, needs' = needs, deps' = deps, index' = index,
         NEW m, m = Len(work), NEW v, v = OnPath(m), work[m].next > Len(deps[v]), work' = Front(work),
         low[v] = index[v],
         low' = IF m > 1 THEN [low EXCEPT ![OnPath(m - 1)] = LowOnReturn(v)] ELSE low,
         NEW at, at = (CHOOSE i \in DOMAIN stack : stack[i] = v),
         sccs' = sccs \cup {From(at)},
         stack' = SubSeq(stack, 1, at - 1)
  PROVE  Searching'
<1> DEFINE F == DOMAIN index
           St == Range(stack)
           C == {x \in St : index[v] <= index[x]}
           Below == {x \in St : index[x] < index[v]}
<1>0. /\ m \in Nat \ {0} /\ DOMAIN work = 1 .. m /\ m \in DOMAIN work
      /\ work' \in Seq(Frame) /\ DOMAIN work' = 1 .. m - 1 /\ Len(work') = m - 1
      /\ \A k \in 1 .. m - 1 : k \in DOMAIN work /\ work'[k].next = work[k].next /\ OnPath(k)' = OnPath(k)
      /\ \A x \in St : x \in F /\ x \in Ids /\ index[x] \in Nat /\ low[x] \in Nat /\ low[x] <= index[x]
      /\ \A k \in DOMAIN work :
              /\ OnPath(k) \in St /\ work[k].next \in Nat \ {0} /\ index[OnPath(k)] \in Nat
              /\ OnPath(k) \in F /\ OnPath(k) \in Ids
              /\ k # m => index[OnPath(k)] < index[v]
      /\ \A k, l \in DOMAIN work : k <= l => index[OnPath(k)] <= index[OnPath(l)]
      /\ \A k, l \in DOMAIN work : OnPath(k) = OnPath(l) => k = l
      /\ v \in St
  BY ReturnFacts
<1>1. \A x, i : Looked(x, i)' => Looked(x, i) \/ x = v
  BY ReturnFacts
<1>2. /\ \A i \in DOMAIN deps[v] : Linked(v, i)
      /\ \A x, i : Linked(x, i)' =>
           Linked(x, i) \/ x = v \/ (m > 1 /\ x = OnPath(m - 1) /\ ~ (i + 1 < work[m - 1].next)
                                           /\ i < work[m - 1].next)
  BY ReturnFacts
<1>3. \A x \in C : low[v] <= low[x]
  BY ReturnFacts
<1>4. DOMAIN low' = F /\ \A x \in F : low'[x] = low[x]
  <2>1. DOMAIN low = F
    BY DEF Searching, IndexFits
  <2>2. CASE m > 1
    <3> DEFINE u == OnPath(m - 1)
    <3>1. u \in St /\ index[u] < index[v] /\ u \in F
      BY <1>0, <2>2
    <3>2. low[u] \in Nat /\ low[v] \in Nat /\ ~ (low[v] < low[u])
      BY <1>0, <3>1
    <3>3. LowOnReturn(v) = low[u]
      BY <3>2 DEF LowOnReturn, OnPath
    <3> HIDE DEF u
    <3>4. low' = [low EXCEPT ![u] = low[u]]
      BY <2>2, <3>3 DEF u
    <3> QED BY <2>1, <3>4
  <2>3. CASE ~ (m > 1)
    BY <2>1, <2>3
  <2> QED BY <2>2, <2>3
<1>5. /\ stack' \in Seq(Ids) /\ Range(stack') = Below /\ From(at) = C
      /\ \A i \in DOMAIN stack' : i \in DOMAIN stack /\ stack'[i] = stack[i]
  <2>1. /\ stack \in Seq(Ids) /\ Len(stack) \in Nat /\ DOMAIN stack = 1 .. Len(stack)
        /\ \A i, j \in DOMAIN stack : i < j => index[stack[i]] < index[stack[j]]
    BY DEF Searching, StackFits
  <2>2. at \in DOMAIN stack /\ stack[at] = v
    <3>1. \E i \in DOMAIN stack : stack[i] = v
      BY <1>0 DEF Range
    <3> QED BY <3>1
  <2>3. /\ stack' \in Seq(Ids) /\ DOMAIN stack' = 1 .. at - 1
        /\ \A i \in 1 .. at - 1 : i \in DOMAIN stack /\ stack'[i] = stack[i]
    <3>1. 1 <= at /\ at <= Len(stack) /\ at \in Nat
      BY <2>1, <2>2
    <3>2. at - 1 \in 0 .. Len(stack)
      BY <2>1, <3>1
    <3> QED BY <2>1, <3>2, PrefixIs
  <2>4. \A i \in DOMAIN stack : (i < at <=> index[stack[i]] < index[v]) /\ (i >= at <=> index[v] <= index[stack[i]])
    <3>1. ASSUME NEW i \in DOMAIN stack
          PROVE  (i < at => index[stack[i]] < index[v]) /\ (i >= at => index[v] <= index[stack[i]])
      <4>1. i < at => index[stack[i]] < index[v]
        BY <2>1, <2>2
      <4>2. i > at => index[v] < index[stack[i]]
        BY <2>1, <2>2
      <4>3. index[v] \in Nat /\ index[stack[i]] \in Nat
        BY <1>0 DEF Range
      <4> QED BY <2>1, <2>2, <4>1, <4>2, <4>3
    <3>2. \A i \in DOMAIN stack : index[v] \in Nat /\ index[stack[i]] \in Nat
      BY <1>0 DEF Range
    <3> QED BY <2>1, <2>2, <3>1, <3>2
  <2>5. Range(stack') = Below
    <3>0. \A i \in DOMAIN stack : (i < at <=> i \in 1 .. at - 1)
      BY <2>1, <2>2
    <3>1. ASSUME NEW x \in Below PROVE \E i \in 1 .. at - 1 : stack[i] = x
      <4>1. PICK i \in DOMAIN stack : stack[i] = x
        BY DEF Range
      <4>2. index[stack[i]] < index[v]
        BY <3>1, <4>1
      <4> QED BY <2>4, <3>0, <4>1, <4>2
    <3>2. ASSUME NEW i \in 1 .. at - 1 PROVE stack[i] \in Below
      <4>1. i \in DOMAIN stack /\ i < at
        BY <2>3, <3>0
      <4>2. stack[i] \in St
        BY <4>1 DEF Range
      <4> QED BY <2>4, <4>1, <4>2
    <3> HIDE DEF Below
    <3>3. ASSUME NEW x \in Below PROVE \E i \in DOMAIN stack' : stack'[i] = x
      <4>1. PICK i \in 1 .. at - 1 : stack[i] = x
        BY <3>1
      <4> QED BY ONLY <2>3, <4>1
    <3>4. \A i \in DOMAIN stack' : stack'[i] \in Below
      BY <2>3, <3>2
    <3>5. \A x : x \in Below <=> \E i \in DOMAIN stack' : stack'[i] = x
      BY ONLY <3>3, <3>4
    <3>6. Range(stack') = {stack'[i] : i \in DOMAIN stack'}
      BY DEF Range
    <3> QED BY ONLY <3>5, <3>6
  <2>6. From(at) = C
    <3>1. ASSUME NEW x \in C PROVE \E i \in at .. Len(stack) : stack[i] = x
      <4>1. PICK i \in DOMAIN stack : stack[i] = x
        BY DEF Range
      <4>2. index[v] <= index[stack[i]]
        BY <3>1, <4>1
      <4>3. i >= at
        BY <2>4, <4>1, <4>2
      <4>4. i \in at .. Len(stack)
        BY <2>1, <2>2, <4>3
      <4> QED BY <4>1, <4>4
    <3>2. ASSUME NEW i \in at .. Len(stack) PROVE stack[i] \in C
      <4>1. i \in DOMAIN stack /\ i >= at
        BY <2>1, <2>2
      <4>2. stack[i] \in St
        BY <4>1 DEF Range
      <4> QED BY <2>4, <4>1, <4>2
    <3> HIDE DEF C
    <3> QED BY ONLY <3>1, <3>2 DEF From
  <2> QED BY <2>3, <2>5, <2>6
<1>6. /\ F' = F /\ Ids' = Ids /\ Frame' = Frame /\ Reach' = Reach /\ sccs' = sccs \cup {C}
      /\ Range(stack)' = Below /\ C \cup Below = St /\ C \cap Below = {}
      /\ UNION sccs' = C \cup UNION sccs
      /\ St \cap UNION sccs = {} /\ St \cup UNION sccs = F
  <2>1. Range(stack)' = Range(stack')
    BY DEF Range
  <2>2. C \cup Below = St /\ C \cap Below = {}
    BY <1>0
  <2>3. St \cap UNION sccs = {} /\ St \cup UNION sccs = F
    BY DEF Searching, StackFits
  <2>4. Ids' = Ids /\ Reach' = Reach
    BY ReachStays
  <2>5. sccs' = sccs \cup {C}
    BY <1>5
  <2>6. UNION sccs' = C \cup UNION sccs
    <3> HIDE DEF C
    <3>1. \A x : x \in UNION sccs' <=> \E c \in sccs \cup {C} : x \in c
      BY <2>5
    <3>2. \A x : (\E c \in sccs \cup {C} : x \in c) <=> (\E c \in sccs : x \in c) \/ x \in C
      OBVIOUS
    <3> QED BY <3>1, <3>2
  <2> QED BY <1>5, <2>1, <2>2, <2>3, <2>4, <2>5, <2>6 DEF Frame
<1>6a. (\A S : Closed(S)' = Closed(S)) /\ \A p, q : Gets(p, q)' = Gets(p, q)
  BY ReachStays
<1> HIDE DEF C, Below
<1>6b. /\ DOMAIN work = 1 .. m /\ \A k \in 1 .. m - 1 : k \in DOMAIN work /\ OnPath(k)' = OnPath(k)
       /\ \A k \in 1 .. m - 1 : work'[k].next = work[k].next
  BY <1>0
<1>7. \A k \in 1 .. m - 1 : OnPath(k) \in Below
  <2>1. \A k \in 1 .. m - 1 : k \in DOMAIN work /\ k # m
    BY <1>0
  <2> QED BY <1>0, <2>1 DEF Below
<1>8. IndexFits'
  <2>1. IndexFits
    BY DEF Searching
  <2>2. \A x \in F : low'[x] \in Nat /\ low'[x] <= index[x]
    BY <1>4, <2>1 DEF IndexFits
  <2> QED BY <1>4, <1>6, <2>1, <2>2 DEF IndexFits
<1>9. StackFits'
  <2>1. \A i, j \in DOMAIN stack : i < j => index[stack[i]] < index[stack[j]]
    BY DEF Searching, StackFits
  <2>2. \A i, j \in DOMAIN stack' : i < j => index[stack'[i]] < index[stack'[j]]
    BY <1>5, <2>1
  <2>3. Below \cap UNION sccs' = {} /\ Below \cup UNION sccs' = F
    BY <1>6
  <2> QED BY <1>5, <1>6, <2>2, <2>3 DEF StackFits
<1>10. PathFits'
  <2>1. /\ \A k \in DOMAIN work : work[k].next <= Len(deps[OnPath(k)]) + 1
        /\ \A k, l \in DOMAIN work : k < l => index[OnPath(k)] < index[OnPath(l)]
        /\ \A k \in DOMAIN work : k < m =>
             work[k].next > 1 /\ deps[OnPath(k)][work[k].next - 1] = OnPath(k + 1)
    BY DEF Searching, PathFits
  <2>2. \A k \in 1 .. m - 1 : OnPath(k)' \in Below /\ work'[k].next <= Len(deps[OnPath(k)']) + 1
    BY <1>6b, <1>7, <2>1
  <2>3. \A k, l \in 1 .. m - 1 : k < l => index[OnPath(k)'] < index[OnPath(l)']
    BY <1>6b, <2>1
  <2>4. ASSUME NEW k \in 1 .. m - 1, k < m - 1
        PROVE  work'[k].next > 1 /\ deps[OnPath(k)'][work'[k].next - 1] = OnPath(k + 1)'
    <3>1. k + 1 \in 1 .. m - 1 /\ k < m
      BY <1>0, <2>4
    <3>2. work[k].next > 1 /\ deps[OnPath(k)][work[k].next - 1] = OnPath(k + 1)
      BY <1>0, <2>1, <3>1
    <3> QED BY <1>0, <3>1, <3>2
  <2>5. \A k \in 1 .. m - 1 : k < m - 1 =>
          work'[k].next > 1 /\ deps[OnPath(k)'][work'[k].next - 1] = OnPath(k + 1)'
    BY <2>4
  <2>6. work' \in Seq(Frame) /\ DOMAIN work' = 1 .. m - 1 /\ Len(work') = m - 1
    BY <1>0
  <2>7. Frame' = Frame /\ Range(stack)' = Below
    BY <1>6
  <2> QED BY <2>2, <2>3, <2>5, <2>6, <2>7 DEF PathFits
<1>11. EdgesAreFound'
  <2>1. \A i \in DOMAIN deps[v] : Looked(v, i)
    BY <1>2 DEF Linked
  <2>2. \A x \in F : \A i \in DOMAIN deps[x] : Looked(x, i)' => deps[x][i] \in F
    BY <1>1, <2>1 DEF Searching, EdgesAreFound
  <2> QED BY <1>6, <2>2 DEF EdgesAreFound
<1>12. LinksAreLow'
  <2>1. ASSUME NEW x \in Below, NEW i \in DOMAIN deps[x], Linked(x, i)', deps[x][i] \in Below
        PROVE  low'[x] <= index[deps[x][i]]
    <3>1. x \in St /\ x \in F /\ x # v /\ deps[x][i] \in St /\ deps[x][i] # v
      BY <1>0, <2>1 DEF Below
    <3>2. ~ (m > 1 /\ x = OnPath(m - 1) /\ ~ (i + 1 < work[m - 1].next) /\ i < work[m - 1].next)
      <4>1. SUFFICES ASSUME m > 1, x = OnPath(m - 1), ~ (i + 1 < work[m - 1].next), i < work[m - 1].next
                     PROVE  FALSE
        OBVIOUS
      <4>2. m - 1 \in 1 .. m - 1 /\ m - 1 < m /\ (m - 1) + 1 = m
        BY <1>0, <4>1
      <4>3. deps[x][work[m - 1].next - 1] = v
        <5>1. \A k \in DOMAIN work : k < m => deps[OnPath(k)][work[k].next - 1] = OnPath(k + 1)
          BY DEF Searching, PathFits
        <5>2. m - 1 \in DOMAIN work
          BY <1>0, <4>2
        <5> QED BY <4>1, <4>2, <5>1, <5>2
      <4>4. i \in Nat
        BY <1>0, <3>1, EdgesAre
      <4>5. i = work[m - 1].next - 1
        <5>1. m - 1 \in DOMAIN work /\ work[m - 1].next \in Nat
          BY <1>0, <4>2
        <5> QED BY ONLY <4>1, <4>4, <5>1
      <4> QED BY <3>1, <4>3, <4>5
    <3>3. Linked(x, i)
      BY <1>2, <2>1, <3>1, <3>2
    <3>4. low[x] <= index[deps[x][i]]
      BY <3>1, <3>3 DEF Searching, LinksAreLow
    <3> QED BY <1>4, <3>1, <3>4
  <2>2. ASSUME NEW k \in 1 .. m - 1, NEW x \in Below, index[OnPath(k)] <= index[x],
               k < m - 1 => index[x] < index[OnPath(k + 1)]
        PROVE  low'[OnPath(k)] <= low'[x]
    <3>1. x \in St /\ x \in F /\ index[x] < index[v]
      BY <1>0 DEF Below
    <3>2. k < m => index[x] < index[OnPath(k + 1)]
      <4>1. k = m - 1 => OnPath(k + 1) = v
        BY <1>0
      <4> QED BY <1>0, <2>2, <3>1, <4>1
    <3>3. low[OnPath(k)] <= low[x]
      BY <1>0, <2>2, <3>1, <3>2 DEF Searching, LinksAreLow
    <3> QED BY <1>0, <1>4, <3>1, <3>3
  <2>3. \A k \in 1 .. m - 1 : k < m - 1 => OnPath(k + 1)' = OnPath(k + 1)
    <3>1. \A k \in 1 .. m - 1 : k < m - 1 => k + 1 \in 1 .. m - 1
      BY <1>0
    <3> QED BY <1>0, <3>1
  <2>4. \A k \in 1 .. m - 1 : OnPath(k)' = OnPath(k)
    BY <1>0
  <2>5. DOMAIN work' = 1 .. m - 1 /\ Len(work)' = m - 1 /\ Range(stack)' = Below
    BY <1>0, <1>6
  <2>6. \A x \in Below : \A i \in DOMAIN deps[x] :
          Linked(x, i)' /\ deps[x][i] \in Below => low'[x] <= index[deps[x][i]]
    BY <2>1
  <2>7. \A k \in 1 .. m - 1 : \A x \in Below :
          index[OnPath(k)'] <= index[x] /\ (k < m - 1 => index[x] < index[OnPath(k + 1)']) =>
            low'[OnPath(k)'] <= low'[x]
    BY <2>2, <2>3, <2>4
  <2>8. deps' = deps /\ index' = index
    OBVIOUS
  <2> QED BY ONLY <2>5, <2>6, <2>7, <2>8 DEF LinksAreLow
<1>13. LinksAreReached'
  <2>1. ASSUME NEW x \in Below PROVE \E y \in Below : index[y] = low'[x] /\ Gets(x, y)
    <3>1. x \in St /\ index[x] < index[v] /\ x \in F
      BY <1>0 DEF Below
    <3>2. PICK y \in St : index[y] = low[x] /\ Gets(x, y)
      BY <3>1 DEF Searching, LinksAreReached
    <3>3. y \in Below
      BY <1>0, <3>1, <3>2 DEF Below
    <3> QED BY <1>4, <3>1, <3>2, <3>3
  <2>2. ASSUME NEW k \in 1 .. m - 1, NEW x \in Below, index[OnPath(k)] <= index[x] PROVE Gets(OnPath(k), x)
    BY <1>0, <2>2 DEF Searching, LinksAreReached, Below
  <2>3. ASSUME NEW x \in Below PROVE \E k \in 1 .. m - 1 : index[OnPath(k)] <= index[x] /\ Gets(x, OnPath(k))
    <3>1. x \in St /\ index[x] < index[v]
      BY DEF Below
    <3>2. PICK k \in DOMAIN work : index[OnPath(k)] <= index[x] /\ Gets(x, OnPath(k))
      BY <3>1 DEF Searching, LinksAreReached
    <3>3. k # m
      BY <1>0, <3>1, <3>2
    <3>4. k \in 1 .. m - 1
      BY <1>0, <3>2, <3>3
    <3> QED BY <3>2, <3>4
  <2>4. \A k \in 1 .. m - 1 : OnPath(k)' = OnPath(k)
    BY <1>0
  <2>5. /\ DOMAIN work' = 1 .. m - 1 /\ Range(stack)' = Below
        /\ \A p, q : Gets(p, q)' = Gets(p, q)
    BY <1>0, <1>6, <1>6a
  <2>6. \A k \in 1 .. m - 1 : \A x \in Below : index[OnPath(k)'] <= index[x] => Gets(OnPath(k)', x)
    BY <2>2, <2>4
  <2>7. \A x \in Below : \E k \in 1 .. m - 1 : index[OnPath(k)'] <= index[x] /\ Gets(x, OnPath(k)')
    BY <2>3, <2>4
  <2> QED BY <2>1, <2>5, <2>6, <2>7 DEF LinksAreReached
<1>14. Closed(UNION sccs)
  BY DEF Searching, ClassesAreClosed
<1>15. Closed(C \cup UNION sccs)
  <2>1. ASSUME NEW x \in C, NEW y \in needs[x] PROVE y \in C \cup UNION sccs
    <3>1. x \in St /\ index[v] <= index[x] /\ x \in Ids /\ x \in F
      BY <1>0 DEF C
    <3>2. PICK i \in DOMAIN deps[x] : deps[x][i] = y
      BY <3>1, EdgesAre DEF Range
    <3>3. i \in Nat
      BY <3>1, EdgesAre
    <3>4. Linked(x, i)
      <4>1. CASE x = v
        BY <1>2, <3>2, <4>1
      <4>2. CASE x # v
        <5>1. \A k \in DOMAIN work : OnPath(k) # x
          <6>1. \A k \in DOMAIN work : k # m => index[OnPath(k)] < index[v]
            BY <1>0
          <6> QED BY <1>0, <3>1, <4>2, <6>1
        <5> QED BY <5>1 DEF Linked, Looked
      <4> QED BY <4>1, <4>2
    <3>5. y \in F
      BY <3>1, <3>2, <3>4 DEF Linked, Searching, EdgesAreFound
    <3>6. CASE y \in St
      <4>1. low[x] <= index[y]
        BY <3>1, <3>2, <3>4, <3>6 DEF Searching, LinksAreLow
      <4>2. index[v] <= index[y]
        BY <1>0, <1>3, <3>1, <3>6, <4>1
      <4> QED BY <3>6, <4>2 DEF C
    <3> QED BY <1>6, <3>5, <3>6
  <2> QED BY <1>14, <2>1 DEF Closed
<1>16. ASSUME NEW p \in C PROVE C = {p} \cup {q \in Reach[p] : p \in Reach[q]}
  <2>1. \A x \in C : x \in St /\ x \in Ids /\ index[v] <= index[x]
    BY <1>0 DEF C
  <2>2. ASSUME NEW x \in C PROVE Gets(v, x) /\ Gets(x, v)
    <3>1. Gets(v, x)
      BY <1>0, <2>1 DEF Searching, LinksAreReached
    <3>2. PICK k \in DOMAIN work : index[OnPath(k)] <= index[x] /\ Gets(x, OnPath(k))
      BY <2>1 DEF Searching, LinksAreReached
    <3>3. index[OnPath(k)] <= index[v]
      BY <1>0, <3>2
    <3>4. Gets(OnPath(k), v)
      BY <1>0, <3>2, <3>3 DEF Searching, LinksAreReached
    <3>5. Gets(x, v)
      BY <1>0, <2>1, <3>2, <3>4, GetsFacts DEF IInv
    <3> QED BY <3>1, <3>5
  <2>3. ASSUME NEW q \in C PROVE q = p \/ (q \in Reach[p] /\ p \in Reach[q])
    <3>1. Gets(p, q) /\ Gets(q, p)
      BY <1>0, <2>1, <2>2, GetsFacts DEF IInv
    <3> QED BY <3>1 DEF Gets
  <2>4. ASSUME NEW q \in Reach[p], p \in Reach[q] PROVE q \in C
    <3>1. p \in Ids /\ q \in Ids
      BY <2>1, ReachIsLeast DEF IInv
    <3>2. q \in C \cup UNION sccs
      <4>1. needs[p] \subseteq C \cup UNION sccs
        BY <1>15 DEF Closed
      <4>2. C \cup UNION sccs \in SUBSET Ids
        BY <1>6, <2>1 DEF Searching, IndexFits
      <4> QED BY <1>15, <2>4, <3>1, <4>1, <4>2, ReachIsLeast DEF IInv
    <3>3. q \notin UNION sccs
      <4>1. SUFFICES ASSUME q \in UNION sccs PROVE FALSE
        OBVIOUS
      <4>2. needs[q] \subseteq UNION sccs
        BY <1>14, <4>1 DEF Closed
      <4>3. UNION sccs \in SUBSET Ids
        BY <1>6 DEF Searching, IndexFits
      <4>4. p \in UNION sccs
        BY <1>14, <2>4, <3>1, <4>2, <4>3, ReachIsLeast DEF IInv
      <4> QED BY <1>6, <2>1, <4>4
    <3> QED BY <3>2, <3>3
  <2> QED BY <1>16, <2>3, <2>4
<1>17. ClassesAreClosed'
  <2>1. C # {}
    BY <1>0 DEF C
  <2>2. ClassesAreClosed
    BY DEF Searching
  <2>3. \A scc \in sccs : scc # {} /\ \A p \in scc : scc = {p} \cup {q \in Reach[p] : p \in Reach[q]}
    BY <2>2 DEF ClassesAreClosed
  <2>4. \A scc \in sccs' : scc # {} /\ \A p \in scc : scc = {p} \cup {q \in Reach[p] : p \in Reach[q]}
    <3>1. ASSUME NEW scc \in sccs' PROVE scc = C \/ scc \in sccs
      BY <1>6
    <3> QED BY ONLY <1>16, <2>1, <2>3, <3>1
  <2>5. Closed(UNION sccs')
    <3>1. UNION sccs' = C \cup UNION sccs
      BY <1>6
    <3> QED BY <1>15, <3>1
  <2>6. Closed(UNION sccs)'
    BY <1>6a, <2>5
  <2>7. Reach' = Reach
    BY <1>6
  <2> QED BY <2>4, <2>6, <2>7 DEF ClassesAreClosed
<1> QED BY <1>8, <1>9, <1>10, <1>11, <1>12, <1>13, <1>17 DEF Searching

(* The parameter that leaves the path stays on the stack, and hands its link to the
   one before it (Return). *)
LEMMA KeepStep ==
  ASSUME IInv, phase # "graph", Searching, work # <<>>,
         doc' = doc, needs' = needs, deps' = deps, index' = index, sccs' = sccs, stack' = stack,
         NEW m, m = Len(work), NEW v, v = OnPath(m), work[m].next > Len(deps[v]), work' = Front(work),
         low[v] # index[v],
         low' = IF m > 1 THEN [low EXCEPT ![OnPath(m - 1)] = LowOnReturn(v)] ELSE low
  PROVE  Searching'
<1> DEFINE F == DOMAIN index
           St == Range(stack)
<1>0. /\ m \in Nat \ {0} /\ DOMAIN work = 1 .. m /\ m \in DOMAIN work
      /\ work' \in Seq(Frame) /\ DOMAIN work' = 1 .. m - 1 /\ Len(work') = m - 1
      /\ \A k \in 1 .. m - 1 : k \in DOMAIN work /\ work'[k].next = work[k].next /\ OnPath(k)' = OnPath(k)
      /\ \A x \in St : x \in F /\ x \in Ids /\ index[x] \in Nat /\ low[x] \in Nat /\ low[x] <= index[x]
      /\ \A k \in DOMAIN work :
              /\ OnPath(k) \in St /\ work[k].next \in Nat \ {0} /\ index[OnPath(k)] \in Nat
              /\ OnPath(k) \in F /\ OnPath(k) \in Ids
              /\ k # m => index[OnPath(k)] < index[v]
      /\ \A k, l \in DOMAIN work : k <= l => index[OnPath(k)] <= index[OnPath(l)]
      /\ \A k, l \in DOMAIN work : OnPath(k) = OnPath(l) => k = l
      /\ v \in St
  BY ReturnFacts
<1>1. \A x, i : Looked(x, i)' => Looked(x, i) \/ x = v
  BY ReturnFacts
<1>2. /\ \A i \in DOMAIN deps[v] : Linked(v, i)
      /\ \A x, i : Linked(x, i)' =>
           Linked(x, i) \/ x = v \/ (m > 1 /\ x = OnPath(m - 1) /\ ~ (i + 1 < work[m - 1].next)
                                           /\ i < work[m - 1].next)
  BY ReturnFacts
<1>3. \A x \in St : index[v] <= index[x] => low[v] <= low[x]
  BY ReturnFacts
<1>4. PICK y \in St : index[y] = low[v] /\ Gets(v, y)
  BY <1>0 DEF Searching, LinksAreReached
<1>5. PICK j \in DOMAIN work : index[OnPath(j)] <= index[y] /\ Gets(y, OnPath(j))
  BY <1>4 DEF Searching, LinksAreReached
<1>6. index[y] < index[v] /\ index[OnPath(j)] < index[v] /\ j \in 1 .. m - 1 /\ m > 1
  <2>1. index[y] < index[v] /\ index[y] \in Nat /\ index[v] \in Nat
    BY <1>0, <1>4
  <2>2. index[OnPath(j)] < index[v]
    BY <1>0, <1>5, <2>1
  <2>3. j # m
    BY <2>1, <2>2
  <2> QED BY <1>0, <2>1, <2>2, <2>3
<1>7. PICK u : u = OnPath(m - 1)
  OBVIOUS
<1>8. /\ m - 1 \in 1 .. m - 1 /\ u \in St /\ u \in F /\ u \in Ids /\ index[u] < index[v] /\ u # v
      /\ Gets(u, v)
  <2>1. m - 1 \in 1 .. m - 1 /\ m - 1 \in DOMAIN work /\ m - 1 # m
    BY <1>0, <1>6
  <2>2. u \in St /\ u \in F /\ u \in Ids /\ index[u] < index[v]
    BY <1>0, <1>7, <2>1
  <2>3. index[u] \in Nat /\ index[v] \in Nat
    BY <1>0, <2>2
  <2>4. Gets(u, v)
    <3>1. index[OnPath(m - 1)] <= index[v]
      BY <1>7, <2>2, <2>3
    <3> QED BY <1>0, <1>7, <2>1, <3>1 DEF Searching, LinksAreReached
  <2> QED BY <2>1, <2>2, <2>3, <2>4
<1>9. /\ DOMAIN low' = F /\ \A x \in F : x # u => low'[x] = low[x]
      /\ low'[u] \in Nat /\ low'[u] <= low[u] /\ low'[u] <= low[v]
      /\ low'[u] = low[u] \/ low'[u] = low[v]
  <2>1. DOMAIN low = F
    BY DEF Searching, IndexFits
  <2>2. low[u] \in Nat /\ low[v] \in Nat
    BY <1>0, <1>8
  <2>3. LowOnReturn(v) = IF low[v] < low[u] THEN low[v] ELSE low[u]
    BY <1>7 DEF LowOnReturn, OnPath
  <2>4. low' = [low EXCEPT ![u] = LowOnReturn(v)]
    BY <1>6, <1>7
  <2>5. /\ DOMAIN low' = F /\ low'[u] = LowOnReturn(v)
        /\ \A x \in F : x # u => low'[x] = low[x]
    BY <1>8, <2>1, <2>4
  <2>6. CASE low[v] < low[u]
    BY ONLY <2>2, <2>3, <2>5, <2>6
  <2>7. CASE ~ (low[v] < low[u])
    BY ONLY <2>2, <2>3, <2>5, <2>7
  <2> QED BY <2>6, <2>7
<1>10. /\ \A x \in St : low'[x] \in Nat /\ low'[x] <= low[x]
       /\ \A x \in F : low'[x] \in Nat /\ low'[x] <= index[x]
  <2>1. \A x \in F : low[x] \in Nat /\ low[x] <= index[x] /\ index[x] \in Nat
    BY DEF Searching, IndexFits
  <2>2. \A x \in F : low'[x] \in Nat /\ low'[x] <= low[x]
    BY <1>8, <1>9, <2>1
  <2>3. \A x \in St : x \in F
    BY <1>0
  <2> HIDE DEF F, St
  <2> QED BY ONLY <2>1, <2>2, <2>3
<1>11. F' = F /\ Ids' = Ids /\ Frame' = Frame /\ Range(stack)' = St
  <2>1. Ids' = Ids
    BY ReachStays
  <2> QED BY <2>1 DEF Range, Frame
<1>12. IndexFits'
  <2>1. IndexFits
    BY DEF Searching
  <2> QED BY <1>9, <1>10, <1>11, <2>1 DEF IndexFits
<1>13. StackFits'
  <2>1. StackFits
    BY DEF Searching
  <2> QED BY <1>11, <2>1 DEF StackFits
<1>14. PathFits'
  <2>1. /\ \A k \in DOMAIN work : work[k].next <= Len(deps[OnPath(k)]) + 1
        /\ \A k, l \in DOMAIN work : k < l => index[OnPath(k)] < index[OnPath(l)]
        /\ \A k \in DOMAIN work : k < m =>
             work[k].next > 1 /\ deps[OnPath(k)][work[k].next - 1] = OnPath(k + 1)
    BY DEF Searching, PathFits
  <2>0. /\ \A k \in 1 .. m - 1 : k \in DOMAIN work /\ OnPath(k)' = OnPath(k) /\ OnPath(k) \in St
        /\ \A k \in 1 .. m - 1 : work'[k].next = work[k].next
    BY <1>0
  <2>2. \A k \in 1 .. m - 1 : OnPath(k)' \in St /\ work'[k].next <= Len(deps[OnPath(k)']) + 1
    BY ONLY <2>0, <2>1
  <2>3. \A k, l \in 1 .. m - 1 : k < l => index[OnPath(k)'] < index[OnPath(l)']
    BY ONLY <2>0, <2>1
  <2>4. ASSUME NEW k \in 1 .. m - 1, k < m - 1
        PROVE  work'[k].next > 1 /\ deps[OnPath(k)'][work'[k].next - 1] = OnPath(k + 1)'
    <3>1. k + 1 \in 1 .. m - 1 /\ k < m
      BY <1>0, <2>4
    <3>2. work[k].next > 1 /\ deps[OnPath(k)][work[k].next - 1] = OnPath(k + 1)
      BY <1>0, <2>1, <3>1
    <3> QED BY <1>0, <3>1, <3>2
  <2>5. \A k \in 1 .. m - 1 : k < m - 1 =>
          work'[k].next > 1 /\ deps[OnPath(k)'][work'[k].next - 1] = OnPath(k + 1)'
    BY <2>4
  <2>6. work' \in Seq(Frame) /\ DOMAIN work' = 1 .. m - 1 /\ Len(work') = m - 1
    BY <1>0
  <2>7. Frame' = Frame /\ Range(stack)' = St
    BY <1>11
  <2> HIDE DEF St
  <2> QED BY <2>2, <2>3, <2>5, <2>6, <2>7 DEF PathFits
<1>15. EdgesAreFound'
  <2>1. \A i \in DOMAIN deps[v] : Looked(v, i)
    BY <1>2 DEF Linked
  <2>2. \A x \in F : \A i \in DOMAIN deps[x] : Looked(x, i)' => deps[x][i] \in F
    BY <1>1, <2>1 DEF Searching, EdgesAreFound
  <2> QED BY <1>11, <2>2 DEF EdgesAreFound
<1>16. LinksAreLow'
  <2>1. ASSUME NEW x \in St, NEW i \in DOMAIN deps[x], Linked(x, i)', deps[x][i] \in St
        PROVE  low'[x] <= index[deps[x][i]]
    <3>1. /\ x \in Ids /\ low[x] \in Nat /\ low'[x] \in Nat /\ low'[x] <= low[x]
          /\ index[deps[x][i]] \in Nat
      BY <1>0, <1>10, <2>1
    <3>2. CASE Linked(x, i) \/ x = v
      <4>1. Linked(x, i)
        BY <1>2, <2>1, <3>2
      <4>2. low[x] <= index[deps[x][i]]
        BY <2>1, <4>1 DEF Searching, LinksAreLow
      <4> QED BY ONLY <3>1, <4>2
    <3>3. CASE x = OnPath(m - 1) /\ ~ (i + 1 < work[m - 1].next) /\ i < work[m - 1].next
      <4>1. m - 1 \in DOMAIN work /\ work[m - 1].next \in Nat /\ m - 1 < m /\ (m - 1) + 1 = m
        BY <1>0, <1>8
      <4>2. deps[x][work[m - 1].next - 1] = v
        BY <3>3, <4>1 DEF Searching, PathFits
      <4>3. i \in Nat
        BY <3>1, EdgesAre
      <4>4. i = work[m - 1].next - 1
        BY ONLY <3>3, <4>1, <4>3
      <4>5. deps[x][i] = v /\ x = u
        BY <1>7, <3>3, <4>2, <4>4
      <4>6. low[v] <= index[v] /\ low[v] \in Nat /\ index[v] \in Nat
        BY <1>0
      <4> QED BY <1>9, <4>5, <4>6
    <3> QED BY <1>2, <2>1, <3>2, <3>3
  <2>2. ASSUME NEW k \in 1 .. m - 1, NEW x \in St, index[OnPath(k)] <= index[x],
               k < m - 1 => index[x] < index[OnPath(k + 1)]
        PROVE  low'[OnPath(k)] <= low'[x]
    <3>0. /\ k \in DOMAIN work /\ x \in F /\ index[x] \in Nat /\ low[x] \in Nat /\ low'[x] \in Nat
          /\ OnPath(k) \in F /\ OnPath(k) \in St /\ low[OnPath(k)] \in Nat
      BY <1>0, <1>10
    <3>1. CASE k < m - 1
      <4>1. k < m /\ k # m - 1 /\ k + 1 \in DOMAIN work /\ k + 1 <= m - 1 /\ m - 1 \in DOMAIN work
        BY <1>0, <1>8, <3>1
      <4>2. low[OnPath(k)] <= low[x]
        BY <2>2, <3>0, <3>1, <4>1 DEF Searching, LinksAreLow
      <4>3. OnPath(k) # u
        BY <1>0, <1>7, <3>0, <4>1
      <4>4. index[OnPath(k + 1)] <= index[u] /\ index[OnPath(k + 1)] \in Nat /\ index[u] \in Nat
        BY <1>0, <1>7, <4>1
      <4>5. x # u
        BY <2>2, <3>0, <3>1, <4>4
      <4> QED BY <1>9, <3>0, <4>2, <4>3, <4>5
    <3>2. CASE k = m - 1 /\ index[x] < index[v]
      <4>1. k < m /\ OnPath(k + 1) = v /\ OnPath(k) = u
        BY <1>0, <1>7, <3>2
      <4>2. low[u] <= low[x]
        BY <2>2, <3>0, <3>2, <4>1 DEF Searching, LinksAreLow
      <4>3. CASE x = u
        BY <1>9, <4>1, <4>3
      <4>4. CASE x # u
        <5>1. low'[x] = low[x]
          BY <1>9, <3>0, <4>4
        <5> QED BY <1>9, <3>0, <4>1, <4>2, <5>1
      <4> QED BY <4>3, <4>4
    <3>3. CASE k = m - 1 /\ ~ (index[x] < index[v])
      <4>1. OnPath(k) = u /\ index[v] \in Nat /\ low[v] \in Nat
        BY <1>0, <1>7, <3>3
      <4>2. index[v] <= index[x]
        BY <3>0, <3>3, <4>1
      <4>3. low[v] <= low[x]
        BY <1>3, <4>2
      <4>4. low'[x] = low[x]
        BY <1>8, <1>9, <3>0, <3>3
      <4> QED BY <1>9, <3>0, <4>1, <4>3, <4>4
    <3> QED BY <1>0, <3>1, <3>2, <3>3
  <2>3. \A k \in 1 .. m - 1 : k < m - 1 => OnPath(k + 1)' = OnPath(k + 1)
    <3>1. \A k \in 1 .. m - 1 : k < m - 1 => k + 1 \in 1 .. m - 1
      BY <1>0
    <3> QED BY <1>0, <3>1
  <2>4. \A k \in 1 .. m - 1 : OnPath(k)' = OnPath(k)
    BY <1>0
  <2>5. DOMAIN work' = 1 .. m - 1 /\ Len(work)' = m - 1 /\ Range(stack)' = St
    BY <1>0, <1>11
  <2>6. \A x \in St : \A i \in DOMAIN deps[x] :
          Linked(x, i)' /\ deps[x][i] \in St => low'[x] <= index[deps[x][i]]
    BY <2>1
  <2>7. \A k \in 1 .. m - 1 : \A x \in St :
          index[OnPath(k)'] <= index[x] /\ (k < m - 1 => index[x] < index[OnPath(k + 1)']) =>
            low'[OnPath(k)'] <= low'[x]
    BY <2>2, <2>3, <2>4
  <2>8. deps' = deps /\ index' = index
    OBVIOUS
  <2> HIDE DEF St
  <2> QED BY ONLY <2>5, <2>6, <2>7, <2>8 DEF LinksAreLow
<1>17. LinksAreReached'
  <2>1. ASSUME NEW x \in St PROVE \E z \in St : index[z] = low'[x] /\ Gets(x, z)
    <3>1. CASE low'[x] = low[x]
      BY <3>1 DEF Searching, LinksAreReached
    <3>2. CASE low'[x] # low[x]
      <4>1. x = u /\ low'[x] = low[v]
        BY <1>0, <1>9, <3>2
      <4>2. Gets(u, y)
        BY <1>0, <1>4, <1>8, GetsFacts DEF IInv
      <4> QED BY <1>4, <4>1, <4>2
    <3> QED BY <3>1, <3>2
  <2>2. ASSUME NEW k \in 1 .. m - 1, NEW x \in St, index[OnPath(k)] <= index[x] PROVE Gets(OnPath(k), x)
    BY <1>0, <2>2 DEF Searching, LinksAreReached
  <2>3. ASSUME NEW x \in St PROVE \E k \in 1 .. m - 1 : index[OnPath(k)] <= index[x] /\ Gets(x, OnPath(k))
    <3>1. PICK k \in DOMAIN work : index[OnPath(k)] <= index[x] /\ Gets(x, OnPath(k))
      BY DEF Searching, LinksAreReached
    <3>2. CASE k # m
      <4>1. k \in 1 .. m - 1
        BY <1>0, <3>2
      <4> QED BY <3>1, <4>1
    <3>3. CASE k = m
      <4>1. Gets(x, v) /\ index[v] <= index[x] /\ x \in Ids /\ v \in Ids /\ y \in Ids /\ OnPath(j) \in Ids
        BY <1>0, <1>5, <3>1, <3>3
      <4>2. Gets(x, y)
        BY <1>4, <4>1, GetsFacts DEF IInv
      <4>3. Gets(x, OnPath(j))
        BY <1>5, <4>1, <4>2, GetsFacts DEF IInv
      <4>4. index[OnPath(j)] <= index[x]
        <5>1. index[OnPath(j)] \in Nat /\ index[v] \in Nat /\ index[x] \in Nat
          BY <1>0, <1>5
        <5> QED BY ONLY <1>6, <4>1, <5>1
      <4> QED BY <1>6, <4>3, <4>4
    <3> QED BY <3>2, <3>3
  <2>4. \A k \in 1 .. m - 1 : OnPath(k)' = OnPath(k)
    BY <1>0
  <2>5. /\ DOMAIN work' = 1 .. m - 1 /\ Range(stack)' = St
        /\ \A p, q : Gets(p, q)' = Gets(p, q)
    BY <1>0, <1>11, ReachStays
  <2>6. \A k \in 1 .. m - 1 : \A x \in St : index[OnPath(k)'] <= index[x] => Gets(OnPath(k)', x)
    BY <2>2, <2>4
  <2>7. \A x \in St : \E k \in 1 .. m - 1 : index[OnPath(k)'] <= index[x] /\ Gets(x, OnPath(k)')
    BY <2>3, <2>4
  <2> HIDE DEF St
  <2> QED BY <2>1, <2>5, <2>6, <2>7 DEF LinksAreReached
<1>18. ClassesAreClosed'
  <2>1. \A S : Closed(S)' = Closed(S)
    BY ReachStays
  <2>2. Reach' = Reach
    BY ReachStays
  <2>3. ClassesAreClosed
    BY DEF Searching
  <2> QED BY <2>1, <2>2, <2>3 DEF ClassesAreClosed
<1> QED BY <1>12, <1>13, <1>14, <1>15, <1>16, <1>17, <1>18 DEF Searching

LEMMA StartRootStep == ASSUME IInv, phase = "components", Searching, StartRoot PROVE Searching'
<1> DEFINE w == MinOf(Ids \ DOMAIN index)
           top == [v |-> w, next |-> 1]
<1>1. /\ work = <<>> /\ DOMAIN index # Ids /\ Found(w) /\ work' = <<top>>
      /\ doc' = doc /\ needs' = needs /\ deps' = deps /\ sccs' = sccs
  BY DEF StartRoot, graphVars
<1>2. w \in Ids \ DOMAIN index
  <2>1. Ids \ DOMAIN index # {} /\ Ids \subseteq Nat
    BY <1>1, IdsAreFinite DEF IInv, Searching, IndexFits
  <2> QED BY <2>1, MinOfIsLeast
<1> HIDE DEF w
<1>3. top \in Frame
  BY <1>2 DEF Frame
<1>4. <<>> \in Seq(Frame) /\ Len(<<>>) = Len(work) /\ work' = Append(<<>>, top)
  <2> HIDE DEF top
  <2> QED BY <1>1
<1>5. \A k \in DOMAIN work : FALSE
  BY <1>1
<1> QED BY <1>1, <1>2, <1>4, <1>5, FoundStep

LEMMA DescendStep == ASSUME IInv, phase = "components", Searching, Descend PROVE Searching'
<1> DEFINE m == Len(work)
           v == OnPath(m)
           e == work[m].next
           w == deps[v][e]
<1>1. /\ work # <<>> /\ e <= Len(deps[v])
      /\ doc' = doc /\ needs' = needs /\ deps' = deps /\ sccs' = sccs
      /\ \/ w \notin DOMAIN index /\ Found(w) /\ work' = Append(Moved, [v |-> w, next |-> 1])
         \/ /\ w \in DOMAIN index /\ OnStack(w) /\ Lower(v, index[w]) /\ work' = Moved
            /\ UNCHANGED <<index, stack>>
         \/ /\ w \in DOMAIN index /\ ~ OnStack(w) /\ work' = Moved /\ UNCHANGED <<index, low, stack>>
  BY DEF Descend, Last, OnPath, graphVars
<1>2. m \in Nat /\ m \in DOMAIN work /\ v \in Ids /\ e \in Nat \ {0} /\ work \in Seq(Frame)
  <2>1. work \in Seq(Frame)
    BY DEF Searching, PathFits
  <2>2. m \in DOMAIN work
    BY <1>1, <2>1
  <2> QED BY <2>1, <2>2, SearchFacts
<1>3. e \in DOMAIN deps[v] /\ w \in Ids
  <2>1. DOMAIN deps[v] = 1 .. Len(deps[v]) /\ Len(deps[v]) \in Nat
    BY <1>2, EdgesAre
  <2>2. e \in DOMAIN deps[v]
    BY <1>1, <1>2, <2>1
  <2> QED BY <1>2, <2>2, EdgesAre
<1>4. CASE w \in DOMAIN index
  <2>1. work' = [work EXCEPT ![m].next = @ + 1]
    BY <1>1, <1>4 DEF Moved
  <2>2. IF w \in Range(stack) THEN Lower(v, index[w]) ELSE low' = low
    BY <1>1, <1>4 DEF OnStack
  <2>3. index' = index /\ stack' = stack
    BY <1>1, <1>4
  <2> HIDE DEF m, v, e, w
  <2> QED BY <1>1, <1>2, <1>4, <2>1, <2>2, <2>3, LookStep DEF m, v, e, w
<1>5. CASE w \notin DOMAIN index
  <2> DEFINE t == [work[m] EXCEPT !.next = @ + 1]
  <2>1. work[m] \in Frame
    BY <1>2
  <2>2. t \in Frame /\ t.v = v /\ t.next = e + 1
    BY <2>1 DEF Frame, OnPath
  <2>3. Moved = [work EXCEPT ![m] = t]
    BY DEF Moved
  <2> HIDE DEF t
  <2>4. /\ Moved \in Seq(Frame) /\ Len(Moved) = Len(work) /\ DOMAIN Moved = DOMAIN work
        /\ Moved[m] = t /\ \A k \in DOMAIN work : k # m => Moved[k] = work[k]
    <3> HIDE DEF m
    <3> QED BY ONLY <1>2, <2>2, <2>3, Replaced
  <2>5. \A k \in DOMAIN work :
          Moved[k].v = OnPath(k) /\ Moved[k].next = IF k = Len(work) THEN work[k].next + 1 ELSE work[k].next
    BY <2>2, <2>4 DEF OnPath
  <2>6. Found(w) /\ work' = Append(Moved, [v |-> w, next |-> 1])
    BY <1>1, <1>5
  <2>7. w \in Ids \ DOMAIN index
    BY <1>3, <1>5
  <2>8. work # <<>> => /\ work[Len(work)].next \in DOMAIN deps[OnPath(Len(work))]
                       /\ deps[OnPath(Len(work))][work[Len(work)].next] = w
    BY <1>3
  <2> HIDE DEF w, v, e, m
  <2> QED BY <1>1, <2>4, <2>5, <2>6, <2>7, <2>8, FoundStep
<1> QED BY <1>4, <1>5

LEMMA ReturnStep == ASSUME IInv, phase = "components", Searching, Return PROVE Searching'
<1>1. PICK m : m = Len(work)
  OBVIOUS
<1>2. PICK v : v = OnPath(m)
  OBVIOUS
<1>3. PICK at : at = CHOOSE i \in DOMAIN stack : stack[i] = v
  OBVIOUS
<1>4. /\ work # <<>> /\ work[m].next > Len(deps[v]) /\ work' = Front(work)
      /\ doc' = doc /\ needs' = needs /\ deps' = deps /\ index' = index
      /\ low' = IF m > 1 THEN [low EXCEPT ![OnPath(m - 1)] = LowOnReturn(v)] ELSE low
      /\ IF low[v] = index[v]
         THEN /\ sccs' = sccs \cup {{stack[i] : i \in at .. Len(stack)}}
              /\ stack' = SubSeq(stack, 1, at - 1)
         ELSE UNCHANGED <<sccs, stack>>
  BY <1>1, <1>2, <1>3 DEF Return, Last, OnPath, graphVars
<1>5. phase # "graph"
  OBVIOUS
<1>6. CASE low[v] = index[v]
  <2>1. sccs' = sccs \cup {From(at)}
    BY <1>4, <1>6 DEF From
  <2>2. stack' = SubSeq(stack, 1, at - 1)
    BY <1>4, <1>6
  <2>3. /\ IInv /\ phase # "graph" /\ Searching /\ work # <<>>
        /\ doc' = doc /\ needs' = needs /\ deps' = deps /\ index' = index
        /\ work[m].next > Len(deps[v]) /\ work' = Front(work)
        /\ low' = IF m > 1 THEN [low EXCEPT ![OnPath(m - 1)] = LowOnReturn(v)] ELSE low
    BY <1>4
  <2> QED BY ONLY <1>1, <1>2, <1>3, <1>6, <2>1, <2>2, <2>3, CloseStep
<1>7. CASE low[v] # index[v]
  <2>1. sccs' = sccs /\ stack' = stack
    BY <1>4, <1>7
  <2> QED BY <1>1, <1>2, <1>4, <1>5, <1>7, <2>1, KeepStep, Zenon
<1> QED BY <1>6, <1>7

LEMMA SearchingStays ==
  ASSUME doc' = doc, needs' = needs, deps' = deps, UNCHANGED tarjanVars, Searching
  PROVE  Searching'
<1>1. /\ Ids' = Ids /\ Reach' = Reach /\ \A S : Closed(S)' = Closed(S)
      /\ \A p, q : Gets(p, q)' = Gets(p, q)
  BY ReachStays
<1>2. /\ index' = index /\ low' = low /\ stack' = stack /\ work' = work /\ sccs' = sccs
      /\ \A k : OnPath(k)' = OnPath(k)
  BY DEF tarjanVars, OnPath
<1>3. /\ Frame' = Frame /\ Range(stack)' = Range(stack)
      /\ \A v, i : Looked(v, i)' = Looked(v, i) /\ Linked(v, i)' = Linked(v, i)
  BY <1>1, <1>2 DEF Frame, Range, Looked, Linked
<1>4. IndexFits' /\ StackFits'
  BY <1>1, <1>2, <1>3 DEF Searching, IndexFits, StackFits
<1>5. PathFits'
  BY <1>2, <1>3 DEF Searching, PathFits
<1>6. EdgesAreFound'
  BY <1>2, <1>3 DEF Searching, EdgesAreFound
<1>7. LinksAreLow'
  BY <1>2, <1>3 DEF Searching, LinksAreLow
<1>8. LinksAreReached'
  BY <1>1, <1>2, <1>3 DEF Searching, LinksAreReached
<1>9. ClassesAreClosed'
  BY <1>1, <1>2 DEF Searching, ClassesAreClosed
<1> QED BY <1>4, <1>5, <1>6, <1>7, <1>8, <1>9 DEF Searching

(* Nothing is found yet. *)
LEMMA SearchStarts ==
  ASSUME index = <<>>, low = <<>>, stack = <<>>, work = <<>>, sccs = {}
  PROVE  Searching
<1>1. DOMAIN index = {} /\ DOMAIN low = {} /\ DOMAIN stack = {} /\ DOMAIN work = {} /\ UNION sccs = {}
  OBVIOUS
<1>2. Range(stack) = {}
  BY <1>1 DEF Range
<1>3. stack \in Seq(Ids) /\ work \in Seq(Frame)
  OBVIOUS
<1> QED BY <1>1, <1>2, <1>3 DEF Searching, IndexFits, StackFits, PathFits, EdgesAreFound, LinksAreLow,
                               LinksAreReached, ClassesAreClosed, Closed

LEMMA TarjanStarts == Init => TarjanInv
BY DEF Init, TarjanInv

LEMMA TarjanStep == ASSUME IInv, TarjanInv, [Next]_vars PROVE TarjanInv'
<1>1. CASE StartRoot \/ Descend \/ Return
  <2>1. phase = "components" /\ phase' = phase
    BY <1>1 DEF StartRoot, Descend, Return
  <2>2. Searching'
    BY <1>1, <2>1, StartRootStep, DescendStep, ReturnStep DEF TarjanInv
  <2> QED BY <2>1, <2>2 DEF TarjanInv
<1>2. CASE Build \/ StartOrder \/ Order \/ Ordered \/ Evaluate
  <2>1. /\ phase \notin {"components", "cycles", "done"} /\ phase' \notin {"components", "cycles", "done"}
        /\ UNCHANGED tarjanVars
    BY <1>2 DEF Build, StartOrder, Order, Ordered, Evaluate
  <2> QED BY <2>1 DEF TarjanInv, tarjanVars
<1>3. CASE StartComponents \/ StartCycles \/ Block \/ Finish \/ UNCHANGED vars
  <2>1. doc' = doc /\ needs' = needs /\ deps' = deps /\ UNCHANGED tarjanVars
    BY <1>3 DEF StartComponents, StartCycles, Block, Finish, vars, graphVars, tarjanVars
  <2>2. \/ phase \notin {"components", "cycles", "done"} /\ phase' = phase
        \/ phase \notin {"components", "cycles", "done"} /\ phase' = "components"
        \/ phase = "components" /\ phase' = phase
        \/ phase = "components" /\ phase' = "cycles" /\ work = <<>> /\ DOMAIN index = Ids
        \/ phase \in {"cycles", "done"} /\ phase' \in {"cycles", "done"}
    BY <1>3 DEF StartComponents, StartCycles, Block, Finish, vars, IInv, Shape, Phases
  <2>3. phase \notin {"components", "cycles", "done"} => Searching
    BY SearchStarts DEF TarjanInv
  <2>4. Searching
    BY <2>3 DEF TarjanInv
  <2>5. Searching'
    BY <2>1, <2>4, SearchingStays
  <2>6. index' = index /\ low' = low /\ stack' = stack /\ work' = work /\ sccs' = sccs /\ Ids' = Ids
    BY <2>1 DEF tarjanVars, Ids
  <2> QED BY <2>2, <2>5, <2>6 DEF TarjanInv
<1> QED BY <1>1, <1>2, <1>3 DEF Next

LEMMA ComponentsAre == ASSUME IInv, TarjanInv PROVE ComponentsAreClasses
<1>1. \A scc \in sccs : \A p \in scc : scc = {p} \cup {q \in Reach[p] : p \in Reach[q]}
  <2>1. CASE phase \in {"components", "cycles", "done"}
    BY <2>1 DEF TarjanInv, Searching, ClassesAreClosed
  <2>2. CASE phase \notin {"components", "cycles", "done"}
    BY <2>2 DEF TarjanInv
  <2> QED BY <2>1, <2>2
<1>2. ASSUME phase \in {"cycles", "done"} PROVE UNION sccs = Ids
  <2>1. Searching /\ work = <<>> /\ DOMAIN index = Ids
    BY <1>2 DEF TarjanInv
  <2>2. Range(stack) = {}
    BY <2>1 DEF Searching, LinksAreReached
  <2> QED BY <2>1, <2>2 DEF Searching, StackFits
<1> QED BY <1>1, <1>2 DEF ComponentsAreClasses

LEMMA AlwaysTarjan == Spec => [](IInv /\ TarjanInv)
<1>1. IInv /\ TarjanInv /\ [Next]_vars => TarjanInv'
  BY TarjanStep
<1> QED BY <1>1, TarjanStarts, AlwaysIInv, PTL DEF Spec

(***************************************************************************)
(* What is kept of a sequence.                                             *)
(***************************************************************************)
Keeps(f, S, s, C) ==
  /\ f \in [0 .. Len(s) -> Seq(S)] /\ f[0] = <<>> /\ f[Len(s)] = Keeping(s, C)
  /\ \A i \in 1 .. Len(s) : f[i] = IF s[i] \in C THEN Append(f[i - 1], s[i]) ELSE f[i - 1]

LEMMA KeepingSteps ==
  ASSUME NEW S, NEW s \in Seq(S), NEW C
  PROVE  \E f : Keeps(f, S, s, C)
<1> DEFINE n == Len(s)
           Q == Seq(S)
           G == [i \in 1 .. n |-> [t \in Q |-> IF s[i] \in C THEN Append(t, s[i]) ELSE t]]
           kept[i \in 0 .. n] ==
             IF i = 0 THEN <<>>
             ELSE IF s[i] \in C THEN Append(kept[i - 1], s[i]) ELSE kept[i - 1]
<1>1. n \in Nat /\ <<>> \in Q /\ \A i \in 1 .. n : s[i] \in S
  OBVIOUS
<1>2. \A i \in 1 .. n : \A t \in Q : (IF s[i] \in C THEN Append(t, s[i]) ELSE t) \in Q
  <2>1. \A t \in Q : \A x \in S : Append(t, x) \in Q
    OBVIOUS
  <2> HIDE DEF Q
  <2> QED BY ONLY <1>1, <2>1
<1>3. Stepper(G, n, Q)
  <2> HIDE DEF n, Q
  <2> QED BY ONLY <1>2 DEF Stepper
<1>4. PICK f : Iteration(f, n, Q, <<>>, G)
  <2> HIDE DEF n, Q, G
  <2> QED BY ONLY <1>1, <1>3, Iterates
<1>5. f \in [0 .. n -> Q] /\ f[0] = <<>> /\ \A i \in 1 .. n : f[i] = G[i][f[i - 1]]
  BY <1>4 DEF Iteration
<1>6. \A i \in 1 .. n : f[i] = IF s[i] \in C THEN Append(f[i - 1], s[i]) ELSE f[i - 1]
  <2>1. ASSUME NEW i \in 1 .. n PROVE f[i] = IF s[i] \in C THEN Append(f[i - 1], s[i]) ELSE f[i - 1]
    <3>1. i - 1 \in 0 .. n
      BY <1>1
    <3>2. f[i - 1] \in Q
      BY <1>5, <3>1
    <3>3. f[i] = G[i][f[i - 1]]
      BY <1>5
    <3> HIDE DEF Q, n
    <3> QED BY <3>2, <3>3
  <2> QED BY <2>1
<1> HIDE DEF G
<1>7. f = [i \in 0 .. n |-> IF i = 0 THEN <<>>
                            ELSE IF s[i] \in C THEN Append(f[i - 1], s[i]) ELSE f[i - 1]]
  <2>1. ASSUME NEW i \in 0 .. n
        PROVE  f[i] = IF i = 0 THEN <<>> ELSE IF s[i] \in C THEN Append(f[i - 1], s[i]) ELSE f[i - 1]
    <3>1. i # 0 => i \in 1 .. n
      BY <1>1
    <3> QED BY <1>5, <1>6, <3>1
  <2> HIDE DEF n, Q
  <2> QED BY <1>5, <2>1
<1>8. kept = [i \in 0 .. n |-> IF i = 0 THEN <<>>
                               ELSE IF s[i] \in C THEN Append(kept[i - 1], s[i]) ELSE kept[i - 1]]
  <2> HIDE DEF n, Q
  <2> QED BY <1>7
<1>9. Keeping(s, C) = kept[n]
  BY DEF Keeping
<1> HIDE DEF kept
<1>10. kept[0] = <<>> /\ \A i \in 1 .. n : kept[i] = IF s[i] \in C THEN Append(kept[i - 1], s[i]) ELSE kept[i - 1]
  <2>1. ASSUME NEW i \in 0 .. n
        PROVE  kept[i] = IF i = 0 THEN <<>> ELSE IF s[i] \in C THEN Append(kept[i - 1], s[i]) ELSE kept[i - 1]
    <3> HIDE DEF n
    <3> QED BY <1>8
  <2>2. 0 \in 0 .. n /\ \A i \in 1 .. n : i \in 0 .. n /\ i # 0
    BY <1>1
  <2> HIDE DEF n
  <2> QED BY <2>1, <2>2
<1>11. kept \in [0 .. n -> Q]
  <2> DEFINE T == {i \in 0 .. n : kept[i] \in Q}
  <2>1. 0 \in T
    <3> HIDE DEF n, Q
    <3> QED BY ONLY <1>1, <1>10
  <2>2. ASSUME NEW i \in 0 .. n - 1, i \in T PROVE i + 1 \in T
    <3>1. i + 1 \in 1 .. n /\ (i + 1) - 1 = i /\ i + 1 \in 0 .. n
      BY <1>1
    <3>2. kept[i + 1] = IF s[i + 1] \in C THEN Append(kept[i], s[i + 1]) ELSE kept[i]
      BY <1>10, <3>1
    <3>3. kept[i] \in Q
      BY <2>2
    <3> HIDE DEF Q, n
    <3> QED BY <1>2, <3>1, <3>2, <3>3
  <2>3. \A m \in 0 .. n : m \in T
    <3>1. ASSUME NEW m \in 0 .. n PROVE m \in T
      <4>1. m \in Nat /\ \A i \in 0 .. m - 1 : i \in 0 .. n - 1
        BY <1>1
      <4> HIDE DEF T
      <4> QED BY <2>1, <2>2, <4>1, Induction
    <3> QED BY <3>1
  <2>4. DOMAIN kept = 0 .. n /\ kept = [i \in 0 .. n |-> kept[i]]
    <3>1. DOMAIN kept = 0 .. n
      BY <1>8
    <3> QED BY <1>8, <3>1
  <2> HIDE DEF n, Q
  <2> QED BY <2>3, <2>4
<1>12. Keeps(kept, S, s, C)
  BY <1>9, <1>10, <1>11 DEF Keeps
<1> QED BY <1>12

LEMMA AppendRange ==
  ASSUME NEW S, NEW t \in Seq(S), NEW x \in S
  PROVE  Range(Append(t, x)) = Range(t) \cup {x}
<1>1. /\ DOMAIN Append(t, x) = 1 .. Len(t) + 1 /\ Len(t) \in Nat /\ DOMAIN t = 1 .. Len(t)
      /\ \A i \in 1 .. Len(t) : Append(t, x)[i] = t[i]
      /\ Append(t, x)[Len(t) + 1] = x
  OBVIOUS
<1> QED BY <1>1 DEF Range

Once(s) == \A i, j \in DOMAIN s : s[i] = s[j] => i = j

LEMMA KeepingAll ==
  ASSUME NEW S, NEW s \in Seq(S), NEW C
  PROVE  /\ Keeping(s, C) \in Seq(S) /\ Range(Keeping(s, C)) = Range(s) \cap C
         /\ Once(s) => Once(Keeping(s, C))
<1> USE DEF Once
<1> DEFINE n == Len(s)
           Upto(i) == {s[k] : k \in 1 .. i}
<1>0. PICK f : Keeps(f, S, s, C)
  BY KeepingSteps
<1>1. /\ f \in [0 .. n -> Seq(S)] /\ f[0] = <<>> /\ f[n] = Keeping(s, C)
      /\ \A i \in 1 .. n : f[i] = IF s[i] \in C THEN Append(f[i - 1], s[i]) ELSE f[i - 1]
  BY <1>0 DEF Keeps
<1>2. n \in Nat /\ DOMAIN s = 1 .. n /\ \A i \in 1 .. n : s[i] \in S
  OBVIOUS
<1> DEFINE Good(i) == Range(f[i]) = Upto(i) \cap C /\ (Once(s) => Once(f[i]))
           T == {i \in 0 .. n : Good(i)}
<1>3. 0 \in T
  <2>1. Range(f[0]) = {} /\ Upto(0) = {} /\ Once(f[0])
    BY <1>1 DEF Range
  <2> QED BY <1>2, <2>1
<1>4. ASSUME NEW i \in 0 .. n - 1, i \in T PROVE i + 1 \in T
  <2>1. i + 1 \in 1 .. n /\ (i + 1) - 1 = i /\ i + 1 \in 0 .. n /\ i \in 0 .. n /\ i \in Nat
    BY <1>2
  <2>2. f[i] \in Seq(S) /\ s[i + 1] \in S /\ Range(f[i]) = Upto(i) \cap C /\ (Once(s) => Once(f[i]))
    BY <1>1, <1>2, <1>4, <2>1
  <2>3. f[i + 1] = IF s[i + 1] \in C THEN Append(f[i], s[i + 1]) ELSE f[i]
    BY <1>1, <2>1
  <2>4. Upto(i + 1) = Upto(i) \cup {s[i + 1]}
    BY <2>1
  <2>5. CASE s[i + 1] \in C
    <3>1. f[i + 1] = Append(f[i], s[i + 1])
      BY <2>3, <2>5
    <3>2. Range(Append(f[i], s[i + 1])) = Range(f[i]) \cup {s[i + 1]}
      <4> HIDE DEF n, Upto
      <4> QED BY ONLY <2>2, AppendRange
    <3>3. Once(s) => Once(Append(f[i], s[i + 1]))
      <4>1. SUFFICES ASSUME Once(s) PROVE Once(Append(f[i], s[i + 1]))
        OBVIOUS
      <4>2. s[i + 1] \notin Upto(i)
        BY <1>2, <2>1, <4>1
      <4>3. s[i + 1] \notin Range(f[i]) /\ Once(f[i])
        BY <2>2, <4>1, <4>2
      <4> QED BY ONLY <2>2, <4>3, AppendDistinct
    <3>4. Range(f[i + 1]) = Upto(i + 1) \cap C
      <4> HIDE DEF Upto
      <4> QED BY <2>2, <2>4, <2>5, <3>1, <3>2
    <3> QED BY <2>1, <3>1, <3>3, <3>4
  <2>6. CASE s[i + 1] \notin C
    <3>1. f[i + 1] = f[i]
      BY <2>3, <2>6
    <3>2. Upto(i + 1) \cap C = Upto(i) \cap C
      <4> HIDE DEF Upto
      <4> QED BY <2>4, <2>6
    <3> QED BY <2>1, <2>2, <3>1, <3>2
  <2> QED BY <2>5, <2>6
<1>5. n \in T
  <2> HIDE DEF T
  <2> QED BY <1>2, <1>3, <1>4, Induction
<1>6. Upto(n) = Range(s)
  BY <1>2 DEF Range
<1>7. f[n] \in Seq(S)
  BY <1>1, <1>2
<1>8. Good(n)
  BY <1>5
<1> HIDE DEF n, Upto
<1> QED BY <1>1, <1>6, <1>7, <1>8

LEMMA KeepingIs ==
  ASSUME NEW S, NEW s \in Seq(S), NEW C
  PROVE  Keeping(s, C) \in Seq(S) /\ Range(Keeping(s, C)) = Range(s) \cap C
BY KeepingAll

LEMMA KeepingOnce ==
  ASSUME NEW S, NEW s \in Seq(S), NEW C, Once(s)
  PROVE  Once(Keeping(s, C))
BY KeepingAll

(***************************************************************************)
(* The breadth-first search.                                               *)
(***************************************************************************)
\* From a parameter along dependencies, all but the first in `within`.
Walks(from, within) ==
  {p \in Seq(Ids) : /\ p # <<>> /\ p[1] = from
                    /\ \A i \in 1 .. Len(p) - 1 : p[i + 1] \in needs[p[i]] \cap within}

\* The queue holds walks, the shorter first, each a nearest to its last.
Queued(q, seen, W) ==
  /\ \A i \in DOMAIN q : q[i] \in W /\ Last(q[i]) \in seen
  /\ \A i, j \in DOMAIN q : Len(q[i]) <= Len(q[1]) + 1 /\ (i <= j => Len(q[i]) <= Len(q[j]))
  /\ \A i \in DOMAIN q : \A p \in W : Last(p) = Last(q[i]) => Len(q[i]) <= Len(p)
\* Who was seen and waits no more leads to no goal, and within to what was seen.
Expanded(q, seen, within, goal) ==
  \A d \in seen : (\A i \in DOMAIN q : Last(q[i]) # d) =>
                     needs[d] \cap goal = {} /\ needs[d] \cap within \subseteq seen
\* As far as the first of the queue, all is seen.
SeenUpTo(q, seen, W) == q # <<>> => \A p \in W : Len(p) <= Len(q[1]) => Last(p) \in seen
\* A nearest goal.
Nearest(r, W, goal) ==
  \E p \in W : \E g \in goal \cap needs[Last(p)] :
     r = Append(p, g) /\ \A o \in W : needs[Last(o)] \cap goal # {} => Len(p) <= Len(o)

Hunting(q, seen, from, within, goal) ==
  /\ Queued(q, seen, Walks(from, within))
  /\ Expanded(q, seen, within, goal)
  /\ SeenUpTo(q, seen, Walks(from, within))

HuntState == [queue : Seq(Seq(Ids)), seen : SUBSET Ids, found : Seq(Ids)]
HuntInv(x, from, within, goal) ==
  IF x.found = <<>>
  THEN from \in x.seen /\ Hunting(x.queue, x.seen, from, within, goal)
  ELSE Nearest(x.found, Walks(from, within), goal)
Hunt(from, within, goal) == {x \in HuntState : HuntInv(x, from, within, goal)}

LEMMA AppendIs ==
  ASSUME NEW S, NEW p \in Seq(S), NEW w \in S
  PROVE  /\ Append(p, w) \in Seq(S) /\ Len(Append(p, w)) = Len(p) + 1 /\ Len(p) \in Nat
         /\ \A i \in 1 .. Len(p) : Append(p, w)[i] = p[i]
         /\ Append(p, w)[Len(p) + 1] = w /\ Append(p, w) # <<>> /\ Last(Append(p, w)) = w
<1>1. /\ Append(p, w) \in Seq(S) /\ Len(Append(p, w)) = Len(p) + 1 /\ Len(p) \in Nat
      /\ \A i \in 1 .. Len(p) : Append(p, w)[i] = p[i]
      /\ Append(p, w)[Len(p) + 1] = w
  OBVIOUS
<1>2. Append(p, w) # <<>> /\ Last(Append(p, w)) = w
  BY <1>1, EmptySeq DEF Last
<1> QED BY <1>1, <1>2

LEMMA WalkIs ==
  ASSUME Shape, NEW from, NEW within, NEW p \in Walks(from, within)
  PROVE  p \in Seq(Ids) /\ Len(p) \in Nat \ {0} /\ Last(p) \in Ids /\ Last(p) = p[Len(p)]
<1>1. p \in Seq(Ids) /\ p # <<>>
  BY DEF Walks
<1>2. Len(p) \in Nat \ {0}
  BY <1>1, EmptySeq
<1> QED BY <1>1, <1>2 DEF Last

LEMMA WalkGrows ==
  ASSUME Shape, NEW from, NEW within, NEW p \in Walks(from, within), NEW w \in Ids,
         w \in needs[Last(p)] \cap within
  PROVE  Append(p, w) \in Walks(from, within) /\ Len(Append(p, w)) = Len(p) + 1 /\ Last(Append(p, w)) = w
<1>1. p \in Seq(Ids) /\ Len(p) \in Nat \ {0} /\ Last(p) = p[Len(p)]
  BY WalkIs
<1>2. /\ Append(p, w) \in Seq(Ids) /\ Len(Append(p, w)) = Len(p) + 1
      /\ \A i \in 1 .. Len(p) : Append(p, w)[i] = p[i]
      /\ Append(p, w)[Len(p) + 1] = w /\ Append(p, w) # <<>> /\ Last(Append(p, w)) = w
  BY <1>1, AppendIs
<1>3. p[1] = from /\ \A i \in 1 .. Len(p) - 1 : p[i + 1] \in needs[p[i]] \cap within
  BY DEF Walks
<1> DEFINE t == Append(p, w)
<1> HIDE DEF t
<1>4. t[1] = from
  BY <1>1, <1>2, <1>3 DEF t
<1>5. ASSUME NEW i \in 1 .. Len(t) - 1 PROVE t[i + 1] \in needs[t[i]] \cap within
  <2>1. CASE i = Len(p)
    BY <1>1, <1>2, <2>1 DEF t
  <2>2. CASE i \in 1 .. Len(p) - 1
    <3>1. i \in 1 .. Len(p) /\ i + 1 \in 1 .. Len(p)
      BY <1>1, <2>2
    <3> QED BY <1>2, <1>3, <2>2, <3>1 DEF t
  <2> QED BY <1>1, <1>2, <2>1, <2>2 DEF t
<1>6. t \in Walks(from, within)
  BY <1>2, <1>4, <1>5 DEF t, Walks
<1> QED BY <1>2, <1>6 DEF t

LEMMA WalkShrinks ==
  ASSUME Shape, NEW from, NEW within, NEW p \in Walks(from, within), Len(p) # 1
  PROVE  \E o \in Walks(from, within) : Len(o) = Len(p) - 1 /\ Last(p) \in needs[Last(o)] \cap within
<1>1. p \in Seq(Ids) /\ Len(p) \in Nat \ {0} /\ Last(p) = p[Len(p)] /\ p # <<>>
  BY WalkIs DEF Walks
<1>2. p[1] = from /\ \A i \in 1 .. Len(p) - 1 : p[i + 1] \in needs[p[i]] \cap within
  BY DEF Walks
<1>3. /\ Front(p) \in Seq(Ids) /\ Len(Front(p)) = Len(p) - 1
      /\ \A i \in 1 .. Len(p) - 1 : Front(p)[i] = p[i]
  BY <1>1, FrontIs
<1> DEFINE o == Front(p)
<1> HIDE DEF o
<1>4. Len(p) - 1 \in Nat \ {0} /\ Len(p) - 1 \in 1 .. Len(p) - 1 /\ 1 \in 1 .. Len(p) - 1
  <2>1. Len(p) \in Nat /\ Len(p) # 0 /\ Len(p) # 1
    BY <1>1
  <2>2. \A k \in Nat : k # 0 /\ k # 1 => k - 1 \in Nat \ {0} /\ k - 1 \in 1 .. k - 1 /\ 1 \in 1 .. k - 1
    OBVIOUS
  <2> QED BY <2>1, <2>2, Zenon
<1>5. o # <<>> /\ o[1] = from /\ Last(o) = p[Len(p) - 1]
  BY <1>2, <1>3, <1>4, EmptySeq DEF o, Last
<1>6. ASSUME NEW i \in 1 .. Len(o) - 1 PROVE o[i + 1] \in needs[o[i]] \cap within
  <2>1. i \in 1 .. Len(p) - 1 /\ i + 1 \in 1 .. Len(p) - 1
    BY <1>1, <1>3 DEF o
  <2> QED BY <1>2, <1>3, <2>1 DEF o
<1>7. o \in Walks(from, within)
  BY <1>3, <1>5, <1>6 DEF o, Walks
<1>8. Last(p) \in needs[Last(o)] \cap within
  <2>1. p[(Len(p) - 1) + 1] \in needs[p[Len(p) - 1]] \cap within
    BY <1>2, <1>4
  <2>2. (Len(p) - 1) + 1 = Len(p)
    BY <1>1
  <2> QED BY <1>1, <1>5, <2>1, <2>2
<1> QED BY <1>3, <1>7, <1>8 DEF o

\* t is q without its head, and then g.
Follows(P, q, n, g, t) ==
  /\ t \in Seq(P) /\ Len(t) = Len(q) - 1 + n /\ DOMAIN t = 1 .. Len(q) - 1 + n
  /\ \A i \in DOMAIN t : i <= Len(q) - 1 => i + 1 \in DOMAIN q /\ t[i] = q[i + 1]
  /\ \A i \in DOMAIN t : ~ (i <= Len(q) - 1) => i - (Len(q) - 1) \in 1 .. n /\ t[i] = g[i - (Len(q) - 1)]

LEMMA QueueIs ==
  ASSUME NEW P, NEW q \in Seq(P), q # <<>>, NEW n \in Nat, NEW g \in [1 .. n -> P]
  PROVE  Follows(P, q, n, g, Tail(q) \o g)
<1>0. PICK t : t = Tail(q) \o g
  OBVIOUS
<1>1. g \in Seq(P) /\ Len(g) = n
  OBVIOUS
<1>2. Len(q) \in Nat \ {0} /\ DOMAIN q = 1 .. Len(q)
  BY EmptySeq
<1>3. /\ Tail(q) \in Seq(P) /\ Len(Tail(q)) = Len(q) - 1
      /\ \A i \in 1 .. Len(q) - 1 : Tail(q)[i] = q[i + 1]
  BY HeadTailProperties
<1>4. /\ t \in Seq(P) /\ Len(t) = Len(q) - 1 + n
      /\ \A i \in 1 .. Len(q) - 1 + n : t[i] = IF i <= Len(q) - 1 THEN Tail(q)[i] ELSE g[i - (Len(q) - 1)]
  <2>1. \A s1, s2 \in Seq(P) : /\ s1 \o s2 \in Seq(P) /\ Len(s1 \o s2) = Len(s1) + Len(s2)
                                /\ \A i \in 1 .. Len(s1) + Len(s2) :
                                     (s1 \o s2)[i] = IF i <= Len(s1) THEN s1[i] ELSE s2[i - Len(s1)]
    BY ConcatProperties
  <2>2. PICK r : r = Tail(q)
    OBVIOUS
  <2>3. /\ t \in Seq(P) /\ Len(t) = Len(r) + Len(g)
        /\ \A i \in 1 .. Len(r) + Len(g) : t[i] = IF i <= Len(r) THEN r[i] ELSE g[i - Len(r)]
    BY <1>0, <1>1, <1>3, <2>1, <2>2, Zenon
  <2>4. Len(r) = Len(q) - 1 /\ Len(g) = n
    BY <1>1, <1>3, <2>2
  <2> QED BY ONLY <2>2, <2>3, <2>4
<1>5. DOMAIN t = 1 .. Len(q) - 1 + n
  BY <1>4
<1>6. ASSUME NEW i \in DOMAIN t
      PROVE  /\ i <= Len(q) - 1 => i + 1 \in DOMAIN q /\ t[i] = q[i + 1]
             /\ ~ (i <= Len(q) - 1) => i - (Len(q) - 1) \in 1 .. n /\ t[i] = g[i - (Len(q) - 1)]
  <2>1. i \in 1 .. Len(q) - 1 + n
    BY <1>5
  <2>2. CASE i <= Len(q) - 1
    <3>1. i \in 1 .. Len(q) - 1 /\ i + 1 \in 1 .. Len(q)
      BY <1>2, <2>1, <2>2
    <3> QED BY <1>2, <1>3, <1>4, <2>1, <2>2, <3>1
  <2>3. CASE ~ (i <= Len(q) - 1)
    <3>1. i - (Len(q) - 1) \in 1 .. n
      BY <1>2, <2>1, <2>3
    <3> QED BY <1>4, <2>1, <2>3, <3>1
  <2> QED BY <2>2, <2>3
<1> QED BY <1>0, <1>4, <1>5, <1>6 DEF Follows

LEMMA QueuedIs ==
  ASSUME Shape, NEW from, NEW within, NEW seen, NEW q \in Seq(Seq(Ids)),
         Queued(q, seen, Walks(from, within))
  PROVE  /\ Len(q) \in Nat /\ DOMAIN q = 1 .. Len(q) /\ (q # <<>> => 1 \in DOMAIN q)
         /\ \A i \in DOMAIN q :
              /\ q[i] \in Walks(from, within) /\ Last(q[i]) \in seen /\ Last(q[i]) \in Ids
              /\ Len(q[i]) \in Nat \ {0} /\ Len(q[1]) <= Len(q[i]) /\ Len(q[i]) <= Len(q[1]) + 1
<1>1. Len(q) \in Nat /\ DOMAIN q = 1 .. Len(q)
  OBVIOUS
<1>2. q # <<>> => 1 \in DOMAIN q
  <2>1. q # <<>> => Len(q) # 0
    BY EmptySeq
  <2> QED BY <1>1, <2>1
<1>3. \A i \in DOMAIN q : 1 \in DOMAIN q /\ 1 <= i
  BY <1>1
<1>4. \A i \in DOMAIN q : q[i] \in Walks(from, within) /\ Last(q[i]) \in seen
  BY DEF Queued
<1>5. \A i \in DOMAIN q : Len(q[1]) <= Len(q[i]) /\ Len(q[i]) <= Len(q[1]) + 1
  BY <1>3 DEF Queued
<1> QED BY <1>1, <1>2, <1>4, <1>5, WalkIs

(* The head of the queue has no goal among its needs. *)
NewQueue(q, fresh) == Tail(q) \o [i \in DOMAIN fresh |-> Append(Head(q), fresh[i])]
LEMMA HuntGoesOn ==
  ASSUME Shape, NEW from \in Ids, NEW within \in SUBSET Ids, NEW goal \in SUBSET Ids,
         NEW q \in Seq(Seq(Ids)), q # <<>>, NEW seen \in SUBSET Ids, NEW fresh \in Seq(Ids),
         Hunting(q, seen, from, within, goal),
         Range(fresh) = needs[Last(q[1])] \cap (within \ seen), needs[Last(q[1])] \cap goal = {}
  PROVE  /\ NewQueue(q, fresh) \in Seq(Seq(Ids)) /\ Len(NewQueue(q, fresh)) = Len(q) - 1 + Len(fresh)
         /\ Hunting(NewQueue(q, fresh), seen \cup Range(fresh), from, within, goal)
<1>0. PICK W, u, t, new : /\ W = Walks(from, within) /\ u = Last(q[1]) /\ t = NewQueue(q, fresh)
                          /\ new = seen \cup Range(fresh)
  OBVIOUS
<1>0a. Queued(q, seen, W) /\ Expanded(q, seen, within, goal) /\ SeenUpTo(q, seen, W)
  BY <1>0 DEF Hunting
<1> USE <1>0, <1>0a
<1> DEFINE n == Len(fresh)
           g == [i \in 1 .. n |-> Append(q[1], fresh[i])]
<1>1. /\ n \in Nat /\ DOMAIN fresh = 1 .. n
      /\ \A i \in 1 .. n : fresh[i] \in Range(fresh) /\ fresh[i] \in Ids
      /\ \A f \in Range(fresh) : \E i \in 1 .. n : f = fresh[i]
  BY DEF Range
<1>2. PICK h : h = Len(q[1])
  OBVIOUS
<1>3. /\ Len(q) \in Nat \ {0} /\ DOMAIN q = 1 .. Len(q) /\ 1 \in DOMAIN q
      /\ \A i \in DOMAIN q :
           /\ q[i] \in W /\ Last(q[i]) \in seen /\ Last(q[i]) \in Ids
           /\ Len(q[i]) \in Nat \ {0} /\ h <= Len(q[i]) /\ Len(q[i]) <= h + 1
  <2>1. q # <<>>
    OBVIOUS
  <2>2. /\ Len(q) \in Nat /\ DOMAIN q = 1 .. Len(q) /\ (q # <<>> => 1 \in DOMAIN q)
        /\ \A i \in DOMAIN q :
             /\ q[i] \in W /\ Last(q[i]) \in seen /\ Last(q[i]) \in Ids
             /\ Len(q[i]) \in Nat \ {0} /\ h <= Len(q[i]) /\ Len(q[i]) <= h + 1
    BY <1>2, QueuedIs
  <2> QED BY ONLY <2>1, <2>2
<1>4. h \in Nat \ {0} /\ u \in Ids /\ u \in seen
  BY <1>2, <1>3
<1>5. \A f \in Range(fresh) : /\ f \in Ids /\ f \in needs[u] /\ f \in within /\ f \notin seen
                              /\ Append(q[1], f) \in W /\ Len(Append(q[1], f)) = h + 1
                              /\ Last(Append(q[1], f)) = f
  <2>1. q[1] \in Walks(from, within)
    BY <1>3
  <2> QED BY <1>2, <2>1, WalkGrows
<1>6. g \in [1 .. n -> Seq(Ids)] /\ t = Tail(q) \o g
  <2>1. \A i \in 1 .. n : Append(q[1], fresh[i]) \in Seq(Ids)
    <3>1. \A p \in W : p \in Seq(Ids)
      BY DEF Walks
    <3> QED BY <1>1, <1>5, <3>1
  <2>2. Head(q) = q[1]
    OBVIOUS
  <2> QED BY <1>1, <2>1, <2>2 DEF NewQueue
<1>7. /\ t \in Seq(Seq(Ids)) /\ Len(t) = Len(q) - 1 + n /\ DOMAIN t = 1 .. Len(q) - 1 + n
      /\ \A i \in DOMAIN t : i <= Len(q) - 1 => i + 1 \in DOMAIN q /\ t[i] = q[i + 1]
      /\ \A i \in DOMAIN t : ~ (i <= Len(q) - 1) => i - (Len(q) - 1) \in 1 .. n /\ t[i] = g[i - (Len(q) - 1)]
  <2> DEFINE P == Seq(Ids)
  <2>1. q \in Seq(P) /\ q # <<>> /\ g \in [1 .. n -> P]
    BY <1>6
  <2> HIDE DEF P, g, n
  <2>2. Follows(P, q, n, g, t)
    BY ONLY <1>1, <1>6, <2>1, QueueIs
  <2> QED BY <2>2 DEF P, Follows
<1>8. \A i \in DOMAIN t : ~ (i <= Len(q) - 1) => \E f \in Range(fresh) : t[i] = Append(q[1], f)
  <2>1. \A k \in 1 .. n : g[k] = Append(q[1], fresh[k])
    OBVIOUS
  <2> HIDE DEF g, n
  <2>2. ASSUME NEW i \in DOMAIN t, ~ (i <= Len(q) - 1) PROVE \E f \in Range(fresh) : t[i] = Append(q[1], f)
    <3>1. PICK k : k = i - (Len(q) - 1)
      OBVIOUS
    <3>2. k \in 1 .. n /\ t[i] = g[k]
      BY ONLY <1>7, <2>2, <3>1
    <3>3. t[i] = Append(q[1], fresh[k]) /\ fresh[k] \in Range(fresh)
      BY ONLY <1>1, <2>1, <3>2
    <3> QED BY <3>3
  <2> QED BY <2>2
<1> HIDE DEF g, n
<1>9. \A i \in DOMAIN t : /\ t[i] \in W /\ Last(t[i]) \in new
                          /\ Len(t[i]) \in Nat /\ h <= Len(t[i]) /\ Len(t[i]) <= h + 1
  <2>1. ASSUME NEW i \in DOMAIN t
        PROVE  /\ t[i] \in W /\ Last(t[i]) \in new
               /\ Len(t[i]) \in Nat /\ h <= Len(t[i]) /\ Len(t[i]) <= h + 1
    <3>1. CASE i <= Len(q) - 1
      BY <1>3, <1>7, <3>1
    <3>2. CASE ~ (i <= Len(q) - 1)
      <4>1. PICK f \in Range(fresh) : t[i] = Append(q[1], f)
        BY <1>8, <3>2
      <4>2. f \in new
        OBVIOUS
      <4> QED BY ONLY <1>4, <1>5, <4>1, <4>2
    <3> QED BY <3>1, <3>2
  <2> QED BY <2>1
<1>10. \A i, j \in DOMAIN t : i <= j => Len(t[i]) <= Len(t[j])
  <2>1. ASSUME NEW i \in DOMAIN t, NEW j \in DOMAIN t, i <= j PROVE Len(t[i]) <= Len(t[j])
    <3>0. i \in Nat /\ j \in Nat
      BY <1>1, <1>3, <1>7
    <3>1. CASE j <= Len(q) - 1
      <4>1. i <= Len(q) - 1
        BY <1>3, <2>1, <3>0, <3>1
      <4>2. i + 1 \in DOMAIN q /\ j + 1 \in DOMAIN q /\ t[i] = q[i + 1] /\ t[j] = q[j + 1]
        BY <1>7, <3>1, <4>1
      <4>3. i + 1 <= j + 1
        BY <2>1, <3>0
      <4> QED BY <4>2, <4>3 DEF Queued
    <3>2. CASE ~ (j <= Len(q) - 1)
      <4>1. PICK f \in Range(fresh) : t[j] = Append(q[1], f)
        BY <1>8, <3>2
      <4>2. Len(t[j]) = h + 1
        BY <1>5, <4>1
      <4> QED BY <1>9, <4>2
    <3> QED BY <3>1, <3>2
  <2> QED BY <2>1
<1>11. \A i \in DOMAIN t : \A p \in W : Last(p) = Last(t[i]) => Len(t[i]) <= Len(p)
  <2>1. ASSUME NEW i \in DOMAIN t, NEW p \in W, Last(p) = Last(t[i]) PROVE Len(t[i]) <= Len(p)
    <3>1. CASE i <= Len(q) - 1
      <4>1. i + 1 \in DOMAIN q /\ t[i] = q[i + 1]
        BY <1>7, <3>1
      <4> QED BY <2>1, <4>1 DEF Queued
    <3>2. CASE ~ (i <= Len(q) - 1)
      <4>1. PICK f \in Range(fresh) : t[i] = Append(q[1], f)
        BY <1>8, <3>2
      <4>2. Last(p) \notin seen /\ Len(t[i]) = h + 1
        BY <1>5, <2>1, <4>1
      <4>3. ~ (Len(p) <= h)
        BY <1>2, <4>2 DEF SeenUpTo
      <4>4. Len(p) \in Nat
        BY WalkIs
      <4> QED BY <1>4, <4>2, <4>3, <4>4
    <3> QED BY <3>1, <3>2
  <2> QED BY <2>1
<1>12. Queued(t, new, W)
  <2>1. \A i \in DOMAIN t : Len(t[i]) <= Len(t[1]) + 1
    <3>1. ASSUME NEW i \in DOMAIN t PROVE Len(t[i]) <= Len(t[1]) + 1
      <4>1. 1 \in DOMAIN t
        BY <1>1, <1>3, <1>7
      <4>2. h <= Len(t[1]) /\ Len(t[1]) \in Nat /\ Len(t[i]) <= h + 1 /\ Len(t[i]) \in Nat
        BY <1>9, <4>1
      <4> QED BY ONLY <1>4, <4>2
    <3> QED BY <3>1
  <2> QED BY <1>9, <1>10, <1>11, <2>1 DEF Queued
<1>13. Expanded(t, new, within, goal)
  <2>1. ASSUME NEW d \in new, \A i \in DOMAIN t : Last(t[i]) # d
        PROVE  needs[d] \cap goal = {} /\ needs[d] \cap within \subseteq new
    <3>1. d \notin Range(fresh)
      <4>1. SUFFICES ASSUME d \in Range(fresh) PROVE FALSE
        OBVIOUS
      <4>2. PICK k \in 1 .. n : d = fresh[k]
        BY <1>1, <4>1
      <4>3. PICK i : i = Len(q) - 1 + k
        OBVIOUS
      <4>4. i \in DOMAIN t /\ ~ (i <= Len(q) - 1) /\ i - (Len(q) - 1) = k
        BY <1>1, <1>3, <1>7, <4>3
      <4>5. t[i] = Append(q[1], d)
        BY <1>7, <4>2, <4>4 DEF g
      <4> QED BY <1>5, <2>1, <4>1, <4>4, <4>5
    <3>2. d \in seen
      BY <3>1
    <3>3. CASE d = u
      BY <3>3
    <3>4. CASE d # u
      <4>1. ASSUME NEW i \in DOMAIN q PROVE Last(q[i]) # d
        <5>1. CASE i = 1
          BY <3>4, <5>1
        <5>2. CASE i # 1
          <6>1. i - 1 \in DOMAIN t /\ i - 1 <= Len(q) - 1 /\ (i - 1) + 1 = i
            BY <1>1, <1>3, <1>7, <5>2
          <6>2. t[i - 1] = q[i]
            BY <1>7, <6>1
          <6> QED BY <2>1, <6>1, <6>2
        <5> QED BY <5>1, <5>2
      <4> QED BY <3>2, <4>1 DEF Expanded
    <3> QED BY <3>3, <3>4
  <2> QED BY <2>1 DEF Expanded
<1>14. SeenUpTo(t, new, W)
  <2>1. ASSUME t # <<>>, NEW p \in W, Len(p) <= Len(t[1]) PROVE Last(p) \in new
    <3>1. 1 \in DOMAIN t /\ Len(t[1]) \in Nat /\ h <= Len(t[1]) /\ Len(t[1]) <= h + 1
      <4>1. Len(t) # 0
        BY <1>7, <2>1, EmptySeq
      <4>2. 1 \in DOMAIN t
        BY <1>1, <1>3, <1>7, <4>1
      <4> QED BY <1>9, <4>2
    <3>2. Len(p) \in Nat \ {0}
      BY WalkIs
    <3>3. CASE Len(p) <= h
      BY <1>2, <3>3 DEF SeenUpTo
    <3>4. CASE ~ (Len(p) <= h)
      <4>1. Len(p) = h + 1 /\ Len(t[1]) = h + 1 /\ Len(p) # 1 /\ Len(p) - 1 = h
        <5>1. \A a, b, c \in Nat : a <= b /\ b <= c + 1 /\ c >= 1 /\ ~ (a <= c) =>
                a = c + 1 /\ b = c + 1 /\ a # 1 /\ a - 1 = c
          OBVIOUS
        <5>2. h \in Nat /\ h >= 1 /\ Len(p) \in Nat /\ Len(t[1]) \in Nat
          BY ONLY <1>4, <3>1, <3>2
        <5> QED BY <2>1, <3>1, <3>4, <5>1, <5>2, Zenon
      <4>2. PICK o \in W : Len(o) = h /\ Last(p) \in needs[Last(o)] \cap within
        <5>1. Shape /\ p \in Walks(from, within) /\ W = Walks(from, within)
          OBVIOUS
        <5> QED BY ONLY <4>1, <5>1, WalkShrinks
      <4>3. Last(o) \in seen /\ Last(o) \in new
        BY <1>2, <1>4, <4>2 DEF SeenUpTo
      <4>4. ASSUME NEW i \in DOMAIN t, Last(t[i]) = Last(o) PROVE FALSE
        <5>1. Len(t[i]) <= h
          BY <1>11, <4>2, <4>4
        <5>2. Len(t[1]) <= Len(t[i]) /\ Len(t[i]) \in Nat
          <6>1. 1 <= i
            BY <1>7
          <6> QED BY <1>9, <1>10, <3>1, <4>4, <6>1
        <5> QED BY ONLY <1>4, <4>1, <5>1, <5>2
      <4>5. needs[Last(o)] \cap within \subseteq new
        BY <1>13, <4>3, <4>4 DEF Expanded
      <4> QED BY <4>2, <4>5
    <3> QED BY <3>3, <3>4
  <2> QED BY <2>1 DEF SeenUpTo
<1> QED BY <1>7, <1>12, <1>13, <1>14 DEF n, Hunting

\* One more turn, if the search goes on.
Grown(x, y) ==
  y.found = <<>> /\ y.queue # <<>> =>
    /\ x.found = <<>> /\ x.queue # <<>>
    /\ Cardinality(y.seen) - Len(y.queue) = Cardinality(x.seen) - Len(x.queue) + 1

LEMMA NoGoalBefore ==
  ASSUME Shape, NEW from \in Ids, NEW within \in SUBSET Ids, NEW goal \in SUBSET Ids,
         NEW q \in Seq(Seq(Ids)), q # <<>>, NEW seen \in SUBSET Ids, NEW W, W = Walks(from, within),
         Queued(q, seen, W), Expanded(q, seen, within, goal), SeenUpTo(q, seen, W),
         NEW o \in W, needs[Last(o)] \cap goal # {}
  PROVE  Len(q[1]) <= Len(o)
<1>1. \A i \in DOMAIN q : Len(q[i]) \in Nat /\ Len(q[1]) <= Len(q[i]) /\ Len(q[1]) \in Nat
  <2>1. /\ Len(q) \in Nat /\ DOMAIN q = 1 .. Len(q) /\ (q # <<>> => 1 \in DOMAIN q)
        /\ \A i \in DOMAIN q : Len(q[i]) \in Nat \ {0} /\ Len(q[1]) <= Len(q[i])
    BY QueuedIs
  <2> QED BY ONLY <2>1
<1>2. Len(q[1]) \in Nat /\ Len(o) \in Nat
  <2>1. 1 \in DOMAIN q
    BY QueuedIs
  <2> QED BY <1>1, <2>1, WalkIs
<1>3. SUFFICES ASSUME ~ (Len(q[1]) <= Len(o)) PROVE FALSE
  OBVIOUS
<1>4. Len(o) <= Len(q[1]) /\ Len(o) < Len(q[1])
  BY ONLY <1>2, <1>3
<1>5. Last(o) \in seen
  BY <1>4 DEF SeenUpTo
<1>6. ASSUME NEW i \in DOMAIN q, Last(q[i]) = Last(o) PROVE FALSE
  <2>1. Len(q[i]) <= Len(o)
    BY <1>6 DEF Queued
  <2> QED BY ONLY <1>1, <1>2, <1>4, <2>1
<1> QED BY <1>5, <1>6 DEF Expanded

LEMMA TurnStep ==
  ASSUME IInv, phase # "graph", NEW from \in Ids, NEW within \in SUBSET Ids, NEW goal \in SUBSET Ids,
         NEW x \in Hunt(from, within, goal)
  PROVE  Turn(x, within, goal) \in Hunt(from, within, goal) /\ Grown(x, Turn(x, within, goal))
<1>1. PICK q, seen, W : q = x.queue /\ seen = x.seen /\ W = Walks(from, within)
  OBVIOUS
<1>2. x \in HuntState /\ HuntInv(x, from, within, goal) /\ q \in Seq(Seq(Ids)) /\ seen \in SUBSET Ids
  BY <1>1 DEF Hunt, HuntState
<1>3. CASE x.found # <<>> \/ q = <<>>
  <2>1. Turn(x, within, goal) = x
    BY <1>1, <1>3 DEF Turn
  <2> QED BY <1>1, <1>3, <2>1 DEF Grown
<1>4. CASE x.found = <<>> /\ q # <<>>
  <2>1. /\ from \in seen /\ Queued(q, seen, W) /\ Expanded(q, seen, within, goal) /\ SeenUpTo(q, seen, W)
    BY <1>1, <1>2, <1>4 DEF HuntInv, Hunting
  <2>2. PICK u : u = Last(q[1])
    OBVIOUS
  <2>3. q[1] \in W /\ u \in Ids /\ q[1] \in Seq(Ids) /\ Head(q) = q[1]
    <3>1. Shape /\ W = Walks(from, within)
      BY <1>1 DEF IInv
    <3>2. q[1] \in W /\ u \in Ids
      <4>1. 1 \in DOMAIN q
        BY <1>1, <1>2, <1>4, <2>1, <3>1, QueuedIs
      <4> QED BY <1>1, <1>2, <2>1, <2>2, <3>1, <4>1, QueuedIs
    <3>3. q[1] \in Seq(Ids)
      BY <3>1, <3>2 DEF Walks
    <3> QED BY <3>2, <3>3
  <2>4. PICK hits, fresh : hits = Keeping(deps[u], goal) /\ fresh = Keeping(deps[u], within \ seen)
    OBVIOUS
  <2>5. /\ deps[u] \in Seq(Ids) /\ Range(deps[u]) = needs[u]
        /\ Once(deps[u])
    BY <2>3, EdgesAre DEF Once
  <2>6. hits \in Seq(Ids) /\ Range(hits) = needs[u] \cap goal
    BY <2>4, <2>5, KeepingIs
  <2>7. /\ fresh \in Seq(Ids) /\ Range(fresh) = needs[u] \cap (within \ seen)
        /\ Once(fresh)
    <3>1. fresh \in Seq(Ids) /\ Range(fresh) = needs[u] \cap (within \ seen)
      BY <2>4, <2>5, KeepingIs
    <3>2. Once(fresh)
      BY <2>4, <2>5, KeepingOnce
    <3> QED BY <3>1, <3>2
  <2>8. CASE hits # <<>>
    <3>1. PICK g : g = hits[1]
      OBVIOUS
    <3>2. g \in goal \cap needs[u] /\ g \in Ids
      <4>1. 1 \in DOMAIN hits
        BY <2>6, <2>8
      <4>2. g \in Range(hits)
        BY <3>1, <4>1 DEF Range
      <4> QED BY <2>6, <4>2
    <3>3. PICK r : r = Append(q[1], g)
      OBVIOUS
    <3>4. r \in Seq(Ids) /\ r # <<>>
      BY <2>3, <3>2, <3>3, AppendIs
    <3>5. PICK y : y = Turn(x, within, goal)
      OBVIOUS
    <3>6. y = [x EXCEPT !.found = r]
      BY <1>1, <1>4, <2>2, <2>3, <2>4, <2>8, <3>1, <3>3, <3>5 DEF Turn
    <3>7. y \in HuntState /\ y.found = r
      BY <1>2, <3>4, <3>6 DEF HuntState
    <3>8. Nearest(r, W, goal)
      <4>1. \A o \in W : needs[Last(o)] \cap goal # {} => Len(q[1]) <= Len(o)
        BY <1>1, <1>2, <1>4, <2>1, NoGoalBefore DEF IInv
      <4> QED BY <2>2, <2>3, <3>2, <3>3, <4>1 DEF Nearest
    <3>9. y \in Hunt(from, within, goal)
      BY <1>1, <3>4, <3>7, <3>8 DEF Hunt, HuntInv
    <3>10. Grown(x, y)
      BY <3>4, <3>7 DEF Grown
    <3> QED BY <3>5, <3>9, <3>10
  <2>9. CASE hits = <<>>
    <3>1. needs[u] \cap goal = {}
      <4>1. Range(hits) = {}
        BY <2>9 DEF Range
      <4> QED BY <2>6, <4>1
    <3>2. PICK t, new : /\ t = NewQueue(q, fresh)
                        /\ new = seen \cup Range(fresh)
      OBVIOUS
    <3>3. /\ t \in Seq(Seq(Ids)) /\ Len(t) = Len(q) - 1 + Len(fresh)
          /\ Queued(t, new, W) /\ Expanded(t, new, within, goal) /\ SeenUpTo(t, new, W)
      <4>1. /\ Shape /\ from \in Ids /\ within \in SUBSET Ids /\ goal \in SUBSET Ids
            /\ W = Walks(from, within) /\ q # <<>>
        BY <1>1, <1>4 DEF IInv
      <4>2. Hunting(q, seen, from, within, goal)
        BY <2>1, <4>1 DEF Hunting
      <4>3. Range(fresh) = needs[Last(q[1])] \cap (within \ seen) /\ needs[Last(q[1])] \cap goal = {}
        BY <2>2, <2>7, <3>1
      <4>4. /\ NewQueue(q, fresh) \in Seq(Seq(Ids)) /\ Len(NewQueue(q, fresh)) = Len(q) - 1 + Len(fresh)
            /\ Hunting(NewQueue(q, fresh), seen \cup Range(fresh), from, within, goal)
        BY ONLY <1>2, <2>7, <4>1, <4>2, <4>3, HuntGoesOn
      <4> QED BY <3>2, <4>1, <4>4 DEF Hunting
    <3>4. PICK y : y = Turn(x, within, goal)
      OBVIOUS
    <3>5. y = [x EXCEPT !.seen = new, !.queue = t]
      BY <1>1, <1>4, <2>2, <2>3, <2>4, <2>9, <3>2, <3>4 DEF Turn, NewQueue
    <3>6. new \in SUBSET Ids /\ from \in new
      BY <1>2, <2>1, <2>7, <3>2
    <3>7. y \in HuntState /\ y.found = <<>> /\ y.queue = t /\ y.seen = new
      BY <1>2, <1>4, <3>3, <3>5, <3>6 DEF HuntState
    <3>8. y \in Hunt(from, within, goal)
      BY <1>1, <3>3, <3>6, <3>7 DEF Hunt, HuntInv, Hunting
    <3>9. Cardinality(new) = Cardinality(seen) + Len(fresh) /\ Cardinality(seen) \in Nat /\ Len(fresh) \in Nat
      <4>1. IsFiniteSet(seen) /\ Cardinality(seen) \in Nat
        BY <1>2, IdsAreFinite, FS_Subset, FS_CardinalityType DEF IInv
      <4>2. IsFiniteSet(Range(fresh)) /\ Cardinality(Range(fresh)) = Len(fresh) /\ Len(fresh) \in Nat
        <5>1. IsFiniteSet(Ids)
          BY IdsAreFinite DEF IInv
        <5> QED BY ONLY <2>7, <5>1, Distinct, LenProperties DEF Once
      <4>3. seen \cap Range(fresh) = {}
        BY <2>7
      <4>4. Cardinality(seen \cap Range(fresh)) = 0
        BY <4>3, FS_EmptySet
      <4>5. Cardinality(new) = Cardinality(seen) + Cardinality(Range(fresh)) - Cardinality(seen \cap Range(fresh))
        BY <3>2, <4>1, <4>2, FS_Union
      <4> QED BY ONLY <4>1, <4>2, <4>4, <4>5
    <3>10. Len(q) \in Nat
      BY <1>2
    <3>11. Cardinality(new) - Len(t) = Cardinality(seen) - Len(q) + 1
      BY ONLY <3>3, <3>9, <3>10
    <3>12. Grown(x, y)
      BY <1>1, <1>4, <3>7, <3>11 DEF Grown
    <3> QED BY <3>4, <3>8, <3>12
  <2> QED BY <2>8, <2>9
<1> QED BY <1>3, <1>4

Start(from) == [queue |-> <<(<<from>>)>>, seen |-> {from}, found |-> <<>>]
LEMMA HuntStarts ==
  ASSUME Shape, NEW from \in Ids, NEW within \in SUBSET Ids, NEW goal \in SUBSET Ids
  PROVE  Start(from) \in Hunt(from, within, goal)
<1>1. PICK p : p = <<from>>
  OBVIOUS
<1>2. p \in Seq(Ids) /\ Len(p) = 1 /\ p[1] = from /\ p # <<>> /\ Last(p) = from
  BY <1>1 DEF Last
<1>3. p \in Walks(from, within)
  <2>1. \A i \in 1 .. Len(p) - 1 : FALSE
    BY <1>2
  <2> QED BY <1>2, <2>1 DEF Walks
<1>4. PICK q : q = <<p>>
  OBVIOUS
<1>5. q \in Seq(Seq(Ids)) /\ DOMAIN q = {1} /\ q[1] = p
  BY <1>2, <1>4
<1>6. \A o \in Walks(from, within) : 1 <= Len(o) /\ (Len(o) <= 1 => Last(o) = from)
  <2>1. ASSUME NEW o \in Walks(from, within) PROVE 1 <= Len(o) /\ (Len(o) <= 1 => Last(o) = from)
    <3>1. Len(o) \in Nat \ {0} /\ Last(o) = o[Len(o)] /\ o[1] = from
      BY WalkIs DEF Walks
    <3>2. 1 <= Len(o) /\ (Len(o) <= 1 => Len(o) = 1)
      BY ONLY <3>1
    <3> QED BY <3>1, <3>2
  <2> QED BY <2>1
<1>7. Queued(q, {from}, Walks(from, within))
  <2>1. \A i \in DOMAIN q : i = 1 /\ q[i] = p
    BY <1>5
  <2>2. \A i \in DOMAIN q : q[i] \in Walks(from, within) /\ Last(q[i]) \in {from} /\ Len(q[i]) = 1
    BY <1>2, <1>3, <2>1
  <2>3. \A i, j \in DOMAIN q : Len(q[i]) <= Len(q[1]) + 1 /\ (i <= j => Len(q[i]) <= Len(q[j]))
    <3>1. Len(q[1]) = 1
      BY <1>2, <1>5
    <3>2. ASSUME NEW i \in DOMAIN q, NEW j \in DOMAIN q
          PROVE  Len(q[i]) <= Len(q[1]) + 1 /\ Len(q[i]) <= Len(q[j])
      <4>1. Len(q[i]) = 1 /\ Len(q[j]) = 1
        BY <2>2
      <4> QED BY ONLY <3>1, <4>1
    <3> QED BY <3>2
  <2>4. \A i \in DOMAIN q : \A o \in Walks(from, within) : Last(o) = Last(q[i]) => Len(q[i]) <= Len(o)
    BY <1>6, <2>2
  <2> QED BY <2>2, <2>3, <2>4 DEF Queued
<1>8. Expanded(q, {from}, within, goal)
  BY <1>2, <1>5 DEF Expanded
<1>9. SeenUpTo(q, {from}, Walks(from, within))
  BY <1>2, <1>5, <1>6 DEF SeenUpTo
<1>10. Start(from).queue = q /\ Start(from).seen = {from} /\ Start(from).found = <<>> /\ Start(from) \in HuntState
  <2>1. <<>> \in Seq(Ids)
    OBVIOUS
  <2> QED BY <1>1, <1>4, <1>5, <2>1 DEF Start, HuntState
<1> QED BY <1>7, <1>8, <1>9, <1>10 DEF Hunt, HuntInv, Hunting

Hunts(f, from, within, goal) ==
  /\ f \in [0 .. Len(doc) -> Hunt(from, within, goal)]
  /\ f[0] = Start(from) /\ f[Len(doc)].found = Search(from, within, goal)
  /\ \A i \in 1 .. Len(doc) : f[i] = Turn(f[i - 1], within, goal)

LEMMA SearchSteps ==
  ASSUME IInv, phase # "graph", NEW from \in Ids, NEW within \in SUBSET Ids, NEW goal \in SUBSET Ids
  PROVE  \E f : Hunts(f, from, within, goal)
<1> DEFINE n == Len(doc)
           H == Hunt(from, within, goal)
           G == [i \in 1 .. n |-> [x \in H |-> Turn(x, within, goal)]]
           bfs[i \in 0 .. n] ==
             IF i = 0 THEN [queue |-> <<(<<from>>)>>, seen |-> {from}, found |-> <<>>]
             ELSE Turn(bfs[i - 1], within, goal)
<1>1. n \in Nat /\ Start(from) \in H
  BY IdsAreFinite, HuntStarts DEF IInv
<1>2. \A x \in H : Turn(x, within, goal) \in H
  BY TurnStep
<1>3. Stepper(G, n, H)
  <2> HIDE DEF n, H
  <2> QED BY ONLY <1>2 DEF Stepper
<1>4. PICK f : Iteration(f, n, H, Start(from), G)
  <2> HIDE DEF n, H, G
  <2> QED BY ONLY <1>1, <1>3, Iterates
<1>5. f \in [0 .. n -> H] /\ f[0] = Start(from) /\ \A i \in 1 .. n : f[i] = G[i][f[i - 1]]
  BY <1>4 DEF Iteration
<1>6. \A i \in 1 .. n : f[i] = Turn(f[i - 1], within, goal)
  <2>1. ASSUME NEW i \in 1 .. n PROVE f[i] = Turn(f[i - 1], within, goal)
    <3>1. i - 1 \in 0 .. n
      BY <1>1
    <3>2. f[i - 1] \in H
      BY <1>5, <3>1
    <3>3. f[i] = G[i][f[i - 1]]
      BY <1>5
    <3> HIDE DEF H, n
    <3> QED BY <3>2, <3>3
  <2> QED BY <2>1
<1> HIDE DEF G
<1>7. f = [i \in 0 .. n |-> IF i = 0 THEN [queue |-> <<(<<from>>)>>, seen |-> {from}, found |-> <<>>]
                            ELSE Turn(f[i - 1], within, goal)]
  <2>1. ASSUME NEW i \in 0 .. n
        PROVE  f[i] = IF i = 0 THEN Start(from) ELSE Turn(f[i - 1], within, goal)
    <3>1. i # 0 => i \in 1 .. n
      BY <1>1
    <3> QED BY <1>5, <1>6, <3>1
  <2> HIDE DEF n, H
  <2> QED BY <1>5, <2>1 DEF Start
<1>8. bfs = [i \in 0 .. n |-> IF i = 0 THEN [queue |-> <<(<<from>>)>>, seen |-> {from}, found |-> <<>>]
                              ELSE Turn(bfs[i - 1], within, goal)]
  <2> HIDE DEF n, H
  <2> QED BY <1>7
<1>9. Search(from, within, goal) = bfs[n].found
  BY DEF Search
<1> HIDE DEF bfs
<1>10. bfs[0] = Start(from) /\ \A i \in 1 .. n : bfs[i] = Turn(bfs[i - 1], within, goal)
  <2>1. ASSUME NEW i \in 0 .. n
        PROVE  bfs[i] = IF i = 0 THEN Start(from) ELSE Turn(bfs[i - 1], within, goal)
    <3> HIDE DEF n
    <3> QED BY <1>8 DEF Start
  <2>2. 0 \in 0 .. n /\ \A i \in 1 .. n : i \in 0 .. n /\ i # 0
    BY <1>1
  <2> HIDE DEF n
  <2> QED BY <2>1, <2>2
<1>11. bfs \in [0 .. n -> H]
  <2> DEFINE T == {i \in 0 .. n : bfs[i] \in H}
  <2>1. 0 \in T
    <3> HIDE DEF n, H
    <3> QED BY ONLY <1>1, <1>10
  <2>2. ASSUME NEW i \in 0 .. n - 1, i \in T PROVE i + 1 \in T
    <3>1. i + 1 \in 1 .. n /\ (i + 1) - 1 = i /\ i + 1 \in 0 .. n
      BY <1>1
    <3>2. bfs[i + 1] = Turn(bfs[i], within, goal)
      BY <1>10, <3>1
    <3>3. bfs[i] \in H
      BY <2>2
    <3> HIDE DEF H, n
    <3> QED BY <1>2, <3>1, <3>2, <3>3
  <2>3. \A m \in 0 .. n : m \in T
    <3>1. ASSUME NEW m \in 0 .. n PROVE m \in T
      <4>1. m \in Nat /\ \A i \in 0 .. m - 1 : i \in 0 .. n - 1
        BY <1>1
      <4> HIDE DEF T
      <4> QED BY <2>1, <2>2, <4>1, Induction
    <3> QED BY <3>1
  <2>4. DOMAIN bfs = 0 .. n /\ bfs = [i \in 0 .. n |-> bfs[i]]
    <3>1. DOMAIN bfs = 0 .. n
      BY <1>8
    <3> QED BY <1>8, <3>1
  <2> HIDE DEF n, H
  <2> QED BY <2>3, <2>4
<1>12. Hunts(bfs, from, within, goal)
  BY <1>9, <1>10, <1>11 DEF Hunts
<1> QED BY <1>12

(* The search finds a nearest goal, or has seen everything without one. *)
LEMMA SearchIs ==
  ASSUME IInv, phase # "graph", NEW from \in Ids, NEW within \in SUBSET Ids, NEW goal \in SUBSET Ids
  PROVE  \/ /\ Search(from, within, goal) # <<>>
            /\ Nearest(Search(from, within, goal), Walks(from, within), goal)
         \/ /\ Search(from, within, goal) = <<>>
            /\ \E seen \in SUBSET Ids :
                 from \in seen /\ \A d \in seen : needs[d] \cap goal = {} /\ needs[d] \cap within \subseteq seen
<1>1. PICK f : Hunts(f, from, within, goal)
  BY SearchSteps
<1>2. PICK n : n = Len(doc)
  OBVIOUS
<1>3. n \in Nat /\ Cardinality(Ids) = n /\ IsFiniteSet(Ids)
  BY <1>2, IdsAreFinite, FS_Interval DEF IInv, Ids
<1>4. /\ f \in [0 .. n -> Hunt(from, within, goal)]
      /\ f[0] = Start(from) /\ f[n].found = Search(from, within, goal)
      /\ \A i \in 1 .. n : f[i] = Turn(f[i - 1], within, goal)
  BY <1>1, <1>2 DEF Hunts
<1> DEFINE Count(x, i) == x.found = <<>> /\ x.queue # <<>> => Cardinality(x.seen) - Len(x.queue) = i
           T == {i \in 0 .. n : Count(f[i], i)}
<1>5. 0 \in T
  <2>1. Cardinality({from}) = 1 /\ Len(<<(<<from>>)>>) = 1
    BY FS_Singleton
  <2>2. Count(Start(from), 0)
    BY <2>1 DEF Start
  <2> QED BY <1>3, <1>4, <2>2
<1>6. ASSUME NEW i \in 0 .. n - 1, i \in T PROVE i + 1 \in T
  <2>1. i + 1 \in 1 .. n /\ (i + 1) - 1 = i /\ i + 1 \in 0 .. n /\ i \in 0 .. n
    BY <1>3
  <2>2. PICK x, y : x = f[i] /\ y = f[i + 1]
    OBVIOUS
  <2>3. x \in Hunt(from, within, goal) /\ y = Turn(x, within, goal) /\ Count(x, i)
    BY <1>4, <1>6, <2>1, <2>2
  <2>4. Grown(x, y)
    BY <2>3, TurnStep
  <2>5. Count(y, i + 1)
    BY <2>3, <2>4 DEF Grown
  <2> QED BY <2>1, <2>2, <2>5
<1>7. n \in T
  <2> HIDE DEF T
  <2> QED BY <1>3, <1>5, <1>6, Induction
<1>8. PICK x : x = f[n]
  OBVIOUS
<1>9. Count(x, n) /\ x \in Hunt(from, within, goal) /\ x.found = Search(from, within, goal)
  <2>1. n \in 0 .. n
    BY <1>3
  <2> QED BY <1>4, <1>7, <1>8, <2>1
<1>10. x \in HuntState /\ HuntInv(x, from, within, goal)
  BY <1>9 DEF Hunt
<1>11. CASE x.found # <<>>
  BY <1>9, <1>10, <1>11 DEF HuntInv
<1>12. CASE x.found = <<>>
  <2>1. from \in x.seen /\ Expanded(x.queue, x.seen, within, goal) /\ x.seen \in SUBSET Ids
    BY <1>10, <1>12 DEF HuntInv, HuntState, Hunting
  <2>2. x.queue = <<>>
    <3>1. SUFFICES ASSUME x.queue # <<>> PROVE FALSE
      OBVIOUS
    <3>2. Cardinality(x.seen) - Len(x.queue) = n
      BY <1>9, <1>12, <3>1
    <3>3. Len(x.queue) \in Nat \ {0}
      BY <1>10, <3>1, EmptySeq DEF HuntState
    <3>4. Cardinality(x.seen) \in Nat /\ Cardinality(x.seen) <= n
      BY <1>3, <2>1, FS_Subset, FS_CardinalityType
    <3> QED BY ONLY <1>3, <3>2, <3>3, <3>4
  <2>3. \A i \in DOMAIN x.queue : FALSE
    BY <2>2
  <2>4. \A d \in x.seen : needs[d] \cap goal = {} /\ needs[d] \cap within \subseteq x.seen
    BY <2>1, <2>3 DEF Expanded
  <2> QED BY <1>9, <1>12, <2>1, <2>4
<1> QED BY <1>11, <1>12

(***************************************************************************)
(* The cycles.  Each edge has the field of its first use.                  *)
(***************************************************************************)
FirstUse(p, q, i) ==
  /\ i \in DOMAIN Uses(p) /\ Means(doc[p].part, Uses(p)[i].name, q)
  /\ \A j \in DOMAIN Uses(p) : Means(doc[p].part, Uses(p)[j].name, q) => i <= j
SiteFits(p, q) ==
  \E i \in Nat : FirstUse(p, q, i) /\ <<p, q>> \in DOMAIN site /\ site[<<p, q>>] = Uses(p)[i].field
SitesAreFirst == \A p \in Ids : \A q \in Range(deps[p]) : SiteFits(p, q)

LEMMA UseStays ==
  ASSUME doc' = doc, needs' = needs
  PROVE  \A p, q, i : FirstUse(p, q, i)' <=> FirstUse(p, q, i)
<1>1. \A p : Uses(p)' = Uses(p)
  BY DocumentStays
<1>2. \A x, y, z : Means(x, y, z)' = Means(x, y, z)
  BY DocumentStays
<1> QED BY <1>1, <1>2 DEF FirstUse

LEMMA SitesStart == Init => SitesAreFirst
<1> SUFFICES ASSUME Init PROVE SitesAreFirst
  OBVIOUS
<1>1. \A p \in Ids : Range(deps[p]) = {}
  BY DEF Init, Range
<1> QED BY <1>1 DEF SitesAreFirst

LEMMA AddUseSite ==
  ASSUME IInv, SitesAreFirst, doc' = doc, needs' = needs,
         NEW p \in Ids, NEW q \in needs[p], NEW i \in DOMAIN Uses(p), p = cursor[1], i = cursor[2],
         Means(doc[p].part, Uses(p)[i].name, q),
         AddUse(p, q, Uses(p)[i].field)
  PROVE  SitesAreFirst'
<1>1. Ids' = Ids /\ \A r, s, k : FirstUse(r, s, k)' <=> FirstUse(r, s, k)
  BY DocumentStays, UseStays
<1>2. \A r : Uses(r)' = Uses(r)
  BY DocumentStays
<1>3. CASE q \in Range(deps[p])
  <2>1. deps' = deps /\ site' = site
    BY <1>3 DEF AddUse
  <2> QED BY <1>1, <1>2, <2>1 DEF SitesAreFirst, SiteFits, Range
<1>4. CASE q \notin Range(deps[p])
  <2>1. deps' = [deps EXCEPT ![p] = Append(deps[p], q)] /\ site' = With(site, <<p, q>>, Uses(p)[i].field)
    BY <1>4 DEF AddUse
  <2>2. deps[p] \in Seq(Ids) /\ q \in Ids /\ deps \in [Ids -> Seq(Ids)]
    BY NeedsMeans DEF IInv, Shape
  <2>3. \A r \in Ids : Range(deps'[r]) = IF r = p THEN Range(deps[p]) \cup {q} ELSE Range(deps[r])
    <3>1. Range(Append(deps[p], q)) = Range(deps[p]) \cup {q}
      BY ONLY <2>2, AppendRange
    <3>2. \A r \in Ids : deps'[r] = IF r = p THEN Append(deps[p], q) ELSE deps[r]
      BY <2>1, <2>2
    <3> QED BY <3>1, <3>2
  <2>4. /\ DOMAIN site' = DOMAIN site \cup {<<p, q>>} /\ site'[<<p, q>>] = Uses(p)[i].field
        /\ \A e \in DOMAIN site : e # <<p, q>> => site'[e] = site[e]
    BY <2>1 DEF With
  <2>5. i \in Nat /\ DOMAIN Uses(p) \subseteq Nat /\ p \in Nat
    BY UsesAreUses, IdsAreFinite DEF IInv
  <2>6. FirstUse(p, q, i)
    <3>1. ASSUME NEW j \in DOMAIN Uses(p), Means(doc[p].part, Uses(p)[j].name, q), j < i PROVE FALSE
      <4>1. Seen(p, j)
        BY <2>5, <3>1 DEF Seen
      <4>2. q \in Range(deps[p])
        BY <2>2, <3>1, <4>1 DEF IInv, GraphIsNeeds
      <4> QED BY <1>4, <4>2
    <3>2. \A j \in DOMAIN Uses(p) : Means(doc[p].part, Uses(p)[j].name, q) => i <= j
      BY <2>5, <3>1
    <3> QED BY <3>2 DEF FirstUse
  <2>7. ASSUME NEW r \in Ids, NEW s \in Range(deps'[r])
        PROVE  SiteFits(r, s)'
    <3>1. CASE <<r, s>> = <<p, q>>
      <4>1. r = p /\ s = q
        BY <3>1
      <4> QED BY <1>1, <1>2, <2>4, <2>5, <2>6, <4>1 DEF SiteFits
    <3>2. CASE <<r, s>> # <<p, q>>
      <4>1. s \in Range(deps[r])
        BY <2>3, <2>7, <3>2
      <4>2. PICK k \in Nat : FirstUse(r, s, k) /\ <<r, s>> \in DOMAIN site /\ site[<<r, s>>] = Uses(r)[k].field
        BY <4>1 DEF SitesAreFirst, SiteFits
      <4>3. <<r, s>> \in DOMAIN site' /\ site'[<<r, s>>] = site[<<r, s>>]
        BY <2>4, <3>2, <4>2
      <4> QED BY <1>1, <1>2, <4>2, <4>3 DEF SiteFits
    <3> QED BY <3>1, <3>2
  <2>8. \A r \in Ids : Range(deps[r])' = Range(deps'[r])
    BY DEF Range
  <2> QED BY <1>1, <2>7, <2>8 DEF SitesAreFirst
<1> QED BY <1>3, <1>4

LEMMA SitesStep == ASSUME IInv, SitesAreFirst, [Next]_vars PROVE SitesAreFirst'
<1>1. doc' = doc /\ needs' = needs
  BY DEF Next, vars, Build, StartOrder, Order, Ordered, Evaluate, StartComponents, StartRoot,
         Descend, Return, StartCycles, Block, Finish
<1>2. ASSUME deps' = deps, site' = site PROVE SitesAreFirst'
  <2>1. Ids' = Ids /\ (\A r, s, k : FirstUse(r, s, k)' <=> FirstUse(r, s, k)) /\ \A r : Uses(r)' = Uses(r)
    BY <1>1, DocumentStays, UseStays
  <2> QED BY <1>2, <2>1 DEF SitesAreFirst, SiteFits, Range
<1>3. CASE Build
  <2>1. PICK p, i : p = cursor[1] /\ i = cursor[2]
    OBVIOUS
  <2>2. p \in Ids
    BY <1>3, <2>1 DEF Build
  <2>3. CASE i \notin DOMAIN Uses(p) \/ Visible(doc[p].part, Uses(p)[i].name) = {}
    <3>1. deps' = deps /\ site' = site
      BY <1>3, <2>1, <2>3 DEF Build
    <3> QED BY <1>2, <3>1
  <2>4. CASE i \in DOMAIN Uses(p) /\ Visible(doc[p].part, Uses(p)[i].name) # {}
    <3>1. PICK q : q = Lookup(doc[p].part, Uses(p)[i].name)
      OBVIOUS
    <3>2. AddUse(p, q, Uses(p)[i].field)
      BY <1>3, <2>1, <2>4, <3>1 DEF Build
    <3>3. Means(doc[p].part, Uses(p)[i].name, q)
      BY <2>4, <3>1, LookupMeans DEF IInv
    <3>4. q \in needs[p]
      <4>1. q \in Ids
        BY <3>3 DEF Means, Visible
      <4> QED BY <2>2, <2>4, <3>3, <4>1, NeedsMeans DEF IInv
    <3> QED BY <1>1, <2>1, <2>2, <2>4, <3>2, <3>3, <3>4, AddUseSite
  <2> QED BY <2>3, <2>4
<1>4. CASE ~ Build
  <2>1. deps' = deps /\ site' = site
    BY <1>4 DEF Next, vars, StartOrder, Order, Ordered, Evaluate, StartComponents, StartRoot,
                Descend, Return, StartCycles, Block, Finish, graphVars
  <2> QED BY <1>2, <2>1
<1> QED BY <1>3, <1>4

(* A component as the search found it: its parameters, the first of them. *)
LEMMA ComponentIs ==
  ASSUME IInv, phase # "graph", ClassesAreClosed, NEW scc \in sccs, UNION sccs \subseteq Ids
  PROVE  /\ scc \subseteq Ids /\ scc # {} /\ MinOf(scc) \in scc /\ MinOf(scc) \in Ids
         /\ \A q \in scc : MinOf(scc) <= q
         /\ \A p \in scc : scc = {p} \cup {q \in Reach[p] : p \in Reach[q]}
         /\ Cyclic(scc) <=> MinOf(scc) \in Reach[MinOf(scc)]
<1>1. scc \subseteq Ids /\ scc # {} /\ \A p \in scc : scc = {p} \cup {q \in Reach[p] : p \in Reach[q]}
  BY DEF ClassesAreClosed
<1>2. scc \subseteq Nat /\ IsFiniteSet(scc)
  BY <1>1, IdsAreFinite, FS_Subset DEF IInv
<1>3. MinOf(scc) \in scc /\ \A q \in scc : MinOf(scc) <= q
  BY <1>1, <1>2, MinOfIsLeast
<1>4. PICK root : root = MinOf(scc)
  OBVIOUS
<1>5. root \in Ids /\ root \in scc /\ scc = {root} \cup {q \in Reach[root] : root \in Reach[q]}
  BY <1>1, <1>3, <1>4
<1>6. Range(deps[root]) = needs[root] /\ needs[root] \subseteq Ids
  BY <1>5, EdgesAre
<1>7. ASSUME Cyclic(scc) PROVE root \in Reach[root]
  <2>1. CASE Cardinality(scc) > 1
    <3>1. scc # {root}
      <4>1. SUFFICES ASSUME scc = {root} PROVE FALSE
        OBVIOUS
      <4>2. Cardinality({root}) = 1
        BY FS_Singleton
      <4>3. Cardinality(scc) = 1
        BY <4>1, <4>2
      <4>4. ~ (1 > 1)
        OBVIOUS
      <4> QED BY <2>1, <4>3, <4>4, Zenon
    <3>2. PICK q \in scc : q # root
      BY <1>5, <3>1
    <3>3. q \in Reach[root] /\ root \in Reach[q] /\ q \in Ids
      BY <1>1, <1>5, <3>2
    <3> QED BY <1>5, <3>3, GetsFacts DEF IInv
  <2>2. CASE root \in Range(deps[root])
    <3>1. Range(deps[root]) \subseteq needs[root]
      BY <1>5 DEF IInv, GraphIsNeeds
    <3> QED BY <1>5, <2>2, <3>1, ReachIsLeast DEF IInv
  <2> QED BY <1>4, <1>7, <2>1, <2>2 DEF Cyclic
<1>8. ASSUME root \in Reach[root] PROVE Cyclic(scc)
  <2>1. PICK q \in needs[root] : Gets(q, root)
    BY <1>5, <1>8, GetsFacts DEF IInv
  <2>2. q \in Reach[root]
    BY <1>5, <2>1, ReachIsLeast DEF IInv
  <2>3. CASE q = root
    BY <1>4, <1>6, <2>1, <2>3 DEF Cyclic
  <2>4. CASE q # root
    <3>1. root \in Reach[q]
      BY <2>1, <2>4 DEF Gets
    <3>2. {root, q} \subseteq scc
      BY <1>5, <2>2, <3>1
    <3>3. Cardinality({root, q}) <= Cardinality(scc) /\ Cardinality(scc) \in Nat
      BY <1>2, <3>2, FS_Subset, FS_CardinalityType
    <3>4. Cardinality({root, q}) = 2
      <4>1. IsFiniteSet({q}) /\ Cardinality({q}) = 1
        BY FS_Singleton
      <4>2. Cardinality({q} \cup {root}) = 1 + 1
        BY <2>4, <4>1, FS_AddElement
      <4>3. {q} \cup {root} = {root, q}
        OBVIOUS
      <4> QED BY <4>2, <4>3
    <3> QED BY <3>3, <3>4 DEF Cyclic
  <2> QED BY <2>3, <2>4
<1> QED BY <1>1, <1>3, <1>4, <1>5, <1>7, <1>8

(* A component with a cycle: the search finds one, and a shortest. *)
LEMMA CycleIsFound ==
  ASSUME IInv, phase # "graph", NEW root \in Ids, NEW scc, root \in Reach[root],
         scc = {root} \cup {q \in Reach[root] : root \in Reach[q]}
  PROVE  \E p \in Walks(root, scc) :
           /\ Search(root, scc, {root}) = Append(p, root) /\ root \in needs[Last(p)]
           /\ \A o \in Walks(root, scc) : root \in needs[Last(o)] => Len(p) <= Len(o)
<1>1. scc \in SUBSET Ids /\ {root} \in SUBSET Ids
  BY ReachIsLeast DEF IInv
<1>2. CASE Nearest(Search(root, scc, {root}), Walks(root, scc), {root})
  BY <1>2 DEF Nearest
<1>3. ASSUME NEW seen \in SUBSET Ids, root \in seen,
             \A d \in seen : needs[d] \cap {root} = {} /\ needs[d] \cap scc \subseteq seen
      PROVE  FALSE
  <2> DEFINE S == {x \in Reach[root] : x # root /\ (root \notin Reach[x] \/ x \in seen)}
  <2>1. Reach[root] \subseteq Ids /\ needs[root] \subseteq Reach[root] /\ Closed(Reach[root])
    BY ReachIsLeast DEF IInv
  <2>2. ASSUME NEW x \in seen, NEW y \in needs[x], y \in Reach[root] PROVE y \in S
    BY <1>3, <2>2
  <2>3. ASSUME NEW x \in S PROVE needs[x] \subseteq S
    <3>1. x \in Ids /\ needs[x] \subseteq Reach[root]
      BY <2>1 DEF Closed
    <3>2. CASE x \in seen
      BY <2>2, <3>1, <3>2
    <3>3. CASE root \notin Reach[x]
      <4>1. needs[x] \subseteq Reach[x] /\ \A y \in needs[x] : Reach[y] \subseteq Reach[x]
        BY <2>1, <3>1, ReachIsLeast, GetsFacts DEF IInv
      <4> QED BY <3>1, <3>3, <4>1
    <3> QED BY <2>3, <3>2, <3>3
  <2>4. needs[root] \subseteq S
    BY <1>3, <2>1, <2>2
  <2>5. S \in SUBSET Ids /\ root \notin S
    BY <2>1
  <2> HIDE DEF S
  <2>6. Reach[root] \subseteq S
    BY <2>3, <2>4, <2>5, ReachIsLeast DEF IInv, Closed
  <2> QED BY <2>5, <2>6
<1>4. \/ Nearest(Search(root, scc, {root}), Walks(root, scc), {root})
      \/ \E seen \in SUBSET Ids :
           root \in seen /\ \A d \in seen : needs[d] \cap {root} = {} /\ needs[d] \cap scc \subseteq seen
  BY <1>1, SearchIs
<1> QED BY <1>2, <1>3, <1>4

(* Whoever goes round a cycle stays in its component. *)
ClosedWalk(s, k, root) ==
  /\ s \in [1 .. k -> Ids] /\ s[1] = root /\ root \in needs[s[k]]
  /\ \A i \in 1 .. k - 1 : s[i + 1] \in needs[s[i]]

LEMMA RoundStays ==
  ASSUME IInv, NEW root \in Ids, NEW scc, scc = {root} \cup {q \in Reach[root] : root \in Reach[q]},
         NEW k \in Nat \ {0}, NEW s, ClosedWalk(s, k, root)
  PROVE  s \in Walks(root, scc) /\ Last(s) = s[k] /\ Len(s) = k
<1> USE DEF ClosedWalk
<1>1. ASSUME NEW j \in 0 .. k - 1 PROVE Gets(root, s[j + 1])
  <2> DEFINE T == {i \in 0 .. k - 1 : Gets(root, s[i + 1])}
  <2>1. 0 \in T
    BY GetsFacts DEF IInv
  <2>2. ASSUME NEW i \in 0 .. j - 1, i \in T PROVE i + 1 \in T
    <3>1. i + 1 \in 1 .. k - 1 /\ i + 1 \in 1 .. k /\ (i + 1) + 1 \in 1 .. k /\ i + 1 \in 0 .. k - 1
      OBVIOUS
    <3>2. s[(i + 1) + 1] \in needs[s[i + 1]] /\ s[i + 1] \in Ids /\ s[(i + 1) + 1] \in Ids
      BY <3>1
    <3>3. Gets(root, s[i + 1])
      BY <2>2
    <3>4. Gets(root, s[(i + 1) + 1])
      <4> HIDE DEF T
      <4> QED BY <3>2, <3>3, GetsFacts DEF IInv
    <3> QED BY <3>1, <3>4
  <2>3. j \in T
    <3> HIDE DEF T
    <3> QED BY <2>1, <2>2, Induction
  <2> QED BY <2>3
<1>2. ASSUME NEW j \in 0 .. k - 1 PROVE Gets(s[k - j], root)
  <2> DEFINE T == {i \in 0 .. k - 1 : Gets(s[k - i], root)}
  <2>1. 0 \in T
    <3>1. s[k] \in Ids /\ k - 0 = k /\ 0 \in 0 .. k - 1
      OBVIOUS
    <3>2. Gets(s[k], root)
      BY <3>1, GetsFacts DEF IInv
    <3> QED BY <3>1, <3>2
  <2>2. ASSUME NEW i \in 0 .. j - 1, i \in T PROVE i + 1 \in T
    <3>1. /\ k - (i + 1) \in 1 .. k - 1 /\ k - (i + 1) \in 1 .. k /\ k - i \in 1 .. k
          /\ (k - (i + 1)) + 1 = k - i /\ i + 1 \in 0 .. k - 1
      OBVIOUS
    <3>2. s[k - i] \in needs[s[k - (i + 1)]] /\ s[k - i] \in Ids /\ s[k - (i + 1)] \in Ids
      BY <3>1
    <3>3. Gets(s[k - i], root)
      BY <2>2
    <3>4. Gets(s[k - (i + 1)], root)
      <4> HIDE DEF T
      <4> QED BY <3>2, <3>3, GetsFacts DEF IInv
    <3> QED BY <3>1, <3>4
  <2>3. j \in T
    <3> HIDE DEF T
    <3> QED BY <2>1, <2>2, Induction
  <2> QED BY <2>3
<1>3. ASSUME NEW i \in 1 .. k PROVE s[i] \in scc
  <2>1. i - 1 \in 0 .. k - 1 /\ (i - 1) + 1 = i /\ k - i \in 0 .. k - 1 /\ k - (k - i) = i
    OBVIOUS
  <2>2. Gets(root, s[i]) /\ Gets(s[i], root)
    BY <1>1, <1>2, <2>1
  <2> QED BY <2>2 DEF Gets
<1>4. s \in Seq(Ids) /\ Len(s) = k /\ s # <<>> /\ Last(s) = s[k]
  <2>1. s \in Seq(Ids) /\ Len(s) = k
    OBVIOUS
  <2> QED BY <2>1, EmptySeq DEF Last
<1>5. \A i \in 1 .. Len(s) - 1 : s[i + 1] \in needs[s[i]] \cap scc
  <2>1. \A i \in 1 .. k - 1 : i + 1 \in 1 .. k
    OBVIOUS
  <2> QED BY <1>3, <1>4, <2>1
<1> QED BY <1>4, <1>5 DEF Walks

\* A closed walk, none through its first is shorter, at the field of its first use.
IsRound(m, n) ==
  /\ n >= 1 /\ m[n + 1] = m[1] /\ \A i \in 1 .. n : m[i + 1] \in needs[m[i]]
IsShortest(m, n) ==
  ~ \E k \in 1 .. n - 1 : \E s \in [1 .. k -> Ids] :
       /\ s[1] = m[1] /\ m[1] \in needs[s[k]]
       /\ \A i \in 1 .. k - 1 : s[i + 1] \in needs[s[i]]
IsAtFirstUse(c, m, first) ==
  c.field = first[MinOf({i \in DOMAIN first : Means(doc[m[1]].part, first[i].name, m[2])})].field
CycleFits(c) ==
  /\ c.members \in Seq(Ids)
  /\ IsRound(c.members, Len(c.members) - 1) /\ IsShortest(c.members, Len(c.members) - 1)
  /\ IsAtFirstUse(c, c.members, Uses(c.members[1]))

LEMMA FieldIsFirst ==
  ASSUME IInv, phase # "graph", SitesAreFirst, NEW p \in Ids, NEW q \in needs[p]
  PROVE  /\ site[<<p, q>>]
              = Uses(p)[MinOf({i \in DOMAIN Uses(p) : Means(doc[p].part, Uses(p)[i].name, q)})].field
<1> DEFINE I == {i \in DOMAIN Uses(p) : Means(doc[p].part, Uses(p)[i].name, q)}
<1>1. q \in Range(deps[p])
  BY EdgesAre
<1>2. PICK i \in Nat : FirstUse(p, q, i) /\ site[<<p, q>>] = Uses(p)[i].field
  BY <1>1 DEF SitesAreFirst, SiteFits
<1>3. i \in I /\ \A j \in I : i <= j
  BY <1>2 DEF FirstUse
<1>4. I \subseteq Nat
  BY UsesAreUses DEF IInv
<1> HIDE DEF I
<1>5. MinOf(I) \in I /\ \A j \in I : MinOf(I) <= j
  BY <1>3, <1>4, MinOfIsLeast
<1>6. MinOf(I) = i
  <2>1. PICK x : x = MinOf(I)
    OBVIOUS
  <2>2. x \in Nat /\ i \in Nat /\ x <= i /\ i <= x
    BY <1>3, <1>4, <1>5, <2>1
  <2> QED BY ONLY <2>1, <2>2
<1> QED BY <1>2, <1>6 DEF I

LEMMA CycleIsShortest ==
  ASSUME IInv, phase # "graph", SitesAreFirst, ClassesAreClosed, UNION sccs \subseteq Ids,
         NEW scc \in sccs, Cyclic(scc), NEW c,
         c = [members |-> ShortestCycle(scc), field |-> CycleSite(ShortestCycle(scc))]
  PROVE  CycleFits(c) /\ c.members[1] = MinOf(scc)
<1>1. PICK root : root = MinOf(scc)
  OBVIOUS
<1>2. /\ root \in Ids /\ root \in scc /\ root \in Reach[root]
      /\ scc = {root} \cup {q \in Reach[root] : root \in Reach[q]}
  BY <1>1, ComponentIs
<1>3. PICK p \in Walks(root, scc) :
        /\ Search(root, scc, {root}) = Append(p, root) /\ root \in needs[Last(p)]
        /\ \A o \in Walks(root, scc) : root \in needs[Last(o)] => Len(p) <= Len(o)
  BY <1>2, CycleIsFound
<1>4. PICK m, n : m = Append(p, root) /\ n = Len(p)
  OBVIOUS
<1>5. p \in Seq(Ids) /\ n \in Nat \ {0} /\ Last(p) = p[n]
  BY <1>4, WalkIs DEF IInv
<1>6. p[1] = root /\ \A i \in 1 .. n - 1 : p[i + 1] \in needs[p[i]]
  BY <1>4 DEF Walks
<1>7. /\ m \in Seq(Ids) /\ Len(m) - 1 = n /\ m[n + 1] = root
      /\ \A i \in 1 .. n : m[i] = p[i]
  BY <1>2, <1>4, <1>5, AppendIs
<1>8. m[1] = root /\ IsRound(m, n)
  <2>1. m[1] = root
    BY <1>5, <1>6, <1>7
  <2>2. ASSUME NEW i \in 1 .. n PROVE m[i + 1] \in needs[m[i]]
    <3>1. CASE i = n
      BY <1>3, <1>5, <1>7, <3>1
    <3>2. CASE i # n
      <4>1. i \in 1 .. n - 1 /\ i + 1 \in 1 .. n
        BY <1>5, <3>2
      <4> QED BY <1>6, <1>7, <4>1
    <3> QED BY <3>1, <3>2
  <2> QED BY <1>5, <1>7, <2>1, <2>2 DEF IsRound
<1>9. IsShortest(m, n)
  <2>1. SUFFICES ASSUME NEW k \in 1 .. n - 1, NEW s, ClosedWalk(s, k, root) PROVE FALSE
    BY <1>8 DEF IsShortest, ClosedWalk
  <2>2. k \in Nat \ {0} /\ k < n
    BY <1>5
  <2>3. s \in Walks(root, scc) /\ Last(s) = s[k] /\ Len(s) = k
    BY <1>2, <2>1, <2>2, RoundStays
  <2>4. n <= k
    BY <1>3, <1>4, <2>1, <2>3 DEF ClosedWalk
  <2> QED BY <1>5, <2>2, <2>4
<1>10. ShortestCycle(scc) = m /\ c.members = m /\ c.field = site[<<m[1], m[2]>>]
  <2>1. ShortestCycle(scc) = m
    BY <1>1, <1>3, <1>4 DEF ShortestCycle
  <2> QED BY <2>1 DEF CycleSite
<1>11. IsAtFirstUse(c, m, Uses(m[1]))
  <2>1. m[1] \in Ids /\ m[2] \in needs[m[1]]
    <3>1. 1 \in 1 .. n /\ 1 + 1 = 2
      BY <1>5
    <3>2. m[1 + 1] \in needs[m[1]]
      BY <1>8, <3>1 DEF IsRound
    <3> QED BY <1>2, <1>8, <3>1, <3>2
  <2> QED BY <1>10, <2>1, FieldIsFirst DEF IsAtFirstUse
<1> QED BY <1>1, <1>7, <1>8, <1>9, <1>10, <1>11 DEF CycleFits

Firsts == {p \in Ids : p \in Reach[p] /\ \A q \in Reach[p] : p \in Reach[q] => p <= q}
CyclesFit ==
  /\ phase \notin {"cycles", "done"} => cycles = {}
  /\ phase \in {"cycles", "done"} => {c.members[1] : c \in cycles} = Firsts
  /\ \A c \in cycles : CycleFits(c)

LEMMA CyclesFitShortest == CyclesFit => CyclesAreShortest
<1> SUFFICES ASSUME CyclesFit PROVE CyclesAreShortest
  OBVIOUS
<1>1. phase \in {"cycles", "done"} => {c.members[1] : c \in cycles} = Firsts
  BY DEF CyclesFit
<1>2. ASSUME NEW c \in cycles
      PROVE  /\ IsRound(c.members, Len(c.members) - 1)
             /\ IsShortest(c.members, Len(c.members) - 1)
             /\ IsAtFirstUse(c, c.members, Uses(c.members[1]))
  BY <1>2 DEF CyclesFit, CycleFits
<1>3. CyclesAreShortest <=>
        /\ phase \in {"cycles", "done"} => {c.members[1] : c \in cycles} = Firsts
        /\ \A c \in cycles :
             /\ IsRound(c.members, Len(c.members) - 1)
             /\ IsShortest(c.members, Len(c.members) - 1)
             /\ IsAtFirstUse(c, c.members, Uses(c.members[1]))
  BY Zenon DEF CyclesAreShortest, Firsts, IsRound, IsShortest, IsAtFirstUse
<1> QED BY <1>1, <1>2, <1>3

LEMMA FirstsAre ==
  ASSUME IInv, phase # "graph", ClassesAreClosed, UNION sccs = Ids
  PROVE  {MinOf(scc) : scc \in {c \in sccs : Cyclic(c)}} = Firsts
<1>1. ASSUME NEW scc \in sccs, Cyclic(scc) PROVE MinOf(scc) \in Firsts
  <2>1. PICK root : root = MinOf(scc)
    OBVIOUS
  <2>2. /\ root \in Ids /\ root \in Reach[root] /\ \A q \in scc : root <= q
        /\ scc = {root} \cup {q \in Reach[root] : root \in Reach[q]}
    BY <1>1, <2>1, ComponentIs
  <2> QED BY <2>1, <2>2 DEF Firsts
<1>2. ASSUME NEW p \in Firsts PROVE \E scc \in {c \in sccs : Cyclic(c)} : p = MinOf(scc)
  <2>1. PICK scc \in sccs : p \in scc
    BY DEF Firsts
  <2>2. PICK root : root = MinOf(scc)
    OBVIOUS
  <2>3. /\ root \in Ids /\ root \in scc /\ root <= p
        /\ scc = {p} \cup {q \in Reach[p] : p \in Reach[q]}
        /\ Cyclic(scc) <=> root \in Reach[root]
    BY <2>1, <2>2, ComponentIs
  <2>4. p \in Nat /\ root \in Nat /\ p \in Reach[p] /\ \A q \in Reach[p] : p \in Reach[q] => p <= q
    BY <2>3, IdsAreFinite DEF Firsts, IInv
  <2>5. p <= root
    BY <2>3, <2>4
  <2>6. p = root
    BY ONLY <2>3, <2>4, <2>5
  <2> QED BY <2>2, <2>3, <2>4, <2>6
<1> QED BY <1>1, <1>2

LEMMA CyclesStay ==
  ASSUME doc' = doc, needs' = needs
  PROVE  Firsts' = Firsts /\ \A c : CycleFits(c)' <=> CycleFits(c)
<1>1. Ids' = Ids /\ Reach' = Reach
  BY ReachStays
<1>2. \A p : Uses(p)' = Uses(p)
  BY DocumentStays
<1>3. \A x, y, z : Means(x, y, z)' = Means(x, y, z)
  BY DocumentStays
<1>4. \A m, n : (IsRound(m, n)' <=> IsRound(m, n)) /\ (IsShortest(m, n)' <=> IsShortest(m, n))
  BY <1>1 DEF IsRound, IsShortest
<1>5. \A c, m, first : IsAtFirstUse(c, m, first)' <=> IsAtFirstUse(c, m, first)
  BY <1>3 DEF IsAtFirstUse
<1>6. Firsts' = Firsts
  BY <1>1 DEF Firsts
<1> QED BY <1>1, <1>2, <1>4, <1>5, <1>6 DEF CycleFits

LEMMA StartCyclesFit == ASSUME IInv, SitesAreFirst, TarjanInv, StartCycles PROVE CyclesFit'
<1>1. /\ phase = "components" /\ phase' = "cycles" /\ doc' = doc /\ needs' = needs
      /\ cycles' = {[members |-> ShortestCycle(scc), field |-> CycleSite(ShortestCycle(scc))] :
                      scc \in {c \in sccs : Cyclic(c)}}
      /\ work = <<>> /\ DOMAIN index = Ids
  BY DEF StartCycles
<1>2. ClassesAreClosed /\ UNION sccs = Ids
  <2>1. Searching
    BY <1>1 DEF TarjanInv
  <2>2. Range(stack) = {}
    BY <1>1, <2>1 DEF Searching, LinksAreReached
  <2> QED BY <1>1, <2>1, <2>2 DEF Searching, StackFits
<1>3. ASSUME NEW scc \in sccs, Cyclic(scc), NEW c,
             c = [members |-> ShortestCycle(scc), field |-> CycleSite(ShortestCycle(scc))]
      PROVE  CycleFits(c) /\ c.members[1] = MinOf(scc)
  BY <1>1, <1>2, <1>3, CycleIsShortest
<1>4. \A c \in cycles' : CycleFits(c)
  BY <1>1, <1>3
<1>5. {c.members[1] : c \in cycles'} = Firsts
  <2>1. {c.members[1] : c \in cycles'} = {MinOf(scc) : scc \in {c \in sccs : Cyclic(c)}}
    BY <1>1, <1>3
  <2> QED BY <1>1, <1>2, <2>1, FirstsAre
<1>6. Firsts' = Firsts /\ \A c : CycleFits(c)' <=> CycleFits(c)
  BY <1>1, CyclesStay
<1> QED BY <1>1, <1>4, <1>5, <1>6 DEF CyclesFit

CycleInv == TarjanInv /\ SitesAreFirst /\ CyclesFit

LEMMA CyclesStart == Init => CycleInv
<1> SUFFICES ASSUME Init PROVE CycleInv
  OBVIOUS
<1>1. phase = "graph" /\ cycles = {}
  BY DEF Init
<1>2. CyclesFit
  BY <1>1 DEF CyclesFit
<1> QED BY <1>2, TarjanStarts, SitesStart DEF CycleInv

LEMMA CyclesStep == ASSUME IInv, CycleInv, [Next]_vars PROVE CycleInv'
<1>1. TarjanInv' /\ SitesAreFirst'
  BY TarjanStep, SitesStep DEF CycleInv
<1>2. CASE StartCycles
  BY <1>1, <1>2, StartCyclesFit DEF CycleInv
<1>3. CASE ~ StartCycles
  <2>1. doc' = doc /\ needs' = needs /\ cycles' = cycles
    BY <1>3 DEF Next, vars, Build, StartOrder, Order, Ordered, Evaluate, StartComponents, StartRoot,
                Descend, Return, Block, Finish
  <2>2. phase' \in {"cycles", "done"} <=> phase \in {"cycles", "done"}
    BY <1>3 DEF Next, vars, Build, StartOrder, Order, Ordered, Evaluate, StartComponents, StartRoot,
                Descend, Return, Block, Finish
  <2>3. Firsts' = Firsts /\ \A c : CycleFits(c)' <=> CycleFits(c)
    BY <2>1, CyclesStay
  <2>4. CyclesFit'
    BY <2>1, <2>2, <2>3 DEF CycleInv, CyclesFit
  <2> QED BY <1>1, <2>4 DEF CycleInv
<1> QED BY <1>2, <1>3

LEMMA AlwaysCycles == Spec => [](IInv /\ CycleInv)
<1>1. IInv /\ CycleInv /\ [Next]_vars => CycleInv'
  BY CyclesStep
<1> QED BY <1>1, CyclesStart, AlwaysIInv, PTL DEF Spec

(***************************************************************************)
(* The root cause.  What is told to be on a cycle uses another that is.    *)
(***************************************************************************)
LEMMA OnCycleIs ==
  ASSUME IInv, CyclesFit
  PROVE  /\ OnCycle \subseteq Ids /\ OnCycle \cap Range(order) = {}
         /\ phase \in {"cycles", "done"} => Firsts \subseteq OnCycle
<1>1. ASSUME NEW c \in cycles
      PROVE  /\ Range(c.members) \subseteq Ids /\ c.members[1] \in Range(c.members)
             /\ \A q \in Range(c.members) : needs[q] \cap Range(c.members) # {}
  <2>1. PICK m, n : m = c.members /\ n = Len(m) - 1
    OBVIOUS
  <2>2. m \in Seq(Ids) /\ n >= 1 /\ m[n + 1] = m[1] /\ \A i \in 1 .. n : m[i + 1] \in needs[m[i]]
    BY <2>1 DEF CyclesFit, CycleFits, IsRound
  <2>3. n \in Nat /\ Len(m) = n + 1 /\ DOMAIN m = 1 .. n + 1
    BY <2>1, <2>2
  <2>4. Range(m) \subseteq Ids /\ m[1] \in Range(m)
    BY <2>2, <2>3 DEF Range
  <2>5. ASSUME NEW i \in DOMAIN m PROVE needs[m[i]] \cap Range(m) # {}
    <3>1. CASE i \in 1 .. n
      <4>1. i + 1 \in DOMAIN m
        BY <2>3, <3>1
      <4>2. m[i + 1] \in Range(m)
        BY <4>1 DEF Range
      <4> QED BY <2>2, <3>1, <4>2
    <3>2. CASE i = n + 1
      <4>1. 1 \in 1 .. n /\ 1 + 1 \in DOMAIN m
        BY <2>2, <2>3
      <4>2. m[1 + 1] \in Range(m) /\ m[1 + 1] \in needs[m[1]]
        BY <2>2, <4>1 DEF Range
      <4> QED BY <2>2, <3>2, <4>2
    <3> QED BY <2>3, <3>1, <3>2
  <2>6. \A q \in Range(m) : \E i \in DOMAIN m : q = m[i]
    BY DEF Range
  <2> QED BY <2>1, <2>4, <2>5, <2>6
<1>2. OnCycle \subseteq Ids
  BY <1>1 DEF OnCycle
<1>3. OnCycle \cap Range(order) = {}
  <2>1. \A q \in OnCycle : needs[q] \cap OnCycle # {}
    BY <1>1 DEF OnCycle
  <2> QED BY <2>1, OrderedIsFree
<1>4. ASSUME phase \in {"cycles", "done"}, NEW p \in Firsts PROVE p \in OnCycle
  <2>1. PICK c \in cycles : p = c.members[1]
    BY <1>4 DEF CyclesFit
  <2> QED BY <1>1, <2>1 DEF OnCycle
<1> QED BY <1>2, <1>3, <1>4

(* Whoever reaches itself reaches the first of its component, which does, too. *)
LEMMA FirstIsReached ==
  ASSUME IInv, NEW x \in Ids, x \in Reach[x]
  PROVE  \E f \in Firsts : f \in Reach[x]
<1> DEFINE C == {q \in Reach[x] : x \in Reach[q]}
<1>1. Reach[x] \subseteq Ids /\ Ids \subseteq Nat
  BY ReachIsLeast, IdsAreFinite DEF IInv
<1>2. C \subseteq Nat /\ C # {}
  BY <1>1
<1>3. PICK f : f = MinOf(C)
  OBVIOUS
<1>4. f \in C /\ \A q \in C : f <= q
  BY <1>2, <1>3, MinOfIsLeast
<1>5. f \in Ids /\ Reach[f] \subseteq Reach[x] /\ f \in Reach[f]
  BY <1>1, <1>4, GetsFacts DEF IInv
<1>6. ASSUME NEW q \in Reach[f], f \in Reach[q] PROVE f <= q
  <2>1. q \in Ids /\ q \in Reach[x]
    BY <1>1, <1>5
  <2>2. Reach[f] \subseteq Reach[q]
    BY <1>5, <1>6, <2>1, GetsFacts DEF IInv
  <2> QED BY <1>4, <2>1, <2>2
<1> QED BY <1>4, <1>5, <1>6 DEF Firsts

(* What is blocked reaches a cycle: of the blocked ones it reaches, take one that
   reaches fewest. *)
LEMMA BlockedReachesCycle ==
  ASSUME IInv, phase \notin {"graph", "order"}, NEW p \in Blocked
  PROVE  \E x \in Reach[p] : x \in Firsts
<1> DEFINE B == {y \in Blocked : Gets(p, y)}
           N == {Cardinality(Reach[y]) : y \in B}
<1>1. Blocked \subseteq Ids /\ \A q \in Blocked : needs[q] \cap Blocked # {}
  BY BlockedIsClosed
<1>2. \A y \in Ids : IsFiniteSet(Reach[y]) /\ Cardinality(Reach[y]) \in Nat
  BY ReachIsLeast, IdsAreFinite, FS_Subset, FS_CardinalityType DEF IInv
<1>3. N \subseteq Nat /\ N # {}
  <2>1. p \in B
    BY <1>1 DEF Gets
  <2> QED BY <1>1, <1>2, <2>1
<1>4. PICK y \in B : \A z \in B : Cardinality(Reach[y]) <= Cardinality(Reach[z])
  <2>1. MinOf(N) \in N /\ \A k \in N : MinOf(N) <= k
    <3> HIDE DEF N
    <3> QED BY <1>3, MinOfIsLeast
  <2>2. PICK y \in B : MinOf(N) = Cardinality(Reach[y])
    BY <2>1
  <2> QED BY <2>1, <2>2
<1>5. PICK z \in needs[y] : z \in Blocked
  BY <1>1, <1>4
<1>6. z \in Ids /\ y \in Ids /\ p \in Ids
  BY <1>1, <1>4, <1>5
<1>7. z \in Reach[y] /\ Reach[z] \subseteq Reach[y] /\ Gets(p, z) /\ Reach[y] \subseteq Reach[p] \cup Reach[y]
  BY <1>4, <1>5, <1>6, ReachIsLeast, GetsFacts DEF IInv
<1>8. z \in Reach[z]
  <2>1. Cardinality(Reach[y]) <= Cardinality(Reach[z])
    BY <1>4, <1>5, <1>7
  <2>2. SUFFICES ASSUME Reach[z] # Reach[y] PROVE FALSE
    BY <1>7
  <2>3. Cardinality(Reach[z]) < Cardinality(Reach[y])
    BY <1>2, <1>6, <1>7, <2>2, FS_Subset
  <2> QED BY <1>2, <1>6, <2>1, <2>3
<1>9. z \in Reach[p] /\ Reach[z] \subseteq Reach[p]
  BY <1>6, <1>7, <1>8, GetsFacts DEF IInv, Gets
<1>10. PICK f \in Firsts : f \in Reach[z]
  BY <1>6, <1>8, FirstIsReached
<1> QED BY <1>9, <1>10

LEMMA WalkReaches ==
  ASSUME IInv, NEW from \in Ids, NEW within, NEW p \in Walks(from, within)
  PROVE  Gets(from, Last(p))
<1>1. p \in Seq(Ids) /\ Len(p) \in Nat \ {0} /\ Last(p) = p[Len(p)]
  BY WalkIs DEF IInv
<1>2. p[1] = from /\ \A i \in 1 .. Len(p) - 1 : p[i + 1] \in needs[p[i]] \cap within
  BY DEF Walks
<1>3. PICK n : n = Len(p)
  OBVIOUS
<1> DEFINE T == {i \in 0 .. n - 1 : Gets(from, p[i + 1])}
<1>4. 0 \in T
  BY <1>1, <1>2, <1>3, GetsFacts DEF IInv
<1>5. ASSUME NEW i \in 0 .. (n - 1) - 1, i \in T PROVE i + 1 \in T
  <2>1. i + 1 \in 1 .. n - 1 /\ i + 1 \in 1 .. n /\ (i + 1) + 1 \in 1 .. n /\ i + 1 \in 0 .. n - 1
    BY <1>1, <1>3
  <2>2. p[(i + 1) + 1] \in needs[p[i + 1]] /\ p[i + 1] \in Ids /\ p[(i + 1) + 1] \in Ids
    BY <1>1, <1>2, <1>3, <2>1
  <2>3. Gets(from, p[i + 1])
    BY <1>5
  <2>4. Gets(from, p[(i + 1) + 1])
    <3> HIDE DEF T
    <3> QED BY <2>2, <2>3, GetsFacts DEF IInv
  <2> QED BY <2>1, <2>4
<1>6. n - 1 \in T
  <2>1. n - 1 \in Nat
    BY <1>1, <1>3
  <2> HIDE DEF T
  <2> QED BY <1>4, <1>5, <2>1, Induction
<1>7. (n - 1) + 1 = n
  BY <1>1, <1>3
<1> QED BY <1>1, <1>3, <1>6, <1>7

(* A blocked parameter is told one on a cycle that it reaches. *)
LEMMA CulpritIs ==
  ASSUME IInv, CyclesFit, phase = "cycles", NEW p \in Blocked
  PROVE  Culprit(p) \in Reach[p] /\ Culprit(p) \in OnCycle
<1>1. p \in Ids /\ OnCycle \in SUBSET Ids /\ Ids \in SUBSET Ids /\ phase # "graph"
  BY OnCycleIs DEF Blocked
<1>2. CASE Nearest(Search(p, Ids, OnCycle), Walks(p, Ids), OnCycle) /\ Search(p, Ids, OnCycle) # <<>>
  <2>1. PICK o \in Walks(p, Ids) : \E g \in OnCycle \cap needs[Last(o)] : Search(p, Ids, OnCycle) = Append(o, g)
    BY <1>2 DEF Nearest
  <2>2. PICK g \in OnCycle \cap needs[Last(o)] : Search(p, Ids, OnCycle) = Append(o, g)
    BY <2>1
  <2>3. o \in Seq(Ids) /\ Last(o) \in Ids /\ Gets(p, Last(o)) /\ g \in Ids
    BY <1>1, WalkIs, WalkReaches DEF IInv
  <2>4. Culprit(p) = g
    <3>1. Last(Append(o, g)) = g
      BY <2>3, AppendIs
    <3> QED BY <1>2, <2>2, <3>1 DEF Culprit
  <2>5. g \in Reach[Last(o)] /\ Reach[Last(o)] \subseteq Reach[p]
    BY <1>1, <2>2, <2>3, ReachIsLeast, GetsFacts DEF IInv, Gets
  <2> QED BY <2>2, <2>4, <2>5
<1>3. ASSUME NEW seen \in SUBSET Ids, p \in seen,
             \A d \in seen : needs[d] \cap OnCycle = {} /\ needs[d] \cap Ids \subseteq seen
      PROVE  FALSE
  <2> DEFINE S == seen \ OnCycle
  <2>1. \A d \in seen : needs[d] \subseteq S
    BY <1>3, NeedsMeans DEF IInv
  <2>2. Reach[p] \subseteq S
    <3>1. S \in SUBSET Ids /\ needs[p] \subseteq S /\ \A q \in S : needs[q] \subseteq S
      BY <1>3, <2>1
    <3> HIDE DEF S
    <3> QED BY <1>1, <3>1, ReachIsLeast DEF IInv, Closed
  <2>3. PICK x \in Reach[p] : x \in Firsts
    BY BlockedReachesCycle
  <2>4. x \in OnCycle
    BY <2>3, OnCycleIs
  <2> QED BY <2>2, <2>3, <2>4
<1>4. \/ /\ Search(p, Ids, OnCycle) # <<>>
         /\ Nearest(Search(p, Ids, OnCycle), Walks(p, Ids), OnCycle)
      \/ \E seen \in SUBSET Ids :
           p \in seen /\ \A d \in seen : needs[d] \cap OnCycle = {} /\ needs[d] \cap Ids \subseteq seen
  BY <1>1, SearchIs
<1> QED BY <1>2, <1>3, <1>4

\* What the results say of their root: one that failed by itself, or one on a cycle.
OwnFailure(p) == results[p].code # "PARAM_FAILED" => results[p].cause = results[p].code
NamesRoot(p) == CauseIsRoot(Reach[p], results[p])
NamesCycle(p) ==
  IF p \in OnCycle THEN results[p].code = "PARAM_CYCLE"
  ELSE results[p].code = "PARAM_FAILED" /\ results[p].param \in Reach[p] \cap OnCycle
RootInv ==
  /\ phase \notin {"cycles", "done"} => DOMAIN results \subseteq Range(order)
  /\ phase = "done" => DOMAIN results = Ids
  /\ \A p \in DOMAIN results : OwnFailure(p)
  /\ \A p \in DOMAIN results \cap Range(order) : NamesRoot(p)
  /\ \A p \in DOMAIN results \ Range(order) : NamesCycle(p)

LEMMA RootsStart == Init => RootInv
<1> SUFFICES ASSUME Init PROVE RootInv
  OBVIOUS
<1>1. phase = "graph" /\ DOMAIN results = {}
  BY DEF Init
<1> QED BY <1>1 DEF RootInv

(* One more result, p's: the others say what they said. *)
LEMMA OneMore ==
  ASSUME IInv, doc' = doc, needs' = needs, cycles' = cycles, order' = order,
         NEW p \in Ids \ DOMAIN results, NEW r, results' = With(results, p, r),
         NEW u \in DOMAIN results
  PROVE  /\ OwnFailure(u) => OwnFailure(u)'
         /\ NamesRoot(u) => NamesRoot(u)'
         /\ NamesCycle(u) => NamesCycle(u)'
<1>1. /\ DOMAIN results' = DOMAIN results \cup {p} /\ results'[p] = r
      /\ \A q \in DOMAIN results : results'[q] = results[q]
  BY DEF With
<1>2. Reach' = Reach /\ OnCycle' = OnCycle
  BY ReachStays DEF OnCycle
<1> QED BY <1>1, <1>2 DEF OwnFailure, NamesRoot, NamesCycle, CauseIsRoot

LEMMA EvaluateRoot == ASSUME IInv, CyclesFit, RootInv, Evaluate PROVE RootInv'
<1>1. PICK p : p = order[Evaluated + 1]
  OBVIOUS
<1>2. /\ phase = "evaluate" /\ phase' = phase /\ Evaluated < Len(order)
      /\ doc' = doc /\ needs' = needs /\ order' = order /\ cycles' = cycles
  BY DEF Evaluate, orderVars
<1>3. PICK r \in EvalParam(p) : results' = With(results, p, r)
  BY <1>1 DEF Evaluate
<1>4. /\ p \in Ids /\ p \in Range(order) /\ p \notin DOMAIN results
      /\ needs[p] \subseteq DOMAIN results /\ needs[p] \subseteq Range(order)
  BY <1>1, <1>2, NextToEvaluate
<1>5. \/ \E code \in {"OK"} \cup OwnCodes : r = [code |-> code, param |-> 0, cause |-> code]
      \/ \E q \in needs[p] : results[q].code # "OK" /\ r = ParamFailed(Root(q))
  BY <1>2, <1>3, <1>4, EvalParamMeans
<1>6. /\ DOMAIN results' = DOMAIN results \cup {p} /\ results'[p] = r
      /\ \A q \in DOMAIN results : results'[q] = results[q]
  BY <1>3, <1>4 DEF With
<1>7. (r.code # "PARAM_FAILED" => r.cause = r.code) /\ CauseIsRoot(Reach[p], r)
  <2>1. CASE \E code \in {"OK"} \cup OwnCodes : r = [code |-> code, param |-> 0, cause |-> code]
    BY <2>1, CodesAreTheirOwn DEF CauseIsRoot
  <2>2. CASE \E q \in needs[p] : results[q].code # "OK" /\ r = ParamFailed(Root(q))
    <3>1. PICK q \in needs[p] : results[q].code # "OK" /\ r = ParamFailed(Root(q))
      BY <2>2
    <3>2. q \in DOMAIN results \cap Range(order) /\ results[q] \in Result /\ q \in Ids
      BY <1>4, <3>1, NeedsMeans DEF IInv, ResultsRest
    <3>3. OwnFailure(q) /\ NamesRoot(q)
      BY <3>2 DEF RootInv
    <3>4. q \in Reach[p] /\ Reach[q] \subseteq Reach[p]
      BY <1>4, <3>1, <3>2, ReachIsLeast, GetsFacts DEF IInv
    <3>5. r.code = "PARAM_FAILED" /\ r.param = Root(q).param /\ r.cause = Root(q).cause
      BY <3>1 DEF ParamFailed
    <3>6. CASE results[q].code = "PARAM_FAILED"
      <4>1. Root(q) = results[q]
        BY <3>6 DEF Root
      <4> QED BY <3>3, <3>4, <3>5, <3>6, <4>1 DEF NamesRoot, CauseIsRoot
    <3>7. CASE results[q].code # "PARAM_FAILED"
      <4>1. Root(q).param = q /\ Root(q).cause = results[q].cause
        BY <3>2, <3>7 DEF Root, Result
      <4>2. results[q].code \in OwnCodes /\ results[q].cause = results[q].code
        BY <3>1, <3>2, <3>3, <3>7 DEF Result, OwnFailure
      <4> QED BY <3>2, <3>4, <3>5, <4>1, <4>2 DEF CauseIsRoot
    <3> QED BY <3>6, <3>7
  <2> QED BY <1>5, <2>1, <2>2
<1>8. OwnFailure(p)' /\ NamesRoot(p)'
  <2>1. Reach' = Reach
    BY <1>2, ReachStays
  <2>2. OwnFailure(p)'
    BY <1>6, <1>7 DEF OwnFailure
  <2>3. NamesRoot(p)'
    BY <1>6, <1>7, <2>1 DEF NamesRoot, CauseIsRoot
  <2> QED BY <2>2, <2>3
<1>9. \A u \in DOMAIN results : /\ OwnFailure(u) => OwnFailure(u)'
                                /\ NamesRoot(u) => NamesRoot(u)'
  BY <1>2, <1>3, <1>4, OneMore
<1>10. Range(order)' = Range(order) /\ DOMAIN results' \subseteq Range(order)
  BY <1>2, <1>4, <1>6 DEF RootInv, Range
<1>11. \A u \in DOMAIN results' : OwnFailure(u)' /\ NamesRoot(u)'
  BY <1>6, <1>8, <1>9, <1>10 DEF RootInv
<1> QED BY <1>2, <1>10, <1>11 DEF RootInv

LEMMA BlockRoot == ASSUME IInv, CyclesFit, RootInv, Block PROVE RootInv'
<1>1. PICK p, r : p = MinOf(Ids \ DOMAIN results) /\ r = BlockedResult(p)
  OBVIOUS
<1>2. /\ phase = "cycles" /\ phase' = phase /\ DOMAIN results # Ids
      /\ doc' = doc /\ needs' = needs /\ order' = order /\ cycles' = cycles
      /\ results' = With(results, p, r)
  BY <1>1 DEF Block, orderVars
<1>3. p \in Ids \ DOMAIN results /\ p \notin Range(order) /\ p \in Blocked
  <2>1. Ids \subseteq Nat /\ Ids \ DOMAIN results # {}
    BY <1>2, IdsAreFinite DEF IInv, ResultsRest
  <2>2. p \in Ids \ DOMAIN results
    BY <1>1, <2>1, MinOfIsLeast
  <2> QED BY <1>2, <2>2 DEF IInv, ResultsRest, Blocked
<1>4. /\ DOMAIN results' = DOMAIN results \cup {p} /\ results'[p] = r
      /\ \A q \in DOMAIN results : results'[q] = results[q]
  BY <1>2, <1>3 DEF With
<1>5. Reach' = Reach /\ OnCycle' = OnCycle /\ Range(order)' = Range(order)
  BY <1>2, ReachStays DEF OnCycle, Range
<1>6. OwnFailure(p)' /\ NamesCycle(p)'
  <2>1. CASE p \in OnCycle
    <3>1. r.code = "PARAM_CYCLE" /\ r.cause = "PARAM_CYCLE"
      BY <1>1, <2>1 DEF BlockedResult, Fails
    <3> QED BY <1>4, <1>5, <2>1, <3>1 DEF OwnFailure, NamesCycle
  <2>2. CASE p \notin OnCycle
    <3>1. r.code = "PARAM_FAILED" /\ r.param = Culprit(p)
      BY <1>1, <2>2 DEF BlockedResult
    <3>2. Culprit(p) \in Reach[p] \cap OnCycle
      BY <1>2, <1>3, CulpritIs
    <3> QED BY <1>4, <1>5, <2>2, <3>1, <3>2 DEF OwnFailure, NamesCycle
  <2> QED BY <2>1, <2>2
<1>7. \A u \in DOMAIN results : /\ OwnFailure(u) => OwnFailure(u)'
                                /\ NamesRoot(u) => NamesRoot(u)'
                                /\ NamesCycle(u) => NamesCycle(u)'
  BY <1>2, <1>3, OneMore
<1>8. \A u \in DOMAIN results' : OwnFailure(u)'
  BY <1>4, <1>6, <1>7 DEF RootInv
<1>9. \A u \in DOMAIN results' \cap Range(order) : NamesRoot(u)'
  BY <1>3, <1>4, <1>7 DEF RootInv
<1>10. \A u \in DOMAIN results' \ Range(order) : NamesCycle(u)'
  BY <1>4, <1>6, <1>7 DEF RootInv
<1> QED BY <1>2, <1>5, <1>8, <1>9, <1>10 DEF RootInv

LEMMA RootsStep == ASSUME IInv, CyclesFit, RootInv, [Next]_vars PROVE RootInv'
<1>1. CASE Evaluate \/ Block
  BY <1>1, EvaluateRoot, BlockRoot
<1>2. CASE ~ (Evaluate \/ Block)
  <2>1. doc' = doc /\ needs' = needs /\ results' = results
    BY <1>2 DEF Next, vars, Build, StartOrder, Order, Ordered, StartComponents, StartRoot,
                Descend, Return, StartCycles, Finish
  <2>2. Reach' = Reach /\ Ids' = Ids
    BY <2>1, ReachStays
  <2>3. /\ \A u : OwnFailure(u)' <=> OwnFailure(u)
        /\ \A u : NamesRoot(u)' <=> NamesRoot(u)
    BY <2>1, <2>2 DEF OwnFailure, NamesRoot, CauseIsRoot
  <2>4. CASE Build \/ StartOrder \/ Order \/ Ordered \/ StartComponents
    <3>1. phase' \notin {"cycles", "done"} /\ phase \notin {"cycles", "done"}
      BY <2>4 DEF Build, StartOrder, Order, Ordered, StartComponents
    <3>2. Range(order) \subseteq Range(order')
      <4>1. CASE Order
        <5>1. order \in Seq(Ids) /\ order' = Append(order, PopFirst(ready)) /\ PopFirst(ready) \in Ids
          <6>1. ready # {} /\ phase = "order" /\ order' = Append(order, PopFirst(ready))
            BY <4>1 DEF Order
          <6>2. ready \subseteq Ids /\ ready \subseteq Nat
            BY <6>1, IdsAreFinite DEF IInv, OrderIsSound
          <6> QED BY <6>1, <6>2, MinOfIsLeast DEF PopFirst, IInv, OrderIsSound
        <5> QED BY <5>1, AppendRange
      <4>2. CASE ~ Order
        <5>1. order' = order
          BY <2>4, <4>2 DEF Build, StartOrder, Ordered, StartComponents, orderVars
        <5> QED BY <5>1
      <4> QED BY <4>1, <4>2
    <3>3. DOMAIN results \subseteq Range(order)
      BY <3>1 DEF RootInv
    <3>4. Range(order)' = Range(order')
      BY DEF Range
    <3> QED BY <2>1, <2>3, <3>1, <3>2, <3>3, <3>4 DEF RootInv
  <2>5. CASE StartRoot \/ Descend \/ Return \/ StartCycles \/ Finish \/ UNCHANGED vars
    <3>1. order' = order /\ Range(order)' = Range(order)
      BY <2>5 DEF StartRoot, Descend, Return, StartCycles, Finish, vars, orderVars, Range
    <3>2. CASE StartCycles
      <4>1. phase = "components" /\ phase' = "cycles"
        BY <3>2 DEF StartCycles
      <4> QED BY <2>1, <2>3, <3>1, <4>1 DEF RootInv
    <3>3. CASE ~ StartCycles
      <4>1. cycles' = cycles
        BY <2>5, <3>3 DEF StartRoot, Descend, Return, Finish, vars
      <4>2. \A u : NamesCycle(u)' <=> NamesCycle(u)
        BY <2>1, <2>2, <4>1 DEF NamesCycle, OnCycle
      <4>3. \/ phase' = phase
            \/ phase = "cycles" /\ phase' = "done" /\ DOMAIN results = Ids
        BY <2>5, <3>3 DEF StartRoot, Descend, Return, Finish, vars
      <4> QED BY <2>1, <2>2, <2>3, <3>1, <4>2, <4>3 DEF RootInv
    <3> QED BY <3>2, <3>3
  <2> QED BY <1>2, <2>4, <2>5 DEF Next
<1> QED BY <1>1, <1>2

LEMMA AlwaysRoots == Spec => [](IInv /\ CycleInv /\ RootInv)
<1>1. IInv /\ CycleInv /\ RootInv /\ [Next]_vars => RootInv'
  BY RootsStep DEF CycleInv
<1> QED BY <1>1, RootsStart, AlwaysCycles, PTL DEF Spec

LEMMA ResultsNameRoot ==
  ASSUME IInv, CyclesFit, RootInv, phase = "done", NEW p \in Ids
  PROVE  /\ p \in DOMAIN results /\ OwnFailure(p) /\ NamesRoot(p)
         /\ results[p].code \in {"OK", "PARAM_FAILED", "PARAM_CYCLE"} \cup OwnCodes
         /\ DOMAIN results[p] = {"code", "param", "cause"}
<1>1. DOMAIN results = Ids /\ OwnFailure(p)
  BY DEF RootInv
<1>2. CASE p \in Range(order)
  <2>1. results[p] \in Result /\ NamesRoot(p)
    BY <1>1, <1>2 DEF RootInv, IInv, ResultsRest
  <2> QED BY <1>1, <2>1 DEF Result
<1>3. CASE p \notin Range(order)
  <2>1. /\ DOMAIN results[p] = {"code", "param", "cause"}
        /\ results[p].code \in {"PARAM_CYCLE", "PARAM_FAILED"} /\ results[p].cause = "PARAM_CYCLE"
    BY <1>1, <1>3 DEF IInv, ResultsRest
  <2>2. CASE results[p].code = "PARAM_FAILED"
    <3>1. results[p].param \in Reach[p] \cap OnCycle
      BY <1>1, <1>3, <2>2 DEF RootInv, NamesCycle
    <3>2. PICK q : q = results[p].param
      OBVIOUS
    <3>3. q \in OnCycle /\ q \in Ids /\ q \notin Range(order)
      BY <3>1, <3>2, OnCycleIs
    <3>4. results[q].code = "PARAM_CYCLE"
      BY <1>1, <3>3 DEF RootInv, NamesCycle
    <3>5. NamesRoot(p)
      BY <1>1, <2>1, <3>1, <3>2, <3>3, <3>4 DEF NamesRoot, CauseIsRoot
    <3> QED BY <1>1, <2>1, <3>5
  <2>3. CASE results[p].code # "PARAM_FAILED"
    BY <1>1, <2>1, <2>3 DEF NamesRoot, CauseIsRoot
  <2> QED BY <2>2, <2>3
<1> QED BY <1>2, <1>3

(* The failure a feature inherits from one it uses. *)
LEMMA InheritsRoot ==
  ASSUME IInv, CyclesFit, RootInv, phase = "done", NEW q \in Ids, results[q].code # "OK",
         NEW used, q \in used
  PROVE  CauseIsRoot(used \cup Reach[q], ParamFailed(Root(q)))
<1>1. PICK r : r = ParamFailed(Root(q))
  OBVIOUS
<1>2. /\ q \in DOMAIN results /\ OwnFailure(q) /\ NamesRoot(q)
      /\ results[q].code \in {"OK", "PARAM_FAILED", "PARAM_CYCLE"} \cup OwnCodes
      /\ DOMAIN results[q] = {"code", "param", "cause"}
  BY ResultsNameRoot
<1>3. r.code = "PARAM_FAILED" /\ r.param = Root(q).param /\ r.cause = Root(q).cause
  BY <1>1 DEF ParamFailed
<1>4. CASE results[q].code = "PARAM_FAILED"
  <2>1. Root(q) = results[q]
    BY <1>4 DEF Root
  <2> QED BY <1>1, <1>2, <1>3, <1>4, <2>1 DEF NamesRoot, CauseIsRoot
<1>5. CASE results[q].code # "PARAM_FAILED"
  <2>1. Root(q) = [results[q] EXCEPT !.param = q]
    BY <1>5 DEF Root
  <2>2. Root(q).param = q /\ Root(q).cause = results[q].cause
    BY <1>2, <2>1
  <2>3. results[q].code \in OwnCodes \cup {"PARAM_CYCLE"} /\ results[q].cause = results[q].code
    BY <1>2, <1>5 DEF OwnFailure
  <2> QED BY <1>1, <1>2, <1>3, <2>2, <2>3 DEF CauseIsRoot
<1> QED BY <1>4, <1>5

(* A feature that uses the parameters two names mean. *)
LEMMA FailedUseIs ==
  ASSUME IInv, CyclesFit, RootInv, phase = "done",
         NEW part, NEW m \in Names, NEW n \in Names, NEW used,
         used = {q \in Ids : Means(part, m, q) \/ Means(part, n, q)}
  PROVE  \/ /\ \A q \in used : results[q].code = "OK"
            /\ FailedUse(part, <<m, n>>) = Ok
         \/ \E q \in used : results[q].code # "OK" /\ FailedUse(part, <<m, n>>) = ParamFailed(Root(q))
<1> DEFINE s == <<m, n>>
           C == {x \in Names : Visible(part, x) # {}}
<1>1. s \in Seq(Names) /\ Range(s) = {m, n}
  BY DEF Range
<1>2. PICK kept : kept = Keeping(s, C)
  OBVIOUS
<1>3. kept \in Seq(Names) /\ Range(kept) = {m, n} \cap C
  <2> HIDE DEF s, C
  <2> QED BY <1>1, <1>2, KeepingIs
<1>4. PICK ids : ids = [i \in DOMAIN kept |-> Lookup(part, kept[i])]
  OBVIOUS
<1>5. Range(ids) = used
  <2>1. \A x, q : Means(part, x, q) <=> Visible(part, x) # {} /\ q = Lookup(part, x)
    BY LookupMeans DEF IInv
  <2>2. \A x, q : Means(part, x, q) => q \in Ids
    BY DEF Means, Visible
  <2>3. \A x \in Range(kept) : x \in {m, n} /\ Visible(part, x) # {}
    BY <1>3
  <2>4. \A x \in {m, n} : Visible(part, x) # {} => \E i \in DOMAIN kept : kept[i] = x
    BY <1>3 DEF Range
  <2>5. \A i \in DOMAIN kept : kept[i] \in Range(kept)
    BY DEF Range
  <2>6. ASSUME NEW q \in Range(ids) PROVE q \in used
    <3>1. PICK i \in DOMAIN kept : q = Lookup(part, kept[i])
      BY <1>4 DEF Range
    <3>2. Means(part, kept[i], q) /\ kept[i] \in {m, n}
      BY <2>1, <2>3, <2>5, <3>1
    <3> QED BY <2>2, <3>2
  <2>7. ASSUME NEW q \in used PROVE q \in Range(ids)
    <3>1. PICK x \in {m, n} : Means(part, x, q)
      OBVIOUS
    <3>2. PICK i \in DOMAIN kept : kept[i] = x
      BY <2>1, <2>4, <3>1
    <3>3. q = Lookup(part, kept[i])
      BY <2>1, <3>1, <3>2
    <3> QED BY <1>4, <3>3 DEF Range
  <2> QED BY <2>6, <2>7
<1>6. \A q \in used : Failed(q) <=> results[q].code # "OK"
  BY DEF RootInv, Failed
<1>7. FailedUse(part, s) = IF \E q \in used : Failed(q) THEN ParamFailed(Root(FirstFailed(ids))) ELSE Ok
  BY <1>2, <1>4, <1>5 DEF FailedUse
<1>8. CASE \E q \in used : Failed(q)
  <2> DEFINE I == {i \in DOMAIN ids : Failed(ids[i])}
  <2>1. I # {} /\ I \subseteq Nat
    <3>1. DOMAIN ids = DOMAIN kept /\ DOMAIN kept \subseteq Nat
      BY <1>3, <1>4
    <3> QED BY <1>5, <1>8, <3>1 DEF Range
  <2>2. MinOf(I) \in I
    <3> HIDE DEF I
    <3> QED BY <2>1, MinOfIsLeast
  <2>3. PICK q : q = FirstFailed(ids)
    OBVIOUS
  <2>4. q = ids[MinOf(I)]
    BY <2>3 DEF FirstFailed
  <2>5. q \in Range(ids) /\ Failed(q)
    BY <2>2, <2>4 DEF Range
  <2> QED BY <1>5, <1>6, <1>7, <1>8, <2>3, <2>5
<1>9. CASE ~ \E q \in used : Failed(q)
  BY <1>6, <1>7, <1>9
<1> QED BY <1>8, <1>9

LEMMA RootCauseIs == ASSUME IInv, CyclesFit, RootInv PROVE RootCause
<1>1. ParametersNameRoot
  BY ResultsNameRoot DEF ParametersNameRoot, NamesRoot
<1>2. FeaturesNameRoot
  <2>1. SUFFICES ASSUME phase = "done", NEW part, NEW m \in {doc[p].name : p \in Ids},
                        NEW n \in {doc[p].name : p \in Ids}, NEW used,
                        used = {q \in Ids : Means(part, m, q) \/ Means(part, n, q)}, NEW r,
                        r = FailedUse(part, <<m, n>>)
                 PROVE  /\ r.code = "OK" <=> \A q \in used : results[q].code = "OK"
                        /\ CauseIsRoot(used \cup UNION {Reach[q] : q \in used}, r)
    BY DEF FeaturesNameRoot
  <2>2. m \in Names /\ n \in Names
    <3>1. \A p \in Ids : doc[p] \in Parameter
      BY DEF IInv, Shape, Ids
    <3>2. \A p \in Ids : doc[p].name \in Names
      BY <3>1 DEF Parameter
    <3> QED BY <3>2
  <2>3. CASE (\A q \in used : results[q].code = "OK") /\ r = Ok
    BY <2>3 DEF Ok, CauseIsRoot
  <2>4. CASE \E q \in used : results[q].code # "OK" /\ r = ParamFailed(Root(q))
    <3>1. PICK q \in used : results[q].code # "OK" /\ r = ParamFailed(Root(q))
      BY <2>4
    <3>2. CauseIsRoot(used \cup Reach[q], r)
      BY <2>1, <3>1, InheritsRoot
    <3>3. r.code = "PARAM_FAILED"
      BY <3>1 DEF ParamFailed
    <3> QED BY <3>1, <3>2, <3>3 DEF CauseIsRoot
  <2> QED BY <2>1, <2>2, <2>3, <2>4, FailedUseIs
<1> QED BY <1>1, <1>2 DEF RootCause

(* For every document: each set the component search closes is a class of parameters
   that reach each other, complete when it is closed, in the end every parameter
   is in one, and each class with a cycle is told by a shortest walk round through
   its first parameter, at the field that uses the next first (sccs, cycles). *)
THEOREM CyclesAreFoundHolds == Spec => []CyclesAreFound
<1>1. IInv /\ CycleInv => CyclesAreFound
  BY ComponentsAre, CyclesFitShortest DEF CycleInv, CyclesAreFound
<1> QED BY <1>1, AlwaysCycles, PTL

(* For every document and every failure: what fails because of another is told
   one it uses, directly or not, that failed by itself or is on a cycle, with its
   code, and a feature is refused exactly when it uses one that failed
   (eval_param, blocked_result, failed_use). *)
THEOREM RootCauseHolds == Spec => []RootCause
<1>1. IInv /\ CycleInv /\ RootInv => RootCause
  BY RootCauseIs DEF CycleInv
<1> QED BY <1>1, AlwaysRoots, PTL
=============================================================================
