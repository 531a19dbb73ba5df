------------------------- MODULE AgentServiceProofs -------------------------
(***************************************************************************)
(* Theorems about AgentService, for any runs, changes, edits and bounds.   *)
(***************************************************************************)
EXTENDS AgentService, FiniteSetTheorems, SequenceTheorems, TLAPS

-----------------------------------------------------------------------------
(* Types. *)

Statuses == {"unknown", "running", "done", "failed"}
AgentEvents == [run : Runs, type : {"draft", "changed", "unchanged", "error"}]
PrepareCalls == [run : Runs, latest : BOOLEAN]
StartCalls ==
    [at : {"none", "idle", "refused"}] \cup [at : {"sent"}, source : Sources]
    \cup [at : {"started"}, source : Sources, run : Runs]
PickCalls ==
    [at : {"none"}] \cup [at : {"merge"}, run : Runs, irs : Irs, keys : SUBSET Changes]
AcceptCalls ==
    [at : {"none"}]
    \cup [at : {"idle"}, run : Runs, irs : Irs, keys : SUBSET Changes, rejected : BOOLEAN]
    \cup [at : {"merge", "compile"}, run : Runs, partial : BOOLEAN, seen : Sources,
          source : Sources, edited : BOOLEAN, rejected : BOOLEAN]

Views ==
    [status : [Runs -> Statuses], base : [Runs -> Sources \cup {None}],
     active : Runs \cup {None}, review : Reviews \cup {None},
     pending : [Runs -> Seq(AgentEvents)], prepares : SUBSET PrepareCalls]

TypeOK ==
    /\ doc \in Sources
    /\ View \in Views
    /\ previews \in SUBSET [of : Sources, latest : BOOLEAN]
    /\ start \in [Starts -> StartCalls]
    /\ accept \in [Accepts -> AcceptCalls]
    /\ pick \in [Picks -> PickCalls]
    /\ used \in SUBSET Runs /\ run \in Runs \cup {None}
    /\ last \in [run : Runs \cup {None}, seq : Nat, end : BOOLEAN]
    /\ events \in Seq(AgentEvents)

-----------------------------------------------------------------------------
(* Replaying events.  Induction on a set of numbers: if n were missing, moving
   every number up by one would fit the set into a smaller one. *)

LEMMA Induction ==
    ASSUME NEW n \in Nat, NEW S, 0 \in S, \A i \in 0..(n - 1) : i \in S => i + 1 \in S
    PROVE  n \in S
<1> SUFFICES ASSUME n \notin S
             PROVE  FALSE
  OBVIOUS
<1> DEFINE T == S \cap (0..n)
           up == [i \in T |-> i + 1]
<1>1. IsFiniteSet(T) /\ 0 \in T
  <2>1. IsFiniteSet(0..n)
    BY FS_Interval
  <2>. QED  BY <2>1, FS_Subset
<1>2. IsFiniteSet(T \ {0}) /\ Cardinality(T \ {0}) = Cardinality(T) - 1
      /\ Cardinality(T) \in Nat
  BY <1>1, FS_RemoveElement, FS_CardinalityType
<1>3. up \in Injection(T, T \ {0})
  <2>1. \A i \in T : i + 1 \in T \ {0}
    OBVIOUS
  <2>2. \A i, k \in T : up[i] = up[k] => i = k
    OBVIOUS
  <2>. QED  BY <2>1, <2>2 DEF Injection, IsInjective
<1>4. Cardinality(T) <= Cardinality(T \ {0})
  BY <1>2, <1>3, FS_Injection
<1>. QED  BY <1>2, <1>4

(* A replay handles the events one by one: its recursive function exists. *)
LEMMA ReplaySteps ==
    ASSUME NEW v, NEW evs \in Seq(AgentEvents)
    PROVE  \E after : /\ after[0] = v /\ after[Len(evs)] = Replay(v, evs)
                      /\ \A i \in 1..Len(evs) : after[i] = HandleEvent(after[i - 1], evs[i])
<1> DEFINE n == Len(evs)
           Steps(f, m) == /\ f[0] = v
                          /\ \A i \in 1..m : f[i] = HandleEvent(f[i - 1], evs[i])
           S == {m \in 0..n : \E f : Steps(f, m)}
           after[i \in 0..n] == IF i = 0 THEN v ELSE HandleEvent(after[i - 1], evs[i])
<1>1. n \in Nat
  OBVIOUS
<1>2. 0 \in S
  <2> DEFINE f == [i \in {0} |-> v]
  <2>1. Steps(f, 0)
    OBVIOUS
  <2>2. \E g : Steps(g, 0)
    BY <2>1
  <2>. HIDE DEF Steps
  <2>. QED  BY <1>1, <2>2
<1>3. ASSUME NEW m \in 0..(n - 1), m \in S
      PROVE  m + 1 \in S
  <2>1. PICK f : Steps(f, m)
    BY <1>3
  <2> DEFINE g == [i \in 0..(m + 1) |-> IF i <= m THEN f[i] ELSE HandleEvent(f[m], evs[m + 1])]
  <2>2. ASSUME NEW i \in 1..(m + 1)
        PROVE  g[i] = HandleEvent(g[i - 1], evs[i])
    <3>1. CASE i <= m
      BY <1>1, <2>1, <3>1
    <3>2. CASE i = m + 1
      BY <1>1, <3>2
    <3>. QED  BY <1>1, <3>1, <3>2
  <2>3. Steps(g, m + 1)
    BY <1>1, <2>1, <2>2
  <2>4. \E h : Steps(h, m + 1)
    BY <2>3
  <2>5. m + 1 \in 0..n
    BY <1>1
  <2>. HIDE DEF Steps, n
  <2>. QED  BY <2>4, <2>5
<1>4. PICK f : Steps(f, n)
  <2>. HIDE DEF Steps, n
  <2>1. n \in S
    BY <1>1, <1>2, <1>3, Induction
  <2>. QED  BY <2>1
<1>5. after = [i \in 0..n |-> IF i = 0 THEN v ELSE HandleEvent(after[i - 1], evs[i])]
  <2> DEFINE h == [i \in 0..n |-> f[i]]
  <2>1. h = [i \in 0..n |-> IF i = 0 THEN v ELSE HandleEvent(h[i - 1], evs[i])]
    BY <1>1, <1>4
  <2>. HIDE DEF h, n
  <2>. QED  BY <2>1
<1>. HIDE DEF after
<1>6. Steps(after, n)
  BY <1>1, <1>5
<1>7. after[n] = Replay(v, evs)
  BY DEF Replay, after
<1>. QED  BY <1>6, <1>7

(* What holds of the first view, and is kept by each event, holds after the replay. *)
LEMMA ReplayKeeps ==
    ASSUME NEW v, NEW evs \in Seq(AgentEvents), NEW G, v \in G[0],
           \A i \in 1..Len(evs) : \A u \in G[i - 1] : HandleEvent(u, evs[i]) \in G[i]
    PROVE  Replay(v, evs) \in G[Len(evs)]
<1> DEFINE n == Len(evs)
           S(f) == {i \in 0..n : f[i] \in G[i]}
<1>1. n \in Nat
  OBVIOUS
<1>2. PICK f : /\ f[0] = v /\ f[n] = Replay(v, evs)
               /\ \A i \in 1..n : f[i] = HandleEvent(f[i - 1], evs[i])
  BY ReplaySteps
<1>3. 0 \in S(f)
  BY <1>1, <1>2
<1>4. \A i \in 0..(n - 1) : i \in S(f) => i + 1 \in S(f)
  <2> SUFFICES ASSUME NEW i \in 0..(n - 1), f[i] \in G[i]
               PROVE  f[i + 1] \in G[i + 1]
    BY <1>1
  <2>1. i + 1 \in 1..n /\ (i + 1) - 1 = i
    BY <1>1
  <2>2. f[i + 1] = HandleEvent(f[i], evs[i + 1])
    BY <1>2, <2>1
  <2>. QED  BY <2>1, <2>2
<1>5. n \in S(f)
  <2>. HIDE DEF S, n
  <2>. QED  BY <1>1, <1>3, <1>4, Induction
<1>. QED  BY <1>2, <1>5

-----------------------------------------------------------------------------
(* What holds of every run, from its start to its end. *)

Of(r, evs) == {i \in DOMAIN evs : evs[i].run = r}
Ends(evs, r) == \E i \in DOMAIN evs : evs[i].run = r /\ evs[i].type \in Terminal

(* A run's end is the last of its events. *)
EndsLast(evs) ==
    \A i, j \in DOMAIN evs : i < j /\ evs[i].run = evs[j].run => evs[i].type \notin Terminal

(* What the app holds of a run, evs being under way to it. *)
Silent(v, evs, r) == v.pending[r] = <<>> /\ Of(r, evs) = {}

AgentInv ==
    /\ run \in used \cup {None}
    /\ last.run \in used \cup {None}
    /\ last.seq <= MaxDrafts + 1
    /\ last.run = run /\ run # None => last.seq <= MaxDrafts

(* A run no one has started, or that has told nothing, has no events. *)
UntoldSilent(v, evs) ==
    \A r \in Runs : r \notin used \/ (r = run /\ last.run # run) => Silent(v, evs, r)

RegisteredOnce ==
    /\ \A c \in Starts : start[c].at = "started" =>
         start[c].run \in used /\ status[start[c].run] = "unknown"
    /\ \A c, d \in Starts :
         start[c].at = "started" /\ start[d].at = "started" /\ start[c].run = start[d].run
         => c = d

(* Early events fit the buffer. *)
BufferFits(v, evs) ==
    \A r \in Runs : Cardinality(Of(r, evs)) + Len(v.pending[r])
                      <= IF r = last.run THEN last.seq ELSE MaxDrafts + 1

(* Of each run the events come in order: what is kept early, what is under way,
   and the end last.  A run has its end coming, or had it, when it is over. *)
RunOrder(v, evs, r) ==
    /\ \A i \in DOMAIN v.pending[r] : v.pending[r][i].run = r
    /\ v.pending[r] # <<>> => v.status[r] = "unknown"
    /\ EndsLast(v.pending[r])
    /\ Ends(v.pending[r], r) => Of(r, evs) = {}
    /\ v.status[r] \in {"done", "failed"} => Of(r, evs) = {}
    /\ r = run => ~Ends(evs, r) /\ ~Ends(v.pending[r], r)
                  /\ v.status[r] \in {"unknown", "running"}
    /\ r \in used /\ r # run /\ v.status[r] \in {"unknown", "running"}
         => Ends(evs, r) \/ Ends(v.pending[r], r)

ActiveRuns(v) == v.active # None => v.status[v.active] = "running"

Known(v) == \A r \in Runs : v.status[r] # "unknown" => r \in used /\ v.base[r] \in Sources

Named(v) ==
    /\ v.review # None => v.status[v.review.run] # "unknown"
    /\ \A p \in v.prepares : v.status[p.run] # "unknown"

CallsNamed ==
    /\ \A p \in Picks : pick[p].at # "none" => status[pick[p].run] # "unknown"
    /\ \A a \in Accepts : accept[a].at # "none" => status[accept[a].run] # "unknown"

(* The app and the events it is to handle fit. *)
Stream(v, evs) ==
    /\ v \in Views /\ Known(v) /\ Named(v) /\ ActiveRuns(v)
    /\ EndsLast(evs) /\ \A r \in Runs : RunOrder(v, evs, r)

RunsInv ==
    /\ TypeOK /\ AgentInv /\ RegisteredOnce /\ CallsNamed /\ Stream(View, events)
    /\ UntoldSilent(View, events) /\ BufferFits(View, events)

-----------------------------------------------------------------------------
(* Reviews, their ticks and their previews. *)

(* The end of run r was handled and its proposal prepared. *)
Prepared(v, r) == v.status[r] = "done" /\ \A p \in v.prepares : p.run # r

PreparesOnce(v) ==
    /\ \A p \in v.prepares : v.status[p.run] = "done"
    /\ \A p, q \in v.prepares : p.run = q.run => p = q
    /\ v.review # None => /\ v.status[v.review.run] # "unknown"
                          /\ v.review.status \in {"ready", "error"} => Prepared(v, v.review.run)

PicksFit ==
    \A p \in Picks : pick[p].at = "merge" =>
      /\ Prepared(View, pick[p].run)
      /\ review # None /\ review.run = pick[p].run /\ review.status \in {"ready", "error"}
           => pick[p].irs = review.irs

PreviewFits ==
    review # None /\ review.status = "ready" /\ review.irs # "none"
    => /\ review.preview.status = "ready" => review.preview.of = review.variant
       /\ \A p \in previews : p.latest => p.of = review.variant

ReviewInv ==
    RunsInv /\ PreparesOnce(View) /\ PicksFit /\ PreviewFits /\ VariantMatchesTicks

-----------------------------------------------------------------------------
(* A proposal that waits for the user, and accepts under way. *)

Waits(v) == Unresolved(v.review) /\ v.review.status # "draft"

(* Only the run of a waiting proposal may still replace it by its own answer. *)
Held(v) ==
    /\ \A p, q \in v.prepares : p.latest /\ q.latest => p = q
    /\ Waits(v) => /\ v.status[v.review.run] = "done"
                   /\ \A p \in v.prepares : p.latest => p.run = v.review.run

HeldInv == ReviewInv /\ Held(View)

(* The source an accept writes: the document it saw, with the ticked changes. *)
Merges(call) ==
    \E K \in SUBSET Changes : /\ call.source = With(call.seen, call.run, K)
                              /\ call.partial = (K # Changes)

AcceptsMerge ==
    \A a \in Accepts : /\ accept[a].at \in {"merge", "compile"} => Merges(accept[a])
                       /\ accept[a].at = "compile" => accept[a].seen = doc \/ accept[a].edited

MergesInv == RunsInv /\ AcceptsMerge

-----------------------------------------------------------------------------
(* Streams of events: taking the first, appending one. *)

LEMMA TakeFirst ==
    ASSUME NEW evs \in Seq(AgentEvents), evs # <<>>, NEW r
    PROVE  /\ Head(evs) \in AgentEvents /\ Tail(evs) \in Seq(AgentEvents)
           /\ Of(r, evs) = {} => Head(evs).run # r /\ Of(r, Tail(evs)) = {}
           /\ Ends(evs, r) <=> \/ Head(evs).run = r /\ Head(evs).type \in Terminal
                               \/ Ends(Tail(evs), r)
           /\ EndsLast(evs) => /\ EndsLast(Tail(evs))
                               /\ Head(evs).run = r /\ Head(evs).type \in Terminal
                                    => Of(r, Tail(evs)) = {}
<1> DEFINE rest == Tail(evs)
<1>1. /\ Len(evs) \in Nat \ {0} /\ DOMAIN evs = 1..Len(evs) /\ DOMAIN rest = 1..(Len(evs) - 1)
      /\ rest \in Seq(AgentEvents) /\ Head(evs) = evs[1] /\ evs[1] \in AgentEvents
      /\ \A i \in DOMAIN rest : i + 1 \in DOMAIN evs /\ rest[i] = evs[i + 1]
      /\ \A i \in DOMAIN evs : i # 1 => i - 1 \in DOMAIN rest /\ rest[i - 1] = evs[i]
      /\ 1 \in DOMAIN evs
  OBVIOUS
<1> HIDE DEF rest
<1>2. Of(r, evs) = {} => Head(evs).run # r /\ Of(r, rest) = {}
  BY <1>1 DEF Of
<1>3. Ends(evs, r) <=> \/ Head(evs).run = r /\ Head(evs).type \in Terminal
                       \/ Ends(rest, r)
  BY <1>1 DEF Ends
<1>4. ASSUME EndsLast(evs)
      PROVE  /\ EndsLast(rest)
             /\ Head(evs).run = r /\ Head(evs).type \in Terminal => Of(r, rest) = {}
  <2>1. EndsLast(rest)
    <3> SUFFICES ASSUME NEW i \in DOMAIN rest, NEW j \in DOMAIN rest, i < j,
                        rest[i].run = rest[j].run
                 PROVE  rest[i].type \notin Terminal
      BY DEF EndsLast
    <3>1. i + 1 \in DOMAIN evs /\ j + 1 \in DOMAIN evs /\ i + 1 < j + 1
      BY <1>1
    <3>. QED  BY <1>1, <1>4, <3>1 DEF EndsLast
  <2>2. ASSUME Head(evs).run = r, Head(evs).type \in Terminal, NEW i \in DOMAIN rest,
               rest[i].run = r
        PROVE  FALSE
    <3>1. i + 1 \in DOMAIN evs /\ 1 < i + 1
      BY <1>1
    <3>. QED  BY <1>1, <1>4, <2>2, <3>1 DEF EndsLast
  <2>. QED  BY <2>1, <2>2 DEF Of
<1>. QED  BY <1>1, <1>2, <1>3, <1>4 DEF rest

LEMMA AppendOne ==
    ASSUME NEW evs \in Seq(AgentEvents), NEW e \in AgentEvents, NEW r
    PROVE  /\ Append(evs, e) \in Seq(AgentEvents)
           /\ Of(r, Append(evs, e)) = {} <=> Of(r, evs) = {} /\ e.run # r
           /\ Ends(Append(evs, e), r) <=> \/ e.run = r /\ e.type \in Terminal
                                          \/ Ends(evs, r)
           /\ EndsLast(evs) /\ ~Ends(evs, e.run) => EndsLast(Append(evs, e))
           /\ \A i \in DOMAIN Append(evs, e) :
                Append(evs, e)[i] = e \/ (i \in DOMAIN evs /\ Append(evs, e)[i] = evs[i])
<1> DEFINE more == Append(evs, e)
           n == Len(evs) + 1
<1>1. /\ n \in Nat \ {0} /\ DOMAIN evs = 1..(n - 1) /\ DOMAIN more = 1..n
      /\ more \in Seq(AgentEvents) /\ more[n] = e
      /\ \A i \in DOMAIN evs : i \in DOMAIN more /\ more[i] = evs[i]
      /\ \A i \in DOMAIN more : i # n => i \in DOMAIN evs
  OBVIOUS
<1> HIDE DEF more, n
<1>2. Of(r, more) = {} <=> Of(r, evs) = {} /\ e.run # r
  BY <1>1 DEF Of
<1>3. Ends(more, r) <=> \/ e.run = r /\ e.type \in Terminal
                        \/ Ends(evs, r)
  BY <1>1 DEF Ends
<1>4. ASSUME EndsLast(evs), ~Ends(evs, e.run)
      PROVE  EndsLast(more)
  <2> SUFFICES ASSUME NEW i \in DOMAIN more, NEW j \in DOMAIN more, i < j,
                      more[i].run = more[j].run
               PROVE  more[i].type \notin Terminal
    BY DEF EndsLast
  <2>1. i \in DOMAIN evs
    BY <1>1
  <2>2. CASE j = n
    BY <1>1, <1>4, <2>1, <2>2 DEF Ends
  <2>3. CASE j # n
    BY <1>1, <1>4, <2>1, <2>3 DEF EndsLast
  <2>. QED  BY <2>2, <2>3
<1>5. \A i \in DOMAIN more : more[i] = e \/ (i \in DOMAIN evs /\ more[i] = evs[i])
  BY <1>1
<1>. QED  BY <1>1, <1>2, <1>3, <1>4, <1>5 DEF more

(* One more, or one less, to count. *)
LEMMA CountFirst ==
    ASSUME NEW evs \in Seq(AgentEvents), evs # <<>>, NEW r
    PROVE  /\ IsFiniteSet(Of(r, evs)) /\ Cardinality(Of(r, evs)) \in Nat
           /\ Cardinality(Of(r, Tail(evs)))
                = Cardinality(Of(r, evs)) - (IF Head(evs).run = r THEN 1 ELSE 0)
<1> DEFINE rest == Tail(evs)
           down == [i \in Of(r, evs) \ {1} |-> i - 1]
<1>1. /\ Len(evs) \in Nat \ {0} /\ DOMAIN evs = 1..Len(evs) /\ DOMAIN rest = 1..(Len(evs) - 1)
      /\ Head(evs) = evs[1]
      /\ \A i \in DOMAIN rest : i + 1 \in DOMAIN evs /\ rest[i] = evs[i + 1]
      /\ \A i \in DOMAIN evs : i # 1 => i - 1 \in DOMAIN rest /\ rest[i - 1] = evs[i]
      /\ 1 \in DOMAIN evs
  OBVIOUS
<1> HIDE DEF rest
<1>2. IsFiniteSet(Of(r, evs))
  <2>1. IsFiniteSet(1..Len(evs)) /\ Of(r, evs) \subseteq 1..Len(evs)
    BY SMTT(30), <1>1, FS_Interval DEF Of
  <2>. QED  BY <2>1, FS_Subset
<1>3. /\ IsFiniteSet(Of(r, evs) \ {1}) /\ Cardinality(Of(r, evs)) \in Nat
      /\ Cardinality(Of(r, evs) \ {1})
           = Cardinality(Of(r, evs)) - (IF Head(evs).run = r THEN 1 ELSE 0)
  <2>1. 1 \in Of(r, evs) <=> Head(evs).run = r
    BY <1>1 DEF Of
  <2>. QED  BY <1>2, <2>1, FS_RemoveElement, FS_CardinalityType
<1>4. down \in Bijection(Of(r, evs) \ {1}, Of(r, rest))
  <2>1. \A i \in Of(r, evs) \ {1} : i \in Int /\ i - 1 \in Of(r, rest)
    BY <1>1 DEF Of
  <2>2. \A i \in Of(r, rest) : i \in Int /\ i + 1 \in Of(r, evs) \ {1} /\ down[i + 1] = i
    BY <1>1 DEF Of
  <2>3. down \in Injection(Of(r, evs) \ {1}, Of(r, rest))
    BY <2>1 DEF Injection, IsInjective
  <2>4. down \in Surjection(Of(r, evs) \ {1}, Of(r, rest))
    BY <2>1, <2>2 DEF Surjection
  <2>. QED  BY <2>3, <2>4 DEF Bijection
<1>5. Cardinality(Of(r, rest)) = Cardinality(Of(r, evs) \ {1})
  BY <1>3, <1>4, FS_Bijection DEF ExistsBijection
<1>. QED  BY <1>2, <1>3, <1>5 DEF rest

LEMMA CountLast ==
    ASSUME NEW evs \in Seq(AgentEvents), NEW e \in AgentEvents, NEW r
    PROVE  /\ IsFiniteSet(Of(r, evs)) /\ Cardinality(Of(r, evs)) \in Nat
           /\ Cardinality(Of(r, Append(evs, e)))
                = Cardinality(Of(r, evs)) + (IF e.run = r THEN 1 ELSE 0)
<1> DEFINE more == Append(evs, e)
           n == Len(evs) + 1
<1>1. /\ n \in Nat \ {0} /\ DOMAIN evs = 1..(n - 1) /\ DOMAIN more = 1..n
      /\ more[n] = e /\ n \notin DOMAIN evs
      /\ \A i \in DOMAIN evs : i \in DOMAIN more /\ more[i] = evs[i]
      /\ \A i \in DOMAIN more : i # n => i \in DOMAIN evs
  OBVIOUS
<1> HIDE DEF more, n
<1>2. IsFiniteSet(Of(r, evs))
  <2>1. IsFiniteSet(1..(n - 1)) /\ Of(r, evs) \subseteq 1..(n - 1)
    BY SMTT(30), <1>1, FS_Interval DEF Of
  <2>. QED  BY <2>1, FS_Subset
<1>3. Of(r, more) = IF e.run = r THEN Of(r, evs) \cup {n} ELSE Of(r, evs)
  BY <1>1 DEF Of
<1>4. n \notin Of(r, evs)
  BY <1>1 DEF Of
<1>5. Cardinality(Of(r, evs) \cup {n}) = Cardinality(Of(r, evs)) + 1
  BY <1>2, <1>4, FS_AddElement
<1>6. Cardinality(Of(r, evs)) \in Nat
  BY <1>2, FS_CardinalityType
<1>. QED  BY <1>2, <1>3, <1>5, <1>6 DEF more

-----------------------------------------------------------------------------
(* One event handled. *)

LEMMA FreshType ==
    ASSUME NEW b \in Sources, NEW r \in Runs, NEW st \in {"draft", "preparing", "ready", "error"}
    PROVE  FreshReview(b, r, st) \in Reviews
<1>1. With(b, r, Changes) \in Sources
  BY DEF With, Sources
<1>. QED  BY <1>1 DEF FreshReview, Reviews, NoPreview, Irs

(* What follows an event of a registered run changes its review and what is
   being prepared, nothing else. *)
LEMMA FollowKeeps ==
    ASSUME NEW v \in Views, NEW e \in AgentEvents, v.base[e.run] \in Sources
    PROVE  /\ Follow(v, e) \in Views
           /\ Follow(v, e).status = v.status /\ Follow(v, e).base = v.base
           /\ Follow(v, e).active = v.active /\ Follow(v, e).pending = v.pending
           /\ Follow(v, e).review \in {None, v.review} \/ Follow(v, e).review.run = e.run
           /\ \A p \in Follow(v, e).prepares :
                p.run = e.run \/ \E q \in v.prepares : p.run = q.run
<1> DEFINE b == v.base[e.run]
<1>1. /\ e.run \in Runs /\ e.type \in {"draft", "changed", "unchanged", "error"}
      /\ FreshReview(b, e.run, "draft") \in Reviews
      /\ FreshReview(b, e.run, "preparing") \in Reviews
      /\ FreshReview(b, e.run, "draft").run = e.run
      /\ FreshReview(b, e.run, "preparing").run = e.run
  BY FreshType DEF AgentEvents, FreshReview
<1>2. CASE e.type = "draft"
  BY <1>1, <1>2 DEF Follow, OnDraft, Views
<1>3. CASE e.type = "changed"
  <2>1. {[p EXCEPT !.latest = FALSE] : p \in v.prepares} \cup {[run |-> e.run, latest |-> TRUE]}
          \in SUBSET PrepareCalls
    <3>1. \A p \in PrepareCalls : [p EXCEPT !.latest = FALSE] \in PrepareCalls
      BY DEF PrepareCalls
    <3>2. [run |-> e.run, latest |-> TRUE] \in PrepareCalls /\ v.prepares \subseteq PrepareCalls
      BY <1>1 DEF Views, PrepareCalls
    <3>. QED  BY <3>1, <3>2
  <2>2. \A p \in PrepareCalls : [p EXCEPT !.latest = FALSE].run = p.run
    BY DEF PrepareCalls
  <2> DEFINE w == Follow(v, e)
             P == {[p EXCEPT !.latest = FALSE] : p \in v.prepares} \cup {[run |-> e.run, latest |-> TRUE]}
             rv == FreshReview(b, e.run, "preparing")
  <2>3. w = [v EXCEPT !.review = rv, !.prepares = P]
    <3>1. Follow(v, e) = Prepare(v, e.run)
      BY <1>3 DEF Follow
    <3>. QED  BY <3>1, Zenon DEF Prepare
  <2>4. /\ w \in Views /\ w.status = v.status /\ w.base = v.base
        /\ w.active = v.active /\ w.pending = v.pending /\ w.review.run = e.run
        /\ w.prepares = P
    <3>1. P \in SUBSET PrepareCalls /\ rv \in Reviews /\ rv.run = e.run
      BY <1>1, <2>1
    <3> HIDE DEF P, rv, w
    <3>. QED  BY <2>3, <3>1 DEF Views
  <2>5. v.prepares \subseteq PrepareCalls
    BY DEF Views
  <2> HIDE DEF w
  <2>6. \A p \in w.prepares : p.run = e.run \/ \E q \in v.prepares : p.run = q.run
    <3> SUFFICES ASSUME NEW p \in P
                 PROVE  p.run = e.run \/ \E q \in v.prepares : p.run = q.run
      BY <2>4
    <3>1. CASE p = [run |-> e.run, latest |-> TRUE]
      BY <3>1
    <3>2. CASE \E q \in v.prepares : p = [q EXCEPT !.latest = FALSE]
      BY <2>2, <2>5, <3>2
    <3>. QED  BY <3>1, <3>2
  <2>. QED  BY <2>4, <2>6 DEF w
<1>4. CASE e.type \in {"unchanged", "error"}
  BY <1>1, <1>4 DEF Follow, DropDraft, Views
<1>. QED  BY <1>1, <1>2, <1>3, <1>4

LEMMA ReduceKeeps ==
    ASSUME NEW v \in Views, NEW e \in AgentEvents
    PROVE  /\ Reduce(v, e) \in Views /\ Reduce(v, e).base = v.base
           /\ Reduce(v, e).pending = v.pending /\ Reduce(v, e).review = v.review
           /\ Reduce(v, e).prepares = v.prepares
           /\ \A r \in Runs : r # e.run => Reduce(v, e).status[r] = v.status[r]
           /\ IF e.type \in Terminal
              THEN /\ Reduce(v, e).status[e.run] \in {"done", "failed"}
                   /\ Reduce(v, e).status[e.run] = "done" <=> e.type # "error"
                   /\ Reduce(v, e).active = IF v.active = e.run THEN None ELSE v.active
              ELSE Reduce(v, e) = v
BY DEF Reduce, Views, AgentEvents, Statuses

LEMMA PendingKept ==
    ASSUME NEW v \in Views, NEW r \in Runs, NEW p \in Seq(AgentEvents), NEW w,
           w = [v EXCEPT !.pending[r] = p]
    PROVE  /\ w \in Views /\ w.status = v.status /\ w.base = v.base /\ w.active = v.active
           /\ w.review = v.review /\ w.prepares = v.prepares
           /\ w.pending[r] = p /\ \A q \in Runs : q # r => w.pending[q] = v.pending[q]
<1>1. [v.pending EXCEPT ![r] = p] \in [Runs -> Seq(AgentEvents)]
  BY DEF Views
<1>. QED  BY <1>1 DEF Views

(* Handling the first event leaves a stream that fits. *)
LEMMA HandleFirst ==
    ASSUME NEW v, NEW evs \in Seq(AgentEvents), evs # <<>>, Stream(v, evs),
           Len(v.pending[Head(evs).run]) < EventBuffer \/ v.status[Head(evs).run] # "unknown"
    PROVE  Stream(HandleEvent(v, Head(evs)), Tail(evs))
<1> DEFINE e == Head(evs)
           rest == Tail(evs)
           w == HandleEvent(v, e)
<1>1. /\ e \in AgentEvents /\ e.run \in Runs /\ rest \in Seq(AgentEvents) /\ v \in Views
      /\ EndsLast(rest) /\ v.pending \in [Runs -> Seq(AgentEvents)] /\ v.status \in [Runs -> Statuses]
  BY TakeFirst DEF Stream, AgentEvents, Views
<1>2. \A r \in Runs :
        /\ Of(r, evs) = {} => e.run # r /\ Of(r, rest) = {}
        /\ Ends(evs, r) <=> (e.run = r /\ e.type \in Terminal) \/ Ends(rest, r)
        /\ e.run = r /\ e.type \in Terminal => Of(r, rest) = {}
        /\ RunOrder(v, evs, r)
  BY TakeFirst DEF Stream
<1>3. CASE v.status[e.run] = "unknown"
  <2> DEFINE p == Append(v.pending[e.run], e)
  <2>1. w = [v EXCEPT !.pending[e.run] = p]
    BY <1>3 DEF HandleEvent
  <2>. /\ v.pending[e.run] \in Seq(AgentEvents) /\ p \in Seq(AgentEvents)
       /\ \A i \in DOMAIN p : p[i] = e \/ (i \in DOMAIN v.pending[e.run] /\ p[i] = v.pending[e.run][i])
    BY <1>1, AppendOne
  <2> HIDE DEF p
  <2>2. /\ w \in Views /\ w.status = v.status /\ w.base = v.base /\ w.active = v.active
        /\ w.pending[e.run] = p /\ p \in Seq(AgentEvents)
        /\ \A r \in Runs : r # e.run => w.pending[r] = v.pending[r]
    BY <1>1, <2>1, PendingKept
  <2>3. \A i \in DOMAIN p : p[i].run = e.run
    BY <1>1, <1>2 DEF RunOrder
  <2>4. ~Ends(v.pending[e.run], e.run)
    BY <1>1, <1>2 DEF RunOrder
  <2>5. EndsLast(p) /\ (Ends(p, e.run) <=> e.type \in Terminal)
    BY <1>1, <1>2, <2>4, AppendOne DEF RunOrder, p
  <2> HIDE DEF w
  <2>6. RunOrder(w, rest, e.run)
    BY <1>1, <1>2, <1>3, <2>2, <2>3, <2>4, <2>5 DEF RunOrder
  <2>7. \A r \in Runs : r # e.run => RunOrder(w, rest, r)
    BY <1>2, <2>2 DEF RunOrder
  <2>8. w.review = v.review /\ w.prepares = v.prepares
    BY <1>1, <2>1, PendingKept DEF w
  <2>. QED  BY <1>1, <2>2, <2>6, <2>7, <2>8 DEF Stream, Known, Named, ActiveRuns, w
<1>4. CASE v.status[e.run] # "unknown"
  <2> DEFINE u == Reduce(v, e)
  <2>1. w = Follow(u, e)
    BY <1>4 DEF HandleEvent
  <2>2. /\ u \in Views /\ u.base = v.base /\ u.pending = v.pending
        /\ \A r \in Runs : r # e.run => u.status[r] = v.status[r]
        /\ IF e.type \in Terminal
           THEN /\ u.status[e.run] \in {"done", "failed"}
                /\ u.active = IF v.active = e.run THEN None ELSE v.active
           ELSE u = v
    BY <1>1, ReduceKeeps
  <2>3. v.base[e.run] \in Sources
    BY <1>1, <1>4 DEF Stream, Known
  <2>4. /\ w \in Views /\ w.status = u.status /\ w.base = u.base
        /\ w.active = u.active /\ w.pending = u.pending
        /\ w.review \in {None, u.review} \/ w.review.run = e.run
        /\ \A p \in w.prepares : p.run = e.run \/ \E q \in u.prepares : p.run = q.run
    BY <1>1, <2>1, <2>2, <2>3, FollowKeeps
  <2>9. /\ u.review = v.review /\ u.prepares = v.prepares
        /\ \A p \in v.prepares : p.run \in Runs
        /\ v.review # None => v.review.run \in Runs
    BY <1>1, ReduceKeeps DEF Views, PrepareCalls, Reviews
  <2> HIDE DEF w, u
  <2>5. RunOrder(w, rest, e.run)
    BY <1>1, <1>2, <1>4, <2>2, <2>4 DEF RunOrder
  <2>6. \A r \in Runs : r # e.run => RunOrder(w, rest, r)
    BY <1>2, <2>2, <2>4 DEF RunOrder
  <2>7. Known(w)
    BY <1>4, <2>2, <2>4 DEF Stream, Known
  <2>8. ActiveRuns(w)
    <3>1. w.active \in Runs \cup {None} /\ ActiveRuns(v)
      BY <2>4 DEF Views, Stream
    <3>2. CASE e.type \in Terminal
      BY <1>1, <2>2, <2>4, <3>1, <3>2 DEF ActiveRuns
    <3>3. CASE e.type \notin Terminal
      BY <2>2, <2>4, <3>1, <3>3 DEF ActiveRuns
    <3>. QED  BY <3>2, <3>3
  <2>10. Named(w)
    <3>1. \A r \in Runs : v.status[r] # "unknown" => w.status[r] # "unknown"
      BY <1>1, <1>4, <2>2, <2>4
    <3>. QED  BY <1>1, <1>4, <2>4, <2>9, <3>1 DEF Stream, Named
  <2>. QED  BY <1>1, <2>4, <2>5, <2>6, <2>7, <2>8, <2>10 DEF Stream, w
<1>. QED  BY <1>3, <1>4

-----------------------------------------------------------------------------
(* The steps that the runs' invariant is about. *)

LEMMA InitRuns ==
    ASSUME Init
    PROVE  RunsInv
<1> USE DEF Init, Agent!Init
<1>1. /\ <<>> \in Seq(AgentEvents) /\ Len(<<>>) = 0 /\ DOMAIN <<>> = {}
      /\ {} \in Sources /\ MaxDrafts \in Nat
  BY BoundsAssumption DEF Sources
<1>2. View \in Views
  BY <1>1 DEF View, Views, Statuses
<1>3. TypeOK
  BY <1>1, <1>2 DEF TypeOK, Off, StartCalls, AcceptCalls, PickCalls
<1>4. Stream(View, events)
  BY <1>1, <1>2 DEF Stream, View, Known, Named, ActiveRuns, EndsLast, RunOrder, Ends, Of
<1>5. \A r \in Runs : Of(r, events) = {} /\ Cardinality(Of(r, events)) = 0
  BY <1>1, FS_EmptySet DEF Of
<1>. QED  BY <1>1, <1>3, <1>4, <1>5 DEF RunsInv, AgentInv, RegisteredOnce, CallsNamed, Off, UntoldSilent, Silent,
             BufferFits, View

LEMMA SetViewMeans ==
    ASSUME NEW w \in Views, SetView(w)
    PROVE  View' = w
BY DEF SetView, View, Views

(* A step that neither the runs' state nor their events are touched by. *)
LEMMA RunsUntouched ==
    ASSUME RunsInv, UNCHANGED <<status, base, active, pending, used, run, last, events>>,
           TypeOK', RegisteredOnce', CallsNamed', Named(View)'
    PROVE  RunsInv'
<1>1. /\ AgentInv' /\ Known(View)' /\ ActiveRuns(View)'
      /\ EndsLast(events)' /\ (\A r \in Runs : RunOrder(View, events, r))'
  BY DEF RunsInv, AgentInv, Stream, Known, ActiveRuns, EndsLast, RunOrder, View, Ends, Of
<1>2. UntoldSilent(View, events)' /\ BufferFits(View, events)'
  BY DEF RunsInv, UntoldSilent, Silent, BufferFits, View, Of
<1>. QED  BY <1>1, <1>2 DEF RunsInv, Stream, TypeOK

(* What handling an event does to what is kept early. *)
LEMMA HandlePending ==
    ASSUME NEW v \in Views, NEW e \in AgentEvents, NEW w, w = HandleEvent(v, e),
           v.status[e.run] = "unknown" => Len(v.pending[e.run]) < EventBuffer,
           v.status[e.run] # "unknown" => v.base[e.run] \in Sources
    PROVE  /\ \A r \in Runs : r # e.run => w.pending[r] = v.pending[r] /\ w.status[r] = v.status[r]
           /\ IF v.status[e.run] = "unknown"
              THEN w.pending[e.run] = Append(v.pending[e.run], e) /\ w.status = v.status
              ELSE w.pending = v.pending /\ w.status[e.run] # "unknown"
<1>1. e.run \in Runs /\ v.pending[e.run] \in Seq(AgentEvents)
  BY DEF AgentEvents, Views
<1>2. CASE v.status[e.run] = "unknown"
  <2> DEFINE p == Append(v.pending[e.run], e)
  <2>1. p \in Seq(AgentEvents)
    BY <1>1
  <2>2. w = [v EXCEPT !.pending[e.run] = p]
    BY <1>2 DEF HandleEvent
  <2> HIDE DEF p
  <2>3. /\ w.status = v.status /\ w.pending[e.run] = p
        /\ \A r \in Runs : r # e.run => w.pending[r] = v.pending[r]
    BY <1>1, <2>1, <2>2, PendingKept
  <2>. QED  BY <1>2, <2>3 DEF p
<1>3. CASE v.status[e.run] # "unknown"
  <2>1. w = Follow(Reduce(v, e), e)
    BY <1>3 DEF HandleEvent
  <2> DEFINE u == Reduce(v, e)
  <2>2. /\ u \in Views /\ u.base = v.base /\ u.pending = v.pending
        /\ \A r \in Runs : r # e.run => u.status[r] = v.status[r]
        /\ u.status[e.run] # "unknown"
    <3>1. CASE e.type \in Terminal
      BY <1>3, <3>1, ReduceKeeps
    <3>2. CASE e.type \notin Terminal
      BY <1>3, <3>2, ReduceKeeps
    <3>. QED  BY <3>1, <3>2
  <2>3. v.base[e.run] \in Sources
    BY <1>3
  <2> HIDE DEF u
  <2>4. w.pending = u.pending /\ w.status = u.status
    BY <2>1, <2>2, <2>3, FollowKeeps DEF u
  <2>. QED  BY <1>3, <2>2, <2>4
<1>. QED  BY <1>2, <1>3

LEMMA DeliverRuns ==
    ASSUME RunsInv, Deliver
    PROVE  RunsInv'
<1> DEFINE e == Head(events)
           w == HandleEvent(View, e)
<1>1. /\ events \in Seq(AgentEvents) /\ events # <<>> /\ events' = Tail(events) /\ SetView(w)
      /\ e \in AgentEvents /\ e.run \in Runs /\ events' \in Seq(AgentEvents)
      /\ View \in Views /\ Stream(View, events)
  BY TakeFirst DEF Deliver, RunsInv, TypeOK, AgentEvents
<1>2. /\ View.status = status /\ View.pending = pending /\ View.base = base
      /\ View'.status = status' /\ View'.pending = pending' /\ View'.base = base'
      /\ pending \in [Runs -> Seq(AgentEvents)]
  BY <1>1 DEF View, Views
<1>3. \A r \in Runs :
        /\ Cardinality(Of(r, events)) \in Nat /\ Cardinality(Of(r, events')) \in Nat
        /\ Cardinality(Of(r, events')) = Cardinality(Of(r, events)) - (IF e.run = r THEN 1 ELSE 0)
        /\ Len(pending[r]) \in Nat
        /\ Of(r, events) = {} => e.run # r /\ Of(r, events') = {}
  <2>1. \A r \in Runs : Of(r, events') \subseteq 1..Len(events')
    BY <1>1 DEF Of
  <2>2. \A r \in Runs : Cardinality(Of(r, events')) \in Nat
    <3>1. IsFiniteSet(1..Len(events'))
      BY <1>1, FS_Interval
    <3>2. \A r \in Runs : IsFiniteSet(Of(r, events'))
      BY <2>1, <3>1, FS_Subset
    <3>. QED  BY <3>2, FS_CardinalityType
  <2>. QED  BY <1>1, <1>2, <2>2, CountFirst, TakeFirst
<1>4. Len(pending[e.run]) < EventBuffer
  <2>1. Cardinality(Of(e.run, events)) + Len(pending[e.run]) <= MaxDrafts + 1
    <3> DEFINE told == Cardinality(Of(e.run, events)) + Len(pending[e.run])
    <3>1. told <= IF e.run = last.run THEN last.seq ELSE MaxDrafts + 1
      BY <1>1, <1>2 DEF RunsInv, BufferFits
    <3>2. told \in Nat /\ last.seq \in Nat /\ MaxDrafts \in Nat /\ last.seq <= MaxDrafts + 1
      BY <1>1, <1>3, BoundsAssumption DEF RunsInv, AgentInv, TypeOK
    <3> HIDE DEF told
    <3>3. told <= MaxDrafts + 1
      BY <3>1, <3>2
    <3>. QED  BY <3>3 DEF told
  <2>2. Cardinality(Of(e.run, events)) >= 1
    BY <1>1, <1>3
  <2>. QED  BY <1>1, <1>3, <2>1, <2>2, BoundsAssumption, BufferAssumption
<1>5. Stream(w, events')
  BY <1>1, <1>2, <1>4, HandleFirst
<1>6. View' = w
  BY <1>1, <1>5, SetViewMeans DEF Stream
<1>7. /\ \A r \in Runs : r # e.run => pending'[r] = pending[r] /\ status'[r] = status[r]
      /\ IF status[e.run] = "unknown"
         THEN pending'[e.run] = Append(pending[e.run], e) /\ status' = status
         ELSE pending' = pending /\ status'[e.run] # "unknown"
  <2>1. status[e.run] # "unknown" => base[e.run] \in Sources
    BY <1>1, <1>2 DEF Stream, Known
  <2>. HIDE DEF w, e
  <2>. QED  BY <1>1, <1>2, <1>4, <1>6, <2>1, HandlePending DEF w
<1>8. /\ UNCHANGED <<doc, previews, start, accept, pick, used, run, last>>
      /\ TypeOK
  BY DEF Deliver, agentVars, RunsInv
<1> HIDE DEF w, e
<1>9. TypeOK'
  BY <1>1, <1>5, <1>6, <1>8 DEF TypeOK, Stream
<1>10. RegisteredOnce' /\ CallsNamed'
  <2>1. \A r \in Runs : /\ status[r] # "unknown" => status'[r] # "unknown"
                        /\ status[r] = "unknown" => status'[r] = "unknown"
    BY <1>1, <1>7
  <2>. QED  BY <1>8, <2>1 DEF RunsInv, RegisteredOnce, CallsNamed, TypeOK, StartCalls, PickCalls, AcceptCalls
<1>11. UntoldSilent(View, events)'
  <2>1. \A r \in Runs : Of(r, events) = {} => Of(r, events') = {} /\ pending'[r] = pending[r]
    BY <1>3, <1>7
  <2>. QED  BY <1>2, <1>8, <2>1 DEF RunsInv, UntoldSilent, Silent
<1>12. BufferFits(View, events)'
  <2> SUFFICES ASSUME NEW r \in Runs
               PROVE  Cardinality(Of(r, events')) + Len(pending'[r])
                        <= IF r = last.run THEN last.seq ELSE MaxDrafts + 1
    BY <1>2, <1>8 DEF BufferFits
  <2>1. Cardinality(Of(r, events)) + Len(pending[r])
          <= IF r = last.run THEN last.seq ELSE MaxDrafts + 1
    BY <1>2 DEF RunsInv, BufferFits
  <2>2. Len(pending'[r]) = Len(pending[r]) \/ (r = e.run /\ Len(pending'[r]) = Len(pending[r]) + 1)
    BY <1>1, <1>2, <1>7
  <2>. QED  BY SMTT(30), <1>3, <1>8, <2>1, <2>2, BoundsAssumption DEF TypeOK
<1>13. AgentInv'
  BY <1>8 DEF RunsInv, AgentInv
<1>14. Stream(View, events)'
  BY <1>5, <1>6, <1>8 DEF Stream, Known, Named, ActiveRuns, RunOrder, EndsLast, Ends, Of
<1>. QED  BY <1>9, <1>10, <1>11, <1>12, <1>13, <1>14 DEF RunsInv

(* The reply to start registers its run; what follows is as if the early events
   were still under way, ahead of the others. *)
LEMMA Joined ==
    ASSUME NEW p \in Seq(AgentEvents), NEW evs \in Seq(AgentEvents), NEW r,
           \A i \in DOMAIN p : p[i].run = r,
           EndsLast(p), EndsLast(evs), Ends(p, r) => Of(r, evs) = {}
    PROVE  /\ p \o evs \in Seq(AgentEvents) /\ EndsLast(p \o evs)
           /\ \A q : Ends(p \o evs, q) <=> (q = r /\ Ends(p, r)) \/ Ends(evs, q)
           /\ \A q : q # r => (Of(q, p \o evs) = {} <=> Of(q, evs) = {})
<1> DEFINE all == p \o evs
           n == Len(p)
<1>1. /\ n \in Nat /\ DOMAIN p = 1..n /\ all \in Seq(AgentEvents)
      /\ DOMAIN evs = 1..Len(evs) /\ DOMAIN all = 1..(n + Len(evs)) /\ Len(evs) \in Nat
      /\ \A i \in DOMAIN p : all[i] = p[i] /\ i \in DOMAIN all
      /\ \A i \in DOMAIN evs : all[n + i] = evs[i] /\ n + i \in DOMAIN all
      /\ \A i \in DOMAIN all : i \in DOMAIN p \/ (i - n \in DOMAIN evs /\ all[i] = evs[i - n])
  <2>1. /\ all \in Seq(AgentEvents) /\ Len(all) = n + Len(evs)
        /\ \A i \in 1..(n + Len(evs)) : all[i] = IF i <= n THEN p[i] ELSE evs[i - n]
    BY ConcatProperties
  <2>2. n \in Nat /\ Len(evs) \in Nat /\ DOMAIN p = 1..n /\ DOMAIN evs = 1..Len(evs)
    BY LenProperties
  <2> HIDE DEF all, n
  <2>3. DOMAIN all = 1..Len(all)
    BY <2>1, LenProperties
  <2>4. \A i \in DOMAIN p : all[i] = p[i] /\ i \in DOMAIN all
    BY <2>1, <2>2, <2>3
  <2>5. \A i \in DOMAIN evs : all[n + i] = evs[i] /\ n + i \in DOMAIN all
    BY <2>1, <2>2, <2>3
  <2>6. \A i \in DOMAIN all : i \in DOMAIN p \/ (i - n \in DOMAIN evs /\ all[i] = evs[i - n])
    BY <2>1, <2>2, <2>3
  <2>. QED  BY <2>1, <2>2, <2>3, <2>4, <2>5, <2>6
<1> HIDE DEF all, n
<1>2. \A q : Ends(all, q) <=> (q = r /\ Ends(p, r)) \/ Ends(evs, q)
  BY <1>1 DEF Ends
<1>3. ASSUME NEW q, q # r
      PROVE  Of(q, all) = {} <=> Of(q, evs) = {}
  <2>1. ASSUME NEW i \in Of(q, all)
        PROVE  i - n \in Of(q, evs)
    BY <1>1, <1>3, <2>1 DEF Of
  <2>2. ASSUME NEW i \in Of(q, evs)
        PROVE  n + i \in Of(q, all)
    BY <1>1, <2>2 DEF Of
  <2>. QED  BY <2>1, <2>2
<1>4. EndsLast(all)
  <2> SUFFICES ASSUME NEW i \in DOMAIN all, NEW j \in DOMAIN all, i < j,
                      all[i].run = all[j].run, all[i].type \in Terminal
               PROVE  FALSE
    BY DEF EndsLast
  <2>0. i \in Int /\ j \in Int
    BY <1>1
  <2>1. CASE i \in DOMAIN p /\ j \in DOMAIN p
    BY <1>1, <2>1 DEF EndsLast
  <2>2. CASE i \in DOMAIN p /\ j \notin DOMAIN p
    <3>1. Ends(p, r)
      BY <1>1, <2>2 DEF Ends
    <3>2. j - n \in Of(r, evs)
      BY <1>1, <2>2 DEF Of
    <3>. QED  BY <3>1, <3>2
  <2>3. CASE i \notin DOMAIN p
    <3>1. i - n \in DOMAIN evs /\ j - n \in DOMAIN evs /\ i - n < j - n
      BY <1>1, <2>0, <2>3
    <3>. QED  BY <1>1, <2>0, <2>3, <3>1 DEF EndsLast
  <2>. QED  BY <2>1, <2>2, <2>3
<1>. QED  BY <1>1, <1>2, <1>3, <1>4 DEF all

(* Handling p in front of evs, one event after the other: the views stay in K
   when every event keeps them there. *)
LEMMA ReplayStream ==
    ASSUME NEW v, NEW r \in Runs, NEW p \in Seq(AgentEvents), NEW evs \in Seq(AgentEvents),
           \A i \in DOMAIN p : p[i].run = r,
           Stream(v, p \o evs), v.status[r] # "unknown",
           NEW K, v \in K,
           \A u \in K : \A coming \in Seq(AgentEvents) :
             coming # <<>> /\ Head(coming).run = r /\ Stream(u, coming) /\ u.status[r] # "unknown"
             => HandleEvent(u, Head(coming)) \in K
    PROVE  LET w == Replay(v, p)
           IN  /\ w \in K /\ Stream(w, evs) /\ w.pending = v.pending /\ w.status[r] # "unknown"
               /\ \A q \in Runs : q # r => w.status[q] = v.status[q]
<1> DEFINE all == p \o evs
           n == Len(p)
           Rest(i) == SubSeq(all, i + 1, Len(all))
           Fits(u) == /\ u.pending = v.pending /\ u.status[r] # "unknown"
                      /\ \A q \in Runs : q # r => u.status[q] = v.status[q]
           G == [i \in 0..n |-> {u \in Views \cap K : Stream(u, Rest(i)) /\ Fits(u)}]
<1>1. /\ n \in Nat /\ Rest(0) = all /\ Rest(n) = evs /\ Len(all) = n + Len(evs)
      /\ Len(evs) \in Nat /\ all \in Seq(AgentEvents)
      /\ \A i \in 1..n : all[i] = p[i] /\ p[i] \in AgentEvents /\ p[i].run = r
  <2>1. /\ n \in Nat /\ Len(evs) \in Nat /\ all \in Seq(AgentEvents) /\ Len(all) = n + Len(evs)
        /\ \A i \in 1..n : all[i] = p[i] /\ p[i] \in AgentEvents /\ p[i].run = r
        /\ \A i \in 1..Len(evs) : all[n + i] = evs[i]
    BY ConcatProperties
  <2>2. Rest(0) = all
    BY <2>1, SubSeqFull
  <2>3. Rest(n) = evs
    <3> HIDE DEF all, n
    <3>1. \A i \in (n + 1)..Len(all) : all[i] \in AgentEvents
      BY <2>1
    <3>2. /\ Rest(n) \in Seq(AgentEvents)
          /\ Len(Rest(n)) = IF n + 1 <= Len(all) THEN Len(all) - (n + 1) + 1 ELSE 0
          /\ \A i \in 1..(Len(all) - (n + 1) + 1) : Rest(n)[i] = all[(n + 1) + i - 1]
      BY <2>1, <3>1, SubSeqProperties
    <3>3. Len(Rest(n)) = Len(evs) /\ \A i \in 1..Len(evs) : Rest(n)[i] = evs[i]
      BY <2>1, <3>2
    <3>. QED  BY <3>2, <3>3, SeqEqual
  <2>. QED  BY <2>1, <2>2, <2>3
<1>2. \A i \in 1..n : /\ Rest(i - 1) \in Seq(AgentEvents) /\ Rest(i - 1) # <<>>
                      /\ Head(Rest(i - 1)) = p[i] /\ Tail(Rest(i - 1)) = Rest(i)
  <2> HIDE DEF all
  <2> SUFFICES ASSUME NEW i \in 1..n
               PROVE  /\ Rest(i - 1) \in Seq(AgentEvents) /\ Rest(i - 1) # <<>>
                      /\ Head(Rest(i - 1)) = p[i] /\ Tail(Rest(i - 1)) = Rest(i)
    OBVIOUS
  <2>1. /\ i \in 1..Len(all) /\ Len(all) \in i..Len(all) /\ all[i] = p[i]
        /\ Rest(i - 1) = SubSeq(all, i, Len(all)) /\ all \in Seq(AgentEvents)
    BY <1>1
  <2>2. Head(Rest(i - 1)) = p[i] /\ Tail(Rest(i - 1)) = Rest(i)
    BY <2>1, HeadTailOfSubSeq
  <2>3. Rest(i - 1) \in Seq(AgentEvents) /\ Len(Rest(i - 1)) = Len(all) - i + 1
    <3>1. \A k \in i..Len(all) : all[k] \in AgentEvents
      BY <2>1
    <3>. QED  BY <2>1, <3>1, SubSeqProperties
  <2>4. Len(Rest(i - 1)) # 0
    BY <2>1, <2>3
  <2>. QED  BY <2>2, <2>3, <2>4, EmptySeq
<1> HIDE DEF n, all, Rest
<1>3. v \in G[0]
  <2>1. v \in Views /\ Stream(v, Rest(0)) /\ Fits(v)
    BY <1>1 DEF Stream, all
  <2>. QED  BY <1>1, <2>1
<1>4. ASSUME NEW i \in 1..n, NEW u \in G[i - 1]
      PROVE  HandleEvent(u, p[i]) \in G[i]
  <2>1. u \in Views /\ u \in K /\ Stream(u, Rest(i - 1)) /\ Fits(u)
    BY <1>1, <1>4
  <2>2. p[i] \in AgentEvents /\ p[i].run = r
    BY <1>1
  <2>3. Stream(HandleEvent(u, p[i]), Rest(i))
    BY <1>2, <2>1, <2>2, HandleFirst
  <2>4. u.base[r] \in Sources
    BY <2>1 DEF Stream, Known
  <2>5. Fits(HandleEvent(u, p[i]))
    BY <2>1, <2>2, <2>4, HandlePending
  <2>6. HandleEvent(u, p[i]) \in K
    BY <1>2, <2>1, <2>2
  <2>. QED  BY SMTT(30), <1>1, <2>3, <2>5, <2>6 DEF Stream
<1>5. Replay(v, p) \in G[n]
  <2>. HIDE DEF G
  <2>. QED  BY <1>3, <1>4, ReplayKeeps DEF n
<1>. QED  BY <1>1, <1>5

(* The view a reply to start leaves, before the early events are replayed. *)
Joining(c) ==
    [View EXCEPT !.status[start[c].run] = "running", !.base[start[c].run] = start[c].source,
                 !.active = start[c].run, !.pending[start[c].run] = <<>>]

LEMMA JoiningMeans ==
    ASSUME RunsInv, NEW c \in Starts, Registered(c)
    PROVE  LET r == start[c].run
               v == Joining(c)
           IN  /\ r \in Runs /\ start[c].source \in Sources /\ status[r] = "unknown" /\ r \in used
               /\ events \in Seq(AgentEvents) /\ pending[r] \in Seq(AgentEvents) /\ View \in Views
               /\ SetView(Replay(v, pending[r])) /\ Stream(View, events)
               /\ start' = [start EXCEPT ![c] = Off]
               /\ UNCHANGED <<doc, previews, accept, pick, used, run, last, events>>
               /\ start \in [Starts -> StartCalls]
               /\ v \in Views /\ v.active = r /\ v.review = review /\ v.prepares = prepares
               /\ v.status[r] = "running" /\ v.base[r] = start[c].source /\ v.pending[r] = <<>>
               /\ \A q \in Runs : q # r => /\ v.status[q] = status[q] /\ v.base[q] = base[q]
                                           /\ v.pending[q] = pending[q]
               /\ status \in [Runs -> Statuses] /\ base \in [Runs -> Sources \cup {None}]
               /\ pending \in [Runs -> Seq(AgentEvents)]
               /\ View.status = status /\ View.base = base /\ View.pending = pending
               /\ View.review = review /\ View.prepares = prepares
<1> DEFINE r == start[c].run
           v == Joining(c)
<1>1. /\ r \in Runs /\ start[c].source \in Sources /\ status[r] = "unknown" /\ r \in used
      /\ events \in Seq(AgentEvents) /\ pending[r] \in Seq(AgentEvents) /\ View \in Views
      /\ SetView(Replay(Joining(c), pending[r])) /\ Stream(View, events) /\ start' = [start EXCEPT ![c] = Off]
      /\ UNCHANGED <<doc, previews, accept, pick, used, run, last, events>>
      /\ start \in [Starts -> StartCalls]
  <2>1. start[c] \in StartCalls /\ start[c].at = "started"
    BY DEF Registered, RunsInv, TypeOK
  <2>2. r \in Runs /\ start[c].source \in Sources
    BY <2>1 DEF StartCalls
  <2>3. pending[r] \in Seq(AgentEvents)
    BY <2>2 DEF RunsInv, TypeOK, Views, View
  <2>. QED  BY <2>1, <2>2, <2>3 DEF Registered, RunsInv, TypeOK, RegisteredOnce, hostVars, agentVars, Joining
<1>2. /\ v \in Views
      /\ v.status = [status EXCEPT ![r] = "running"]
      /\ v.base = [base EXCEPT ![r] = start[c].source] /\ v.active = r
      /\ v.pending = [pending EXCEPT ![r] = <<>>]
      /\ v.review = review /\ v.prepares = prepares
  <2>1. /\ status \in [Runs -> Statuses] /\ base \in [Runs -> Sources \cup {None}]
        /\ active \in Runs \cup {None} /\ review \in Reviews \cup {None}
        /\ pending \in [Runs -> Seq(AgentEvents)] /\ prepares \in SUBSET PrepareCalls
    BY <1>1 DEF View, Views
  <2> DEFINE st == [status EXCEPT ![r] = "running"]
             bs == [base EXCEPT ![r] = start[c].source]
             pd == [pending EXCEPT ![r] = <<>>]
  <2>2. st \in [Runs -> Statuses] /\ bs \in [Runs -> Sources \cup {None}]
        /\ pd \in [Runs -> Seq(AgentEvents)]
    <3>1. "running" \in Statuses /\ <<>> \in Seq(AgentEvents)
      BY DEF Statuses
    <3>. QED  BY <1>1, <2>1, <3>1
  <2>3. v = [status |-> st, base |-> bs, active |-> r, review |-> review,
             pending |-> pd, prepares |-> prepares]
    <3>1. /\ View.status = status /\ View.base = base /\ View.pending = pending
          /\ View.review = review /\ View.prepares = prepares
      BY DEF View
    <3>2. View \in Views
      BY <1>1
    <3>3. v = [View EXCEPT !.status = st, !.base = bs, !.active = r, !.pending = pd]
      BY <3>1, <3>2 DEF Views, Joining
    <3> HIDE DEF v, st, bs, pd
    <3>. QED  BY <3>1, <3>2, <3>3 DEF Views
  <2> HIDE DEF st, bs, pd, v
  <2>4. v \in Views /\ v.status = st /\ v.base = bs /\ v.active = r /\ v.pending = pd
        /\ v.review = review /\ v.prepares = prepares
    BY <1>1, <2>1, <2>2, <2>3 DEF Views
  <2>. QED  BY <2>4 DEF st, bs, pd
<1>3. /\ status \in [Runs -> Statuses] /\ base \in [Runs -> Sources \cup {None}]
      /\ pending \in [Runs -> Seq(AgentEvents)]
      /\ View.status = status /\ View.base = base /\ View.pending = pending
      /\ View.review = review /\ View.prepares = prepares
  BY <1>1 DEF View, Views
<1> HIDE DEF v
<1>4. /\ v.status[r] = "running" /\ v.base[r] = start[c].source /\ v.pending[r] = <<>>
      /\ \A q \in Runs : q # r => /\ v.status[q] = status[q] /\ v.base[q] = base[q]
                                  /\ v.pending[q] = pending[q]
  BY <1>1, <1>2, <1>3
<1>. QED  BY <1>1, <1>2, <1>3, <1>4 DEF v

LEMMA JoiningStream ==
    ASSUME RunsInv, NEW c \in Starts, Registered(c)
    PROVE  LET r == start[c].run
           IN  /\ Stream(Joining(c), pending[r] \o events)
               /\ \A i \in DOMAIN pending[r] : pending[r][i].run = r
<1> DEFINE r == start[c].run
           early == pending[r]
           v == Joining(c)
           all == early \o events
<1>1. /\ r \in Runs /\ start[c].source \in Sources /\ status[r] = "unknown" /\ r \in used
      /\ events \in Seq(AgentEvents) /\ pending[r] \in Seq(AgentEvents) /\ View \in Views
      /\ Stream(View, events)
      /\ v \in Views /\ v.active = r /\ v.review = review /\ v.prepares = prepares
      /\ v.status[r] = "running" /\ v.base[r] = start[c].source /\ v.pending[r] = <<>>
      /\ \A q \in Runs : q # r => /\ v.status[q] = status[q] /\ v.base[q] = base[q]
                                  /\ v.pending[q] = pending[q]
      /\ status \in [Runs -> Statuses] /\ base \in [Runs -> Sources \cup {None}]
      /\ pending \in [Runs -> Seq(AgentEvents)]
      /\ View.status = status /\ View.base = base /\ View.pending = pending
      /\ View.review = review /\ View.prepares = prepares
  BY JoiningMeans
<1> HIDE DEF v
<1>2. \A q \in Runs : RunOrder(View, events, q)
  BY <1>1 DEF Stream
<1>3. /\ all \in Seq(AgentEvents) /\ EndsLast(all)
      /\ \A q : Ends(all, q) <=> (q = r /\ Ends(early, r)) \/ Ends(events, q)
      /\ \A q : q # r => (Of(q, all) = {} <=> Of(q, events) = {})
  <2>1. /\ \A i \in DOMAIN early : early[i].run = r
        /\ EndsLast(early) /\ (Ends(early, r) => Of(r, events) = {})
    BY <1>1, <1>2 DEF RunOrder
  <2>2. EndsLast(events)
    BY <1>1 DEF Stream
  <2>3. events \in Seq(AgentEvents) /\ early \in Seq(AgentEvents)
    BY <1>1
  <2> HIDE DEF early
  <2>. QED  BY <2>1, <2>2, <2>3, Joined
<1> HIDE DEF all
<1>4. Stream(v, all)
  <2>1. Known(v) /\ ActiveRuns(v)
    BY <1>1 DEF Stream, Known, ActiveRuns
  <2>2. Named(v)
    <3>1. /\ review # None => review.run \in Runs
          /\ \A p \in prepares : p.run \in Runs
      BY <1>1, NoneAssumption DEF Views, View, Reviews, PrepareCalls
    <3>. QED  BY <1>1, <3>1 DEF Stream, Named
  <2>3. RunOrder(v, all, r)
    <3>1. DOMAIN <<>> = {}
      OBVIOUS
    <3>2. r = run => ~Ends(events, r) /\ ~Ends(early, r)
      BY <1>1, <1>2 DEF RunOrder
    <3>3. r # run => Ends(events, r) \/ Ends(early, r)
      BY <1>1, <1>2 DEF RunOrder
    <3>4. ~Ends(<<>>, r) /\ EndsLast(<<>>)
      BY <3>1 DEF Ends, EndsLast
    <3>. QED  BY <1>1, <1>3, <3>1, <3>2, <3>3, <3>4 DEF RunOrder
  <2>4. \A q \in Runs : q # r => RunOrder(v, all, q)
    <3> SUFFICES ASSUME NEW q \in Runs, q # r
                 PROVE  RunOrder(v, all, q)
      OBVIOUS
    <3>1. RunOrder(View, events, q)
      BY <1>2
    <3>2. /\ v.pending[q] = View.pending[q] /\ v.status[q] = View.status[q]
          /\ Ends(all, q) <=> Ends(events, q)
          /\ Of(q, all) = {} <=> Of(q, events) = {}
      BY <1>1, <1>3
    <3>. QED  BY <3>1, <3>2 DEF RunOrder
  <2>. QED  BY <1>1, <1>3, <2>1, <2>2, <2>3, <2>4 DEF Stream
<1>5. \A i \in DOMAIN early : early[i].run = r
  BY <1>1, <1>2 DEF RunOrder
<1>. QED  BY <1>4, <1>5 DEF v, all

(* What the first view satisfies, and every event of the run keeps, holds after
   the reply. *)
LEMMA Registering ==
    ASSUME RunsInv, NEW c \in Starts, Registered(c), NEW K, Joining(c) \in K,
           \A u \in K : \A coming \in Seq(AgentEvents) :
             coming # <<>> /\ Head(coming).run = start[c].run /\ Stream(u, coming)
             /\ u.status[start[c].run] # "unknown"
             => HandleEvent(u, Head(coming)) \in K
    PROVE  LET r == start[c].run
           IN  /\ View' \in K /\ Stream(View', events)
               /\ status'[r] # "unknown" /\ pending'[r] = <<>>
               /\ \A q \in Runs : q # r => status'[q] = status[q] /\ pending'[q] = pending[q]
<1> DEFINE r == start[c].run
           early == pending[r]
           v == Joining(c)
           w == Replay(v, early)
<1>1. /\ r \in Runs /\ events \in Seq(AgentEvents) /\ pending[r] \in Seq(AgentEvents)
      /\ SetView(Replay(v, pending[r]))
      /\ v.status[r] = "running" /\ v.pending[r] = <<>>
      /\ \A q \in Runs : q # r => v.status[q] = status[q] /\ v.pending[q] = pending[q]
  BY JoiningMeans
<1>2. /\ Stream(v, early \o events)
      /\ \A i \in DOMAIN early : early[i].run = r
  BY JoiningStream
<1> HIDE DEF v, early
<1>3. v \in K /\ v.status[r] # "unknown" /\ early \in Seq(AgentEvents) /\ r \in Runs
      /\ events \in Seq(AgentEvents)
  BY <1>1 DEF v, early
<1>4. /\ w \in K /\ Stream(w, events) /\ w.pending = v.pending /\ w.status[r] # "unknown"
      /\ \A q \in Runs : q # r => w.status[q] = v.status[q]
  <2> HIDE DEF r
  <2>1. \A u \in K : \A coming \in Seq(AgentEvents) :
          coming # <<>> /\ Head(coming).run = r /\ Stream(u, coming) /\ u.status[r] # "unknown"
          => HandleEvent(u, Head(coming)) \in K
    BY DEF r
  <2>. QED  BY <1>2, <1>3, <2>1, ReplayStream
<1>5. View' = w
  BY <1>1, <1>4, SetViewMeans DEF Stream, early
<1> HIDE DEF w
<1>6. View'.status = status' /\ View'.pending = pending'
  BY DEF View
<1>. QED  BY <1>1, <1>4, <1>5, <1>6

LEMMA RegisteredRuns ==
    ASSUME RunsInv, NEW c \in Starts, Registered(c)
    PROVE  RunsInv'
<1> DEFINE r == start[c].run
<1>1. /\ r \in Runs /\ status[r] = "unknown"
      /\ events \in Seq(AgentEvents) /\ start' = [start EXCEPT ![c] = Off]
      /\ UNCHANGED <<doc, previews, accept, pick, used, run, last, events>>
      /\ start \in [Starts -> StartCalls] /\ pending \in [Runs -> Seq(AgentEvents)]
  BY JoiningMeans
<1>2. /\ View' \in Views /\ Stream(View', events)
      /\ status'[r] # "unknown" /\ pending'[r] = <<>>
      /\ \A q \in Runs : q # r => status'[q] = status[q] /\ pending'[q] = pending[q]
  <2> DEFINE K == Views
  <2>1. Joining(c) \in K
    BY JoiningMeans
  <2>2. \A u \in K : \A coming \in Seq(AgentEvents) :
          coming # <<>> /\ Head(coming).run = r /\ Stream(u, coming) /\ u.status[r] # "unknown"
          => HandleEvent(u, Head(coming)) \in K
    BY HandleFirst DEF Stream
  <2> HIDE DEF K
  <2>3. /\ View' \in K /\ Stream(View', events)
        /\ status'[r] # "unknown" /\ pending'[r] = <<>>
        /\ \A q \in Runs : q # r => status'[q] = status[q] /\ pending'[q] = pending[q]
    BY <2>1, <2>2, Registering
  <2>. QED  BY <2>3 DEF K
<1>3. TypeOK'
  <2>1. start' \in [Starts -> StartCalls]
    BY <1>1 DEF Off, StartCalls
  <2>3. UNCHANGED <<doc, previews, accept, pick, used, run, last, events>> /\ TypeOK
    BY <1>1 DEF RunsInv
  <2>. QED  BY <1>2, <2>1, <2>3 DEF TypeOK
<1>4. RegisteredOnce'
  <2>1. \A d \in Starts : start'[d].at = "started" => d # c /\ start'[d] = start[d]
    BY <1>1 DEF Off
  <2>2. \A d \in Starts : start[d].at = "started" => start[d].run \in Runs
    BY <1>1 DEF StartCalls
  <2>3. start[c].at = "started" /\ UNCHANGED used
    BY <1>1 DEF Registered
  <2>4. \A d \in Starts : start[d].at = "started" /\ d # c => start[d].run # r
    BY <2>3 DEF RunsInv, RegisteredOnce
  <2>5. RegisteredOnce
    BY DEF RunsInv
  <2>6. \A d \in Starts : start'[d].at = "started" => status'[start'[d].run] = "unknown"
    BY <1>2, <2>1, <2>2, <2>4, <2>5 DEF RegisteredOnce
  <2>. QED  BY <2>1, <2>3, <2>5, <2>6 DEF RegisteredOnce
<1>5. CallsNamed'
  <2>1. \A q \in Runs : status[q] # "unknown" => status'[q] # "unknown"
    BY <1>2
  <2>. QED  BY <1>1, <2>1 DEF RunsInv, CallsNamed, TypeOK, PickCalls, AcceptCalls
<1>6. UntoldSilent(View, events)'
  <2>1. \A q \in Runs : pending[q] = <<>> => pending'[q] = <<>>
    BY <1>2
  <2>2. View'.pending = pending' /\ View.pending = pending /\ events' = events
        /\ UNCHANGED <<used, run, last>>
    BY <1>1 DEF View
  <2>. QED  BY <2>1, <2>2 DEF RunsInv, UntoldSilent, Silent
<1>7. BufferFits(View, events)'
  <2> SUFFICES ASSUME NEW q \in Runs
               PROVE  Cardinality(Of(q, events)) + Len(pending'[q])
                        <= IF q = last.run THEN last.seq ELSE MaxDrafts + 1
    <3>1. View'.pending = pending' /\ events' = events /\ UNCHANGED last
      BY <1>1 DEF View
    <3>. QED  BY <3>1 DEF BufferFits
  <2>1. Cardinality(Of(q, events)) + Len(pending[q])
          <= IF q = last.run THEN last.seq ELSE MaxDrafts + 1
    BY <1>1 DEF RunsInv, BufferFits, View
  <2>2. Len(pending[q]) \in Nat /\ Len(pending'[q]) \in Nat /\ Len(pending'[q]) <= Len(pending[q])
    <3>1. Len(pending[q]) \in Nat /\ Len(<<>>) = 0
      BY <1>1
    <3>. QED  BY <1>2, <3>1
  <2>3. Cardinality(Of(q, events)) \in Nat
    <3>1. IsFiniteSet(Of(q, events))
      <4>1. Len(events) \in Nat /\ DOMAIN events = 1..Len(events)
        BY <1>1
      <4>2. IsFiniteSet(1..Len(events))
        BY <4>1, FS_Interval
      <4>3. Of(q, events) \subseteq 1..Len(events)
        BY <4>1 DEF Of
      <4>. QED  BY <4>2, <4>3, FS_Subset
    <3>. QED  BY <3>1, FS_CardinalityType
  <2>4. MaxDrafts \in Nat /\ last.seq \in Nat
    BY BoundsAssumption DEF RunsInv, TypeOK
  <2>. QED  BY <2>1, <2>2, <2>3, <2>4
<1>8. AgentInv'
  BY <1>1 DEF RunsInv, AgentInv
<1>9. Stream(View, events)'
  BY <1>1, <1>2 DEF Stream, Known, Named, ActiveRuns, RunOrder, EndsLast, Ends, Of
<1>. QED  BY <1>3, <1>4, <1>5, <1>6, <1>7, <1>8, <1>9 DEF RunsInv

LEMMA HostStartsRuns ==
    ASSUME RunsInv, NEW c \in Starts, NEW r \in Runs, HostStarts(c, r)
    PROVE  RunsInv'
<1>1. /\ run = None /\ r \notin used /\ run' = r /\ used' = used \cup {r}
      /\ UNCHANGED <<doc, status, base, active, review, pending, prepares, previews, accept, pick,
                     last, events>>
      /\ start[c].at = "sent"
      /\ start' = [start EXCEPT ![c] = [at |-> "started", source |-> start[c].source, run |-> r]]
  BY DEF HostStarts, Agent!Begin, appVars
<1>2. /\ View' = View /\ View.status = status /\ View.pending = pending
      /\ Stream(View, events) /\ TypeOK /\ AgentInv /\ RegisteredOnce
      /\ UntoldSilent(View, events) /\ BufferFits(View, events)
  BY <1>1 DEF View, RunsInv
<1>3. Silent(View, events, r) /\ status[r] = "unknown"
  BY <1>1, <1>2 DEF UntoldSilent, Stream, Known
<1>4. TypeOK'
  <2>1. start[c].source \in Sources /\ start \in [Starts -> StartCalls]
    BY <1>1, <1>2 DEF TypeOK, StartCalls
  <2>2. start' \in [Starts -> StartCalls]
    BY <1>1, <2>1 DEF StartCalls
  <2>. QED  BY <1>1, <1>2, <2>2 DEF TypeOK
<1>5. AgentInv'
  BY <1>1, <1>2, NoneAssumption DEF AgentInv
<1>6. RegisteredOnce'
  <2>1. \A d \in Starts : start'[d] = IF d = c THEN [at |-> "started", source |-> start[c].source, run |-> r]
                                      ELSE start[d]
    BY <1>1, <1>2 DEF TypeOK
  <2>2. \A d \in Starts : start'[d].at = "started" =>
          IF d = c THEN start'[d].run = r ELSE start[d].at = "started" /\ start'[d].run = start[d].run
    BY <2>1
  <2>. QED  BY <1>1, <1>2, <1>3, <2>2 DEF RegisteredOnce
<1>7. CallsNamed'
  BY <1>1 DEF RunsInv, CallsNamed
<1>8. UntoldSilent(View, events)'
  BY <1>1, <1>2, <1>3, NoneAssumption DEF UntoldSilent, Silent
<1>9. BufferFits(View, events)'
  BY <1>1, <1>2 DEF BufferFits
<1>10. Stream(View, events)'
  <2>1. \A q \in Runs : RunOrder(View, events, q)'
    <3> SUFFICES ASSUME NEW q \in Runs
                 PROVE  RunOrder(View, events, q)'
      OBVIOUS
    <3>1. RunOrder(View, events, q) /\ events' = events
      BY <1>1, <1>2 DEF Stream
    <3>2. CASE q = r
      <4>1. ~Ends(events, r) /\ ~Ends(pending[r], r)
        BY <1>2, <1>3 DEF Silent, Ends, Of
      <4>. QED  BY <1>1, <1>2, <1>3, <3>1, <3>2, <4>1 DEF RunOrder
    <3>3. CASE q # r
      BY <1>1, <1>2, <3>1, <3>3, NoneAssumption DEF RunOrder
    <3>. QED  BY <3>2, <3>3
  <2>. QED  BY <1>1, <1>2, <2>1 DEF Stream, Known, Named, ActiveRuns, EndsLast
<1>. QED  BY <1>4, <1>5, <1>6, <1>7, <1>8, <1>9, <1>10 DEF RunsInv

LEMMA HostSendsRuns ==
    ASSUME RunsInv, NEW type \in {"draft", "changed", "unchanged", "error"}, HostSends(type)
    PROVE  RunsInv'
<1> DEFINE e == [run |-> run, type |-> type]
           n == IF last.run = run THEN last.seq ELSE 0
<1>1. /\ run # None
      /\ type = "draft" => n < MaxDrafts
      /\ last' = [run |-> run, seq |-> n + 1, end |-> (type \in Terminal)]
      /\ run' = (IF type \in Terminal THEN None ELSE run)
      /\ events' = Append(events, e)
      /\ UNCHANGED <<doc, status, base, active, review, pending, prepares, previews, start, accept,
                     pick, used>>
  BY DEF HostSends, Agent!Count, Agent!Tell, appVars
<1>2. /\ View' = View /\ View.status = status /\ View.pending = pending
      /\ pending \in [Runs -> Seq(AgentEvents)]
      /\ Stream(View, events) /\ TypeOK /\ AgentInv /\ RegisteredOnce
      /\ UntoldSilent(View, events) /\ BufferFits(View, events)
      /\ run \in Runs /\ run \in used /\ events \in Seq(AgentEvents) /\ e \in AgentEvents
  BY <1>1 DEF View, Views, RunsInv, TypeOK, AgentInv, AgentEvents
<1>3. n \in Nat /\ n <= MaxDrafts /\ MaxDrafts \in Nat /\ (type \notin Terminal => n < MaxDrafts)
  <2>1. type \notin Terminal => type = "draft"
    BY DEF Terminal
  <2>. QED  BY <1>1, <1>2, <2>1, BoundsAssumption DEF AgentInv, TypeOK
<1>4. /\ e.run = run /\ e.type = type
      /\ last'.run = run /\ last'.seq = n + 1
  BY <1>1
<1> HIDE DEF e
<1>5. TypeOK'
  <2>1. last' \in [run : Runs \cup {None}, seq : Nat, end : BOOLEAN]
    BY <1>1, <1>2, <1>3
  <2>2. events' \in Seq(AgentEvents)
    BY <1>1, <1>2, AppendOne
  <2>. QED  BY <1>1, <1>2, <2>1, <2>2 DEF TypeOK
<1>6. AgentInv'
  <2>1. run' # None => type \notin Terminal
    BY <1>1
  <2> HIDE DEF n
  <2>. QED  BY <1>1, <1>2, <1>3, <1>4, <2>1 DEF AgentInv
<1>7. RegisteredOnce' /\ CallsNamed'
  BY <1>1 DEF RunsInv, RegisteredOnce, CallsNamed
<1>8. ASSUME NEW q \in Runs
      PROVE  /\ Of(q, events') = {} <=> Of(q, events) = {} /\ run # q
             /\ Ends(events', q) <=> \/ run = q /\ type \in Terminal
                                     \/ Ends(events, q)
             /\ Cardinality(Of(q, events)) \in Nat
             /\ Cardinality(Of(q, events')) = Cardinality(Of(q, events)) + (IF run = q THEN 1 ELSE 0)
  <2>0. events \in Seq(AgentEvents) /\ e \in AgentEvents
    BY <1>2
  <2>1. Of(q, Append(events, e)) = {} <=> Of(q, events) = {} /\ e.run # q
    BY <2>0, AppendOne
  <2>4. Ends(Append(events, e), q) <=> \/ e.run = q /\ e.type \in Terminal
                                       \/ Ends(events, q)
    BY <2>0, AppendOne
  <2>2. /\ Cardinality(Of(q, events)) \in Nat
        /\ Cardinality(Of(q, Append(events, e)))
             = Cardinality(Of(q, events)) + (IF e.run = q THEN 1 ELSE 0)
    BY <2>0, CountLast
  <2>3. events' = Append(events, e) /\ e.run = run /\ e.type = type
    BY <1>1, <1>4
  <2>. QED  BY <2>1, <2>2, <2>3, <2>4
<1>9. UntoldSilent(View, events)'
  BY <1>1, <1>2, <1>4, <1>8, NoneAssumption DEF UntoldSilent, Silent
<1>10. BufferFits(View, events)'
  <2> SUFFICES ASSUME NEW q \in Runs
               PROVE  Cardinality(Of(q, events')) + Len(pending[q])
                        <= IF q = run THEN n + 1 ELSE MaxDrafts + 1
    BY <1>2, <1>4 DEF BufferFits
  <2>1. Cardinality(Of(q, events)) + Len(pending[q])
          <= IF q = last.run THEN last.seq ELSE MaxDrafts + 1
    BY <1>2 DEF BufferFits
  <2>2. Len(pending[q]) \in Nat /\ last.seq \in Nat /\ last.seq <= MaxDrafts + 1
    BY <1>2 DEF AgentInv, TypeOK
  <2>3. CASE q = run /\ last.run = run
    BY <1>3, <1>8, <2>1, <2>2, <2>3
  <2>4. CASE q = run /\ last.run # run
    <3>1. Of(q, events) = {} /\ pending[q] = <<>>
      BY <1>2, <2>4 DEF UntoldSilent, Silent
    <3>2. Cardinality(Of(q, events)) = 0 /\ Len(pending[q]) = 0
      BY <3>1, FS_EmptySet
    <3>. QED  BY <1>3, <1>8, <2>4, <3>2
  <2>5. CASE q # run
    BY <1>3, <1>8, <2>1, <2>2, <2>5
  <2>. QED  BY <2>3, <2>4, <2>5
<1>11. Stream(View, events)'
  <2>1. \A q \in Runs : RunOrder(View, events, q)'
    <3> SUFFICES ASSUME NEW q \in Runs
                 PROVE  RunOrder(View, events, q)'
      OBVIOUS
    <3>1. RunOrder(View, events, q)
      BY <1>2 DEF Stream
    <3>2. CASE q = run
      BY <1>1, <1>2, <1>8, <3>1, <3>2, NoneAssumption DEF RunOrder
    <3>3. CASE q # run
      BY <1>1, <1>2, <1>8, <3>1, <3>3, NoneAssumption DEF RunOrder
    <3>. QED  BY <3>2, <3>3
  <2>2. EndsLast(events')
    <3>1. ~Ends(events, run) /\ EndsLast(events)
      BY <1>2 DEF Stream, RunOrder
    <3>. QED  BY <1>1, <1>2, <1>4, <3>1, AppendOne
  <2>. QED  BY <1>1, <1>2, <2>1, <2>2 DEF Stream, Known, Named, ActiveRuns, EndsLast
<1>. QED  BY <1>5, <1>6, <1>7, <1>9, <1>10, <1>11 DEF RunsInv

(* Calls of start that do not reach the host. *)
LEMMA StartRuns ==
    ASSUME RunsInv, NEW c \in Starts, Start(c) \/ StartIdle(c) \/ HostRefuses(c) \/ Refused(c)
    PROVE  RunsInv'
<1>1. /\ UNCHANGED <<doc, status, base, active, review, pending, prepares, previews, accept, pick,
                     used, run, last, events>>
      /\ TypeOK /\ start \in [Starts -> StartCalls]
      /\ start' \in {[start EXCEPT ![c] = [at |-> "idle"]], [start EXCEPT ![c] = Off],
                     [start EXCEPT ![c] = [at |-> "refused"]],
                     [start EXCEPT ![c] = [at |-> "sent", source |-> doc]]}
  BY DEF RunsInv, TypeOK, Start, StartIdle, HostRefuses, Refused, appVars, hostVars, agentVars
<1>2. /\ start' \in [Starts -> StartCalls]
      /\ \A d \in Starts : start'[d].at = "started" => start'[d] = start[d]
  <2>1. doc \in Sources
    BY <1>1 DEF TypeOK
  <2>2. CASE start' = [start EXCEPT ![c] = [at |-> "idle"]]
    BY <1>1, <2>2 DEF StartCalls
  <2>3. CASE start' = [start EXCEPT ![c] = Off]
    BY <1>1, <2>3 DEF StartCalls, Off
  <2>4. CASE start' = [start EXCEPT ![c] = [at |-> "refused"]]
    BY <1>1, <2>4 DEF StartCalls
  <2>5. CASE start' = [start EXCEPT ![c] = [at |-> "sent", source |-> doc]]
    BY <1>1, <2>1, <2>5 DEF StartCalls
  <2>. QED  BY <1>1, <2>2, <2>3, <2>4, <2>5
<1>3. View' = View
  BY <1>1 DEF View
<1>4. TypeOK'
  BY <1>1, <1>2, <1>3 DEF TypeOK
<1>5. RegisteredOnce' /\ CallsNamed' /\ Named(View)'
  BY <1>1, <1>2, <1>3 DEF RunsInv, RegisteredOnce, CallsNamed, Stream, Named
<1>. QED  BY <1>1, <1>4, <1>5, RunsUntouched

(* Steps of a review, of its calls and of the document. *)
LEMMA ReviewRuns ==
    ASSUME RunsInv, UNCHANGED <<status, base, active, pending, used, run, last, events, start>>,
           review' \in Reviews \cup {None}, review' # None => status[review'.run] # "unknown",
           prepares' \subseteq prepares, doc' \in Sources,
           previews' \in SUBSET [of : Sources, latest : BOOLEAN],
           accept' \in [Accepts -> AcceptCalls],
           \A a \in Accepts : accept'[a].at # "none" => status[accept'[a].run] # "unknown",
           pick' \in [Picks -> PickCalls],
           \A p \in Picks : pick'[p].at # "none" => status[pick'[p].run] # "unknown"
    PROVE  RunsInv'
<1>1. /\ status \in [Runs -> Statuses] /\ base \in [Runs -> Sources \cup {None}]
      /\ active \in Runs \cup {None} /\ pending \in [Runs -> Seq(AgentEvents)]
      /\ prepares \in SUBSET PrepareCalls
  BY DEF RunsInv, TypeOK, View, Views
<1>2. View' \in Views
  BY <1>1 DEF View, Views
<1>3. TypeOK'
  BY <1>2 DEF RunsInv, TypeOK
<1>4. RegisteredOnce' /\ CallsNamed'
  BY DEF RunsInv, RegisteredOnce, CallsNamed
<1>5. Named(View)'
  <2>1. Named(View)
    BY DEF RunsInv, Stream
  <2>. QED  BY <2>1 DEF Named, View
<1>. QED  BY <1>3, <1>4, <1>5, RunsUntouched

(* What the run of a call, or of a review, was started from is known. *)
LEMMA BaseKnown ==
    ASSUME RunsInv
    PROVE  /\ \A r \in Runs : status[r] # "unknown" => base[r] \in Sources
           /\ review # None => review \in Reviews /\ review.run \in Runs
                               /\ status[review.run] # "unknown"
           /\ \A p \in prepares : p.run \in Runs /\ status[p.run] # "unknown"
           /\ \A p \in Picks : pick[p].at # "none" =>
                /\ pick[p].run \in Runs /\ status[pick[p].run] # "unknown"
                /\ pick[p].irs \in Irs /\ pick[p].keys \in SUBSET Changes
           /\ \A a \in Accepts : accept[a].at # "none" =>
                accept[a].run \in Runs /\ status[accept[a].run] # "unknown"
           /\ review \in Reviews \cup {None} /\ doc \in Sources
           /\ previews \in SUBSET [of : Sources, latest : BOOLEAN]
           /\ accept \in [Accepts -> AcceptCalls] /\ pick \in [Picks -> PickCalls]
<1>1. TypeOK /\ Known(View) /\ Named(View) /\ CallsNamed
  BY DEF RunsInv, Stream
<1>2. review \in Reviews \cup {None} /\ prepares \in SUBSET PrepareCalls
  BY <1>1 DEF TypeOK, View, Views
<1>3. /\ \A r \in Runs : status[r] # "unknown" => base[r] \in Sources
      /\ review # None => status[review.run] # "unknown"
      /\ \A p \in prepares : status[p.run] # "unknown"
  BY <1>1 DEF Known, Named, View
<1>4. \A p \in Picks : pick[p].at # "none" =>
        /\ pick[p].run \in Runs /\ status[pick[p].run] # "unknown"
        /\ pick[p].irs \in Irs /\ pick[p].keys \in SUBSET Changes
  BY <1>1 DEF TypeOK, PickCalls, CallsNamed
<1>5. \A a \in Accepts : accept[a].at # "none" =>
        accept[a].run \in Runs /\ status[accept[a].run] # "unknown"
  BY <1>1 DEF TypeOK, AcceptCalls, CallsNamed
<1>6. /\ doc \in Sources /\ previews \in SUBSET [of : Sources, latest : BOOLEAN]
      /\ accept \in [Accepts -> AcceptCalls] /\ pick \in [Picks -> PickCalls]
  BY <1>1 DEF TypeOK
<1>. QED  BY <1>2, <1>3, <1>4, <1>5, <1>6 DEF Reviews, PrepareCalls

LEMMA EvaluateType ==
    ASSUME NEW rv \in Reviews, NEW ir \in Sources, EvaluatePreview(rv, ir),
           previews \in SUBSET [of : Sources, latest : BOOLEAN]
    PROVE  /\ review' \in Reviews /\ review'.run = rv.run /\ review'.status = rv.status
           /\ review'.irs = rv.irs /\ review'.accepted = rv.accepted
           /\ review'.variant = rv.variant /\ review'.error = rv.error
           /\ review'.resolution = rv.resolution /\ review'.preview.status = "evaluating"
           /\ previews' \in SUBSET [of : Sources, latest : BOOLEAN]
           /\ \A p \in previews' : p.latest => p.of = ir
<1>1. /\ review' = [rv EXCEPT !.preview.status = "evaluating"]
      /\ previews' = {[p EXCEPT !.latest = FALSE] : p \in previews}
                     \cup {[of |-> ir, latest |-> TRUE]}
  BY DEF EvaluatePreview
<1>2. rv.preview \in [status : {"idle", "evaluating", "ready", "error"}, of : Sources \cup {None}]
  BY DEF Reviews
<1>3. [rv.preview EXCEPT !.status = "evaluating"]
        \in [status : {"idle", "evaluating", "ready", "error"}, of : Sources \cup {None}]
      /\ [rv.preview EXCEPT !.status = "evaluating"].status = "evaluating"
  BY <1>2
<1>4. \A p \in previews : LET q == [p EXCEPT !.latest = FALSE]
                          IN  q \in [of : Sources, latest : BOOLEAN] /\ q.latest = FALSE
  OBVIOUS
<1>5. \A q \in previews' : /\ q \in [of : Sources, latest : BOOLEAN]
                           /\ q.latest => q.of = ir
  <2> SUFFICES ASSUME NEW q \in previews'
               PROVE  /\ q \in [of : Sources, latest : BOOLEAN]
                      /\ q.latest => q.of = ir
    OBVIOUS
  <2>1. CASE q = [of |-> ir, latest |-> TRUE]
    BY <2>1
  <2>2. CASE \E p \in previews : q = [p EXCEPT !.latest = FALSE]
    BY <1>4, <2>2
  <2>. QED  BY <1>1, <2>1, <2>2
<1>. QED  BY <1>1, <1>3, <1>5 DEF Reviews

LEMMA PrepareRuns ==
    ASSUME RunsInv, NEW p \in prepares,
           PrepareFails(p) \/ \E irs \in Irs : PrepareDone(p, irs)
    PROVE  RunsInv'
<1>1. /\ p.run \in Runs /\ status[p.run] # "unknown" /\ base[p.run] \in Sources
      /\ review \in Reviews \cup {None} /\ (review # None => status[review.run] # "unknown")
  BY BaseKnown
<1>2. /\ UNCHANGED <<doc, status, base, active, pending, start, accept, pick, used, run, last, events>>
      /\ prepares' \subseteq prepares
  BY DEF PrepareFails, PrepareDone, hostVars, agentVars
<1> DEFINE Fits ==
             /\ review' \in Reviews \cup {None} /\ (review' # None => status[review'.run] # "unknown")
             /\ previews' \in SUBSET [of : Sources, latest : BOOLEAN]
<1>3. Fits
  <2>1. CASE PrepareFails(p)
    <3>1. FreshReview(base[p.run], p.run, "error") \in Reviews
          /\ FreshReview(base[p.run], p.run, "error").run = p.run
      BY <1>1, FreshType DEF FreshReview
    <3>2. previews' = previews
      BY <2>1 DEF PrepareFails
    <3>. QED  BY <1>1, <2>1, <3>1, <3>2, BaseKnown DEF PrepareFails, Reviews
  <2>2. ASSUME NEW irs \in Irs, PrepareDone(p, irs)
        PROVE  Fits
    <3> DEFINE fresh == FreshReview(base[p.run], p.run, "ready")
               rv == [fresh EXCEPT !.irs = irs, !.accepted = ChangesOf(irs), !.error = (irs = "none")]
    <3>1. fresh \in Reviews /\ fresh.run = p.run
      BY <1>1, FreshType DEF FreshReview
    <3>2. rv \in Reviews /\ rv.run = p.run /\ rv.variant \in Sources
      <4>1. ChangesOf(irs) \in SUBSET Changes
        BY DEF ChangesOf
      <4> HIDE DEF fresh
      <4>. QED  BY <3>1, <4>1 DEF Reviews
    <3>3. CASE ~p.latest
      BY <1>1, <2>2, <3>3, BaseKnown DEF PrepareDone
    <3>4. CASE p.latest /\ irs # "none"
      <4>1. EvaluatePreview(rv, rv.variant)
        BY <2>2, <3>4 DEF PrepareDone
      <4> HIDE DEF rv
      <4>. QED  BY <1>1, <3>2, <4>1, EvaluateType, BaseKnown
    <3>5. CASE p.latest /\ irs = "none"
      <4>1. review' = rv /\ previews' = previews
        BY <2>2, <3>5 DEF PrepareDone
      <4> HIDE DEF rv
      <4>. QED  BY <1>1, <3>2, <4>1, BaseKnown
    <3>. QED  BY <3>3, <3>4, <3>5
  <2>. QED  BY <2>1, <2>2
<1>. QED  BY <1>2, <1>3, BaseKnown, ReviewRuns

LEMMA WithType ==
    ASSUME NEW b \in Sources, NEW r \in Runs, NEW K \in SUBSET Changes
    PROVE  With(b, r, K) \in Sources
BY DEF With, Sources

LEMMA VariantType ==
    ASSUME NEW r \in Runs, base[r] \in Sources, NEW irs \in Irs, NEW K \in SUBSET Changes
    PROVE  Variant(r, irs, K) \in Sources
BY WithType DEF Variant

LEMMA PreviewRuns ==
    ASSUME RunsInv, NEW p \in previews, NEW st \in {"ready", "error"}, PreviewDone(p, st)
    PROVE  RunsInv'
<1>1. /\ UNCHANGED <<doc, status, base, active, pending, prepares, start, accept, pick, used, run,
                     last, events>>
      /\ previews' \subseteq previews
      /\ review' = IF p.latest /\ review # None
                   THEN [review EXCEPT !.preview = Shown(p, st)] ELSE review
  BY DEF PreviewDone, hostVars, agentVars
<1>2. Shown(p, st) \in [status : {"idle", "evaluating", "ready", "error"}, of : Sources \cup {None}]
  BY BaseKnown DEF Shown
<1>3. review # None => /\ [review EXCEPT !.preview = Shown(p, st)] \in Reviews
                       /\ [review EXCEPT !.preview = Shown(p, st)].run = review.run
  BY <1>2, BaseKnown DEF Reviews
<1>4. review' \in Reviews \cup {None} /\ (review' # None => status[review'.run] # "unknown")
  BY <1>1, <1>3, BaseKnown
<1>. QED  BY <1>1, <1>4, BaseKnown, ReviewRuns

LEMMA PickRuns ==
    ASSUME RunsInv, NEW p \in Picks,
           PickDone(p) \/ PickFails(p) \/ \E K \in SUBSET Changes : Pick(p, K)
    PROVE  RunsInv'
<1>1. /\ UNCHANGED <<doc, status, base, active, pending, prepares, start, accept, used, run, last, events>>
  BY DEF PickDone, PickFails, Pick, hostVars, agentVars
<1> DEFINE Fits == /\ review' \in Reviews \cup {None} /\ (review' # None => status[review'.run] # "unknown")
                   /\ previews' \in SUBSET [of : Sources, latest : BOOLEAN]
                   /\ pick' \in [Picks -> PickCalls]
                   /\ \A q \in Picks : pick'[q].at # "none" => status[pick'[q].run] # "unknown"
<1>2. ASSUME NEW K \in SUBSET Changes, Pick(p, K)
      PROVE  Fits
  <2> DEFINE call == [at |-> "merge", run |-> review.run, irs |-> review.irs, keys |-> K]
  <2>1. /\ review # None /\ review' = [review EXCEPT !.accepted = K] /\ previews' = previews
        /\ pick' = [pick EXCEPT ![p] = call]
    BY <1>2 DEF Pick, ReadyReview, Unresolved
  <2>2. call \in PickCalls /\ status[call.run] # "unknown"
    BY <2>1, BaseKnown DEF Reviews, PickCalls
  <2>3. review' \in Reviews /\ review'.run = review.run
    BY <2>1, BaseKnown DEF Reviews
  <2> HIDE DEF call
  <2>. QED  BY <2>1, <2>2, <2>3, BaseKnown
<1>3. Off \in PickCalls /\ Off.at = "none"
  BY DEF Off, PickCalls
<1>4. ASSUME PickFails(p)
      PROVE  Fits
  <2>1. /\ previews' = previews /\ pick' = [pick EXCEPT ![p] = Off]
        /\ review' = IF review = None THEN review ELSE [review EXCEPT !.error = TRUE]
    BY <1>4 DEF PickFails
  <2>2. review # None => /\ [review EXCEPT !.error = TRUE] \in Reviews
                         /\ [review EXCEPT !.error = TRUE].run = review.run
    BY BaseKnown DEF Reviews
  <2>. QED  BY <1>3, <2>1, <2>2, BaseKnown
<1>5. ASSUME PickDone(p)
      PROVE  Fits
  <2> DEFINE v == Variant(pick[p].run, pick[p].irs, pick[p].keys)
             rv == [review EXCEPT !.variant = v, !.error = FALSE]
  <2>1. /\ pick[p].at = "merge" /\ pick' = [pick EXCEPT ![p] = Off]
        /\ IF ~PickIsCurrent(p) THEN UNCHANGED <<review, previews>>
           ELSE IF pick[p].irs # "none" THEN EvaluatePreview(rv, v)
           ELSE review' = rv /\ UNCHANGED previews
    BY <1>5 DEF PickDone
  <2>2. v \in Sources
    BY <2>1, BaseKnown, VariantType
  <2> HIDE DEF v
  <2>3. review # None => rv \in Reviews /\ rv.run = review.run
    BY <2>2, BaseKnown DEF Reviews
  <2>4. PickIsCurrent(p) => review # None
    BY DEF PickIsCurrent
  <2> HIDE DEF rv
  <2>5. review' \in Reviews \cup {None} /\ (review' # None => status[review'.run] # "unknown")
        /\ previews' \in SUBSET [of : Sources, latest : BOOLEAN]
    <3>1. CASE ~PickIsCurrent(p)
      BY <2>1, <3>1, BaseKnown
    <3>2. CASE PickIsCurrent(p) /\ pick[p].irs # "none"
      BY <2>1, <2>2, <2>3, <2>4, <3>2, BaseKnown, EvaluateType
    <3>3. CASE PickIsCurrent(p) /\ pick[p].irs = "none"
      BY <2>1, <2>3, <2>4, <3>3, BaseKnown
    <3>. QED  BY <3>1, <3>2, <3>3
  <2>. QED  BY <1>3, <2>1, <2>5, BaseKnown
<1>6. Fits
  BY <1>2, <1>4, <1>5
<1>. QED  BY <1>1, <1>6, BaseKnown, ReviewRuns

(* An edit leaves the accepts where they are. *)
LEMMA EditedType ==
    ASSUME accept \in [Accepts -> AcceptCalls]
    PROVE  /\ Edited \in [Accepts -> AcceptCalls]
           /\ \A a \in Accepts :
                /\ a \notin Compiling => Edited[a] = accept[a]
                /\ Edited[a].at = accept[a].at
                /\ accept[a].at # "none" => Edited[a].run = accept[a].run
                /\ accept[a].at = "compile" =>
                     /\ Edited[a].edited /\ Edited[a].source = accept[a].source
                     /\ Edited[a].seen = accept[a].seen /\ Edited[a].partial = accept[a].partial
<1> SUFFICES ASSUME NEW a \in Accepts
             PROVE  /\ Edited[a] \in AcceptCalls
                    /\ a \notin Compiling => Edited[a] = accept[a]
                    /\ Edited[a].at = accept[a].at
                    /\ accept[a].at # "none" => Edited[a].run = accept[a].run
                    /\ accept[a].at = "compile" =>
                         /\ Edited[a].edited /\ Edited[a].source = accept[a].source
                         /\ Edited[a].seen = accept[a].seen /\ Edited[a].partial = accept[a].partial
  BY DEF Edited
<1>1. accept[a] \in AcceptCalls
  OBVIOUS
<1>2. CASE a \in Compiling
  <2>1. Edited[a] = [accept[a] EXCEPT !.edited = TRUE] /\ accept[a].at = "compile"
    BY <1>2 DEF Edited, Compiling
  <2>. QED  BY <1>1, <1>2, <2>1 DEF AcceptCalls
<1>3. CASE a \notin Compiling
  <2>1. Edited[a] = accept[a] /\ accept[a].at # "compile"
    BY <1>3 DEF Edited, Compiling
  <2>. QED  BY <1>1, <2>1
<1>. QED  BY <1>2, <1>3

LEMMA AcceptRuns ==
    ASSUME RunsInv, NEW a \in Accepts,
           \/ AcceptIdle(a) \/ AcceptMerged(a) \/ AcceptDone(a) \/ AcceptFails(a)
           \/ \E K \in SUBSET Changes : Accept(a, K)
    PROVE  RunsInv'
<1>1. UNCHANGED <<status, base, active, pending, prepares, previews, start, pick, used, run, last, events>>
  BY DEF AcceptIdle, AcceptMerged, AcceptDone, AcceptFails, Accept, appVars, hostVars, agentVars
<1>2. /\ doc' \in Sources
      /\ review' \in Reviews \cup {None} /\ (review' # None => status[review'.run] # "unknown")
  <2>1. CASE AcceptDone(a)
    <3> DEFINE how == IF accept[a].partial THEN "partial" ELSE "accepted"
    <3>1. /\ accept[a].at = "compile" /\ doc' = accept[a].source
          /\ review' = IF review = None THEN review ELSE [review EXCEPT !.resolution = how]
      BY <2>1 DEF AcceptDone
    <3>2. accept[a].source \in Sources
      BY <3>1, BaseKnown DEF AcceptCalls
    <3>3. review # None => /\ [review EXCEPT !.resolution = how] \in Reviews
                           /\ [review EXCEPT !.resolution = how].run = review.run
      BY BaseKnown DEF Reviews
    <3> HIDE DEF how
    <3>. QED  BY <3>1, <3>2, <3>3, BaseKnown
  <2>2. CASE ~AcceptDone(a)
    <3>1. UNCHANGED <<doc, review>>
      BY <2>2 DEF AcceptIdle, AcceptMerged, AcceptFails, Accept, appVars
    <3>. QED  BY <3>1, BaseKnown
  <2>. QED  BY <2>1, <2>2
<1>3. \E calls \in {accept, Edited}, call \in AcceptCalls :
        /\ accept' = [calls EXCEPT ![a] = call]
        /\ call.at # "none" => status[call.run] # "unknown"
  <2>1. Off \in AcceptCalls /\ Off.at = "none"
    BY DEF Off, AcceptCalls
  <2>2. CASE AcceptDone(a) \/ AcceptFails(a)
    BY <2>1, <2>2 DEF AcceptDone, AcceptFails
  <2>3. ASSUME NEW K \in SUBSET Changes, Accept(a, K)
        PROVE  <1>3
    <3> DEFINE call == [at |-> "idle", run |-> review.run, irs |-> review.irs, keys |-> K,
                        rejected |-> FALSE]
    <3>1. review # None /\ accept' = [accept EXCEPT ![a] = call]
      BY <2>3 DEF Accept, ReadyReview, Unresolved
    <3>2. call \in AcceptCalls /\ status[call.run] # "unknown"
      BY <3>1, BaseKnown DEF Reviews, AcceptCalls
    <3> HIDE DEF call
    <3>. QED  BY <3>1, <3>2
  <2>4. CASE AcceptMerged(a)
    <3>1. accept[a].at = "merge" /\ accept' = [accept EXCEPT ![a].at = "compile"]
          /\ accept[a] \in AcceptCalls /\ status[accept[a].run] # "unknown"
      BY <2>4, BaseKnown DEF AcceptMerged
    <3> DEFINE call == [accept[a] EXCEPT !.at = "compile"]
    <3>2. call \in AcceptCalls /\ call.run = accept[a].run
      BY <3>1 DEF AcceptCalls
    <3>3. accept' = [accept EXCEPT ![a] = call]
      BY <3>1
    <3> HIDE DEF call
    <3>. QED  BY <3>1, <3>2, <3>3
  <2>5. CASE AcceptIdle(a)
    <3> DEFINE r == accept[a].run
               all == ChangesOf(accept[a].irs) \subseteq accept[a].keys
               same == doc = base[r]
               source == IF same THEN Variant(r, accept[a].irs, accept[a].keys)
                         ELSE With(doc, r, accept[a].keys)
               call == [at |-> IF same /\ all THEN "compile" ELSE "merge",
                        run |-> r, partial |-> ~all, seen |-> doc,
                        edited |-> FALSE, rejected |-> accept[a].rejected, source |-> source]
    <3>1. accept[a].at = "idle" /\ accept' = [accept EXCEPT ![a] = call]
      BY <2>5 DEF AcceptIdle
    <3>2. accept[a] \in AcceptCalls /\ status[r] # "unknown" /\ r \in Runs /\ base[r] \in Sources
          /\ doc \in Sources
      BY <3>1, BaseKnown
    <3>3. accept[a].irs \in Irs /\ accept[a].keys \in SUBSET Changes /\ accept[a].rejected \in BOOLEAN
      BY <3>1, <3>2 DEF AcceptCalls
    <3>4. source \in Sources
      BY <3>2, <3>3, WithType, VariantType
    <3> HIDE DEF source
    <3>5. call \in AcceptCalls /\ call.run = r
      BY <3>2, <3>3, <3>4 DEF AcceptCalls
    <3> HIDE DEF call
    <3>. QED  BY <3>1, <3>2, <3>5
  <2>. QED  BY <2>2, <2>3, <2>4, <2>5
<1>4. /\ accept' \in [Accepts -> AcceptCalls]
      /\ \A b \in Accepts : accept'[b].at # "none" => status[accept'[b].run] # "unknown"
  <2>1. PICK calls \in {accept, Edited}, call \in AcceptCalls :
          /\ accept' = [calls EXCEPT ![a] = call]
          /\ call.at # "none" => status[call.run] # "unknown"
    BY <1>3
  <2>2. /\ calls \in [Accepts -> AcceptCalls]
        /\ \A b \in Accepts : calls[b].at # "none" => status[calls[b].run] # "unknown"
    <3>1. /\ accept \in [Accepts -> AcceptCalls]
          /\ \A b \in Accepts : accept[b].at # "none" => status[accept[b].run] # "unknown"
      BY BaseKnown
    <3>. QED  BY <3>1, EditedType
  <2>. QED  BY <2>1, <2>2
<1>. QED  BY <1>1, <1>2, <1>4, BaseKnown, ReviewRuns

LEMMA UserRuns ==
    ASSUME RunsInv, Reject \/ \E e \in Edits : Edit(e)
    PROVE  RunsInv'
<1>1. UNCHANGED <<status, base, active, pending, prepares, previews, start, pick, used, run, last, events>>
  BY DEF Reject, Edit, appVars, hostVars, agentVars
<1> DEFINE Calls(calls) == /\ calls \in [Accepts -> AcceptCalls]
                           /\ \A b \in Accepts : calls[b].at # "none" => status[calls[b].run] # "unknown"
<1>2. /\ doc' \in Sources
      /\ review' \in Reviews \cup {None} /\ (review' # None => status[review'.run] # "unknown")
  <2>1. CASE Reject
    <3>1. review # None /\ review' = [review EXCEPT !.resolution = "rejected"] /\ doc' = doc
      BY <2>1 DEF Reject, ReadyReview, Unresolved
    <3>2. review' \in Reviews /\ review'.run = review.run
      BY <3>1, BaseKnown DEF Reviews
    <3>. QED  BY <3>1, <3>2, BaseKnown
  <2>2. CASE \E e \in Edits : Edit(e)
    <3>1. review' = review
      BY <2>2 DEF Edit, appVars
    <3>2. doc' \in Sources
      BY <2>2, BaseKnown DEF Edit, Sources
    <3>. QED  BY <3>1, <3>2, BaseKnown
  <2>. QED  BY <2>1, <2>2
<1>3. Calls(accept)
  BY BaseKnown
<1>4. Calls(accept')
  <2>1. CASE Reject
    <3> DEFINE Left(b) == [accept[b] EXCEPT !.rejected = TRUE]
    <3>1. \A b \in Accepting : Left(b) \in AcceptCalls /\ Left(b).at = accept[b].at
                               /\ Left(b).run = accept[b].run
      <4> SUFFICES ASSUME NEW b \in Accepting
                   PROVE  Left(b) \in AcceptCalls /\ Left(b).at = accept[b].at /\ Left(b).run = accept[b].run
        OBVIOUS
      <4>1. accept[b] \in AcceptCalls /\ accept[b].at # "none"
        BY <1>3 DEF Accepting
      <4>2. CASE accept[b].at = "idle"
        BY <4>1, <4>2 DEF AcceptCalls
      <4>3. CASE accept[b].at # "idle"
        BY <4>1, <4>3 DEF AcceptCalls
      <4>. QED  BY <4>2, <4>3
    <3>2. accept' = [b \in Accepts |-> IF b \in Accepting THEN Left(b) ELSE accept[b]]
      BY <2>1 DEF Reject
    <3> HIDE DEF Left
    <3>. QED  BY <1>3, <3>1, <3>2
  <2>2. CASE \E e \in Edits : Edit(e)
    BY <1>3, <2>2, EditedType DEF Edit
  <2>. QED  BY <2>1, <2>2
<1>. QED  BY <1>1, <1>2, <1>4, BaseKnown, ReviewRuns

LEMMA StutterRuns ==
    ASSUME RunsInv, UNCHANGED vars
    PROVE  RunsInv'
<1>1. UNCHANGED <<doc, status, base, active, review, pending, prepares, previews, start, accept,
                  pick, used, run, last, events>>
  BY DEF vars, appVars, hostVars, agentVars
<1>2. prepares' \subseteq prepares
  BY <1>1
<1>. QED  BY <1>1, <1>2, BaseKnown, ReviewRuns

LEMMA NextRuns ==
    ASSUME RunsInv, [Next]_vars
    PROVE  RunsInv'
<1>1. ASSUME NEW c \in Starts, StartStep(c)
      PROVE  RunsInv'
  BY <1>1, StartRuns, HostStartsRuns, RegisteredRuns DEF StartStep
<1>2. ASSUME NEW type \in {"draft", "changed", "unchanged", "error"}, HostSends(type)
      PROVE  RunsInv'
  BY <1>2, HostSendsRuns
<1>3. CASE Deliver
  BY <1>3, DeliverRuns
<1>4. ASSUME NEW p \in prepares, PrepareStep(p)
      PROVE  RunsInv'
  BY <1>4, PrepareRuns DEF PrepareStep
<1>5. ASSUME NEW p \in previews, PreviewStep(p)
      PROVE  RunsInv'
  BY <1>5, PreviewRuns DEF PreviewStep
<1>6. ASSUME NEW p \in Picks, PickStep(p)
      PROVE  RunsInv'
  BY <1>6, PickRuns DEF PickStep
<1>7. ASSUME NEW a \in Accepts, AcceptStep(a)
      PROVE  RunsInv'
  BY <1>7, AcceptRuns DEF AcceptStep
<1>8. CASE UserStep
  BY <1>8, PickRuns, AcceptRuns, UserRuns DEF UserStep
<1>9. CASE UNCHANGED vars
  BY <1>9, StutterRuns
<1>. QED  BY <1>1, <1>2, <1>3, <1>4, <1>5, <1>6, <1>7, <1>8, <1>9 DEF Next

(* The runs, the streams of their events and what the app holds of them fit,
   whatever the number of runs, of calls and of early events. *)
THEOREM RunsInvariant == Spec => []RunsInv
BY InitRuns, NextRuns, PTL DEF Spec

(* A run the app shows as working is being run, or its end is on the way: the
   app never waits for a run that is over. *)
THEOREM ActiveRunAlive == Spec => []ActiveRunIsAlive
<1>1. RunsInv => ActiveRunIsAlive
  <2> SUFFICES ASSUME RunsInv, active # None, run # active
               PROVE  EndOf(active)
    BY DEF ActiveRunIsAlive
  <2>1. Stream(View, events) /\ View.status = status /\ View.pending = pending
        /\ View.active = active /\ active \in Runs
    BY DEF RunsInv, Stream, View, Views
  <2>2. status[active] = "running" /\ active \in used
    BY <2>1 DEF Stream, ActiveRuns, Known
  <2>3. pending[active] = <<>>
    BY <2>1, <2>2 DEF Stream, RunOrder
  <2>4. Ends(events, active) \/ Ends(pending[active], active)
    BY <2>1, <2>2 DEF Stream, RunOrder
  <2>5. DOMAIN <<>> = {}
    OBVIOUS
  <2>. QED  BY <2>3, <2>4, <2>5 DEF Ends, EndOf
<1>. QED  BY <1>1, RunsInvariant, PTL

-----------------------------------------------------------------------------
(* Reviews: what an event leaves of them. *)

(* From v to w a review is replaced by one that is not ready, and nothing is
   prepared anew that was prepared before. *)
ReviewMoves(v, w) ==
    /\ w.review \in {None, v.review} \/ w.review.status \in {"draft", "preparing"}
    /\ \A r \in Runs : Prepared(v, r) => Prepared(w, r)
    /\ \A r \in Runs : v.status[r] # "unknown" => w.status[r] # "unknown" /\ w.base[r] = v.base[r]

LEMMA HandleReview ==
    ASSUME NEW v, NEW evs \in Seq(AgentEvents), evs # <<>>, Stream(v, evs), PreparesOnce(v)
    PROVE  LET w == HandleEvent(v, Head(evs))
           IN  PreparesOnce(w) /\ ReviewMoves(v, w)
<1> DEFINE e == Head(evs)
           w == HandleEvent(v, e)
           u == Reduce(v, e)
<1>1. /\ e \in AgentEvents /\ e.run \in Runs /\ v \in Views /\ Known(v)
      /\ e.type \in {"draft", "changed", "unchanged", "error"}
      /\ v.status \in [Runs -> Statuses] /\ v.prepares \subseteq PrepareCalls
      /\ v.review \in Reviews \cup {None}
      /\ \A p \in v.prepares : p.run \in Runs
      /\ v.review # None => v.review.run \in Runs
  BY TakeFirst DEF Stream, AgentEvents, Views, PrepareCalls, Reviews
<1>2. v.status[e.run] \in {"unknown", "running"}
  <2>1. RunOrder(v, evs, e.run) /\ Of(e.run, evs) # {}
    BY <1>1, TakeFirst DEF Stream
  <2>. QED  BY <1>1, <2>1 DEF RunOrder, Statuses
<1> HIDE DEF e
<1>3. CASE v.status[e.run] = "unknown"
  <2>1. w = v \/ w = [v EXCEPT !.pending[e.run] = Append(v.pending[e.run], e)]
    BY <1>3 DEF HandleEvent
  <2>2. Append(v.pending[e.run], e) \in Seq(AgentEvents)
    BY <1>1 DEF Views
  <2> DEFINE early == Append(v.pending[e.run], e)
  <2> HIDE DEF w, early
  <2>3. /\ w.status = v.status /\ w.base = v.base /\ w.review = v.review
        /\ w.prepares = v.prepares
    <3>1. CASE w = v
      BY <3>1
    <3>2. CASE w = [v EXCEPT !.pending[e.run] = early]
      <4>1. early \in Seq(AgentEvents) /\ e.run \in Runs /\ v \in Views
        BY <1>1, <2>2 DEF early
      <4>. QED  BY <3>2, <4>1, PendingKept
    <3>. QED  BY <2>1, <3>1, <3>2 DEF early
  <2>. QED  BY <2>3 DEF PreparesOnce, ReviewMoves, Prepared, e, w
<1>4. CASE v.status[e.run] = "running"
  <2>1. /\ w = Follow(u, e) /\ u \in Views /\ u.base = v.base /\ u.review = v.review
        /\ u.prepares = v.prepares
        /\ \A r \in Runs : r # e.run => u.status[r] = v.status[r]
        /\ IF e.type \in Terminal
           THEN u.status[e.run] \in {"done", "failed"} /\ (u.status[e.run] = "done" <=> e.type # "error")
           ELSE u = v
    BY <1>1, <1>4, ReduceKeeps DEF HandleEvent
  <2>2. /\ w.status = u.status /\ w.base = u.base
    <3>1. v.base[e.run] \in Sources
      BY <1>1, <1>4 DEF Known
    <3> HIDE DEF u, w
    <3>. QED  BY <1>1, <2>1, <3>1, FollowKeeps
  <2> HIDE DEF u, w
  <2>3. /\ \A p \in v.prepares : p.run # e.run
        /\ v.review # None /\ v.review.status \in {"ready", "error"} => v.review.run # e.run
        /\ w.status[e.run] # "unknown"
        /\ \A r \in Runs : v.status[r] # "unknown" => w.status[r] # "unknown"
        /\ \A r \in Runs : v.status[r] = "done" => r # e.run /\ w.status[r] = "done"
    <3>1. w.status[e.run] # "unknown"
      BY <1>4, <2>1, <2>2
    <3>. QED  BY <1>1, <1>4, <2>1, <2>2, <3>1 DEF PreparesOnce, Prepared
  <2>4. CASE e.type = "changed"
    <3> DEFINE outdated == {[p EXCEPT !.latest = FALSE] : p \in v.prepares}
               new == [run |-> e.run, latest |-> TRUE]
    <3>1. /\ w.review = FreshReview(v.base[e.run], e.run, "preparing")
          /\ w.prepares = outdated \cup {new}
      BY <1>1, <2>1, <2>4 DEF Follow, Prepare, Views
    <3>2. w.review.run = e.run /\ w.review.status = "preparing"
      BY <3>1 DEF FreshReview
    <3>3. \A q \in outdated : \E p \in v.prepares : q.run = p.run /\ q = [p EXCEPT !.latest = FALSE]
      BY <1>1 DEF PrepareCalls
    <3> HIDE DEF outdated
    <3>4. w.status[e.run] = "done"
      BY <2>1, <2>2, <2>4 DEF Terminal
    <3>5. \A q \in w.prepares : q = new \/ \E p \in v.prepares : q.run = p.run /\ q = [p EXCEPT !.latest = FALSE]
      BY <3>1, <3>3
    <3>6. new.run = e.run
      OBVIOUS
    <3> HIDE DEF new
    <3>7. \A q \in w.prepares : w.status[q.run] = "done"
      BY <1>1, <2>3, <3>4, <3>5, <3>6 DEF PreparesOnce
    <3>8. \A p, q \in w.prepares : p.run = q.run => p = q
      <4> SUFFICES ASSUME NEW p \in w.prepares, NEW q \in w.prepares, p.run = q.run
                   PROVE  p = q
        OBVIOUS
      <4>1. CASE p = new \/ q = new
        BY <2>3, <3>5, <3>6, <4>1
      <4>2. CASE p # new /\ q # new
        <5>1. PICK p0 \in v.prepares : p.run = p0.run /\ p = [p0 EXCEPT !.latest = FALSE]
          BY <3>5, <4>2
        <5>2. PICK q0 \in v.prepares : q.run = q0.run /\ q = [q0 EXCEPT !.latest = FALSE]
          BY <3>5, <4>2
        <5>3. p0 = q0
          BY <5>1, <5>2 DEF PreparesOnce
        <5>. QED  BY <5>1, <5>2, <5>3
      <4>. QED  BY <4>1, <4>2
    <3>9. \A r \in Runs : Prepared(v, r) => Prepared(w, r)
      BY <2>3, <3>5, <3>6 DEF Prepared
    <3>10. \A r \in Runs : v.status[r] # "unknown" => w.status[r] # "unknown" /\ w.base[r] = v.base[r]
      BY <2>1, <2>2, <2>3
    <3>11. PreparesOnce(w)
      BY <2>3, <3>2, <3>7, <3>8 DEF PreparesOnce
    <3>12. ReviewMoves(v, w)
      BY <3>2, <3>9, <3>10 DEF ReviewMoves
    <3>. QED  BY <3>11, <3>12 DEF w, e
  <2>5. CASE e.type # "changed"
    <3>1. /\ w.prepares = v.prepares
          /\ \/ w.review \in {None, v.review}
             \/ w.review.status = "draft" /\ w.review.run = e.run
      <4>1. CASE e.type = "draft"
        <5>1. w = OnDraft(u, e.run)
          BY <2>1, <4>1 DEF Follow
        <5>2. FreshReview(u.base[e.run], e.run, "draft").status = "draft"
              /\ FreshReview(u.base[e.run], e.run, "draft").run = e.run
          BY DEF FreshReview
        <5>. QED  BY <2>1, <5>1, <5>2 DEF OnDraft, Views
      <4>2. CASE e.type # "draft"
        <5>1. w = DropDraft(u, e.run)
          BY <1>1, <2>1, <2>5, <4>2 DEF Follow
        <5>. QED  BY <2>1, <5>1 DEF DropDraft, Views
      <4>. QED  BY <4>1, <4>2
    <3>2. \A r \in Runs : Prepared(v, r) => Prepared(w, r)
      BY <2>3, <3>1 DEF Prepared
    <3>3. \A r \in Runs : v.status[r] # "unknown" => w.status[r] # "unknown" /\ w.base[r] = v.base[r]
      BY <2>1, <2>2, <2>3
    <3>4. PreparesOnce(w)
      <4>1. \A p \in w.prepares : w.status[p.run] = "done"
        BY <1>1, <2>3, <3>1 DEF PreparesOnce
      <4>2. \A p, q \in w.prepares : p.run = q.run => p = q
        BY <3>1 DEF PreparesOnce
      <4>3. w.review # None => /\ w.status[w.review.run] # "unknown"
                               /\ w.review.status \in {"ready", "error"} => Prepared(w, w.review.run)
        BY <1>1, <2>3, <3>1, <3>2 DEF PreparesOnce
      <4>. QED  BY <4>1, <4>2, <4>3 DEF PreparesOnce
    <3>5. ReviewMoves(v, w)
      BY <3>1, <3>2, <3>3 DEF ReviewMoves
    <3>. QED  BY <3>4, <3>5 DEF w, e
  <2>. QED  BY <2>4, <2>5
<1>. QED  BY <1>2, <1>3, <1>4

(* Steps that leave the reviews, their ticks and previews as they are. *)
LEMMA ReviewStays ==
    ASSUME ReviewInv, RunsInv', UNCHANGED <<status, base, previews, pick>>,
           prepares' \subseteq prepares,
           review = None => review' = None,
           review # None =>
             /\ review'.run = review.run /\ review'.status = review.status
             /\ review'.irs = review.irs /\ review'.accepted = review.accepted
             /\ review'.variant = review.variant /\ review'.error = review.error
             /\ review'.preview = review.preview
    PROVE  ReviewInv'
<1>1. PreparesOnce(View)'
  BY DEF ReviewInv, PreparesOnce, Prepared, View
<1>2. PicksFit'
  BY DEF ReviewInv, PicksFit, Prepared, View
<1>3. PreviewFits'
  BY DEF ReviewInv, PreviewFits
<1>4. VariantMatchesTicks'
  BY DEF ReviewInv, VariantMatchesTicks, PickIsCurrent, Variant
<1>. QED  BY <1>1, <1>2, <1>3, <1>4 DEF ReviewInv

LEMMA EventsReview ==
    ASSUME ReviewInv, RunsInv', UNCHANGED <<previews, pick>>,
           PreparesOnce(View'), ReviewMoves(View, View')
    PROVE  ReviewInv'
<1>1. /\ View'.review = review' /\ View'.status = status' /\ View'.base = base'
      /\ View.review = review /\ View.status = status /\ View.base = base
  BY DEF View
<1>2. /\ review' \in {None, review} \/ review'.status \in {"draft", "preparing"}
      /\ \A r \in Runs : Prepared(View, r) => Prepared(View', r)
      /\ \A r \in Runs : status[r] # "unknown" => base'[r] = base[r]
  BY <1>1 DEF ReviewMoves
<1>3. RunsInv
  BY DEF ReviewInv
<1>4. PreparesOnce(View)'
  OBVIOUS
<1>5. PicksFit'
  <2>1. \A p \in Picks : pick[p].at = "merge" => pick[p].run \in Runs
    BY <1>3, BaseKnown
  <2>2. PicksFit
    BY DEF ReviewInv
  <2>. QED  BY <1>2, <2>1, <2>2 DEF PicksFit
<1>6. PreviewFits'
  BY <1>2 DEF ReviewInv, PreviewFits
<1>7. VariantMatchesTicks'
  <2> SUFFICES ASSUME review' # None, review'.status = "ready", ~review'.error,
                      \A p \in Picks : pick'[p].at # "none" => ~PickIsCurrent(p)'
               PROVE  review'.variant = Variant(review.run, review.irs, review.accepted)'
    BY DEF VariantMatchesTicks
  <2>1. review' = review
    BY <1>2
  <2>2. base'[review.run] = base[review.run]
    BY <1>2, <1>3, <2>1, BaseKnown
  <2>. QED  BY <2>1, <2>2 DEF ReviewInv, VariantMatchesTicks, Variant, PickIsCurrent
<1>. QED  BY <1>4, <1>5, <1>6, <1>7 DEF ReviewInv

LEMMA DeliverReview ==
    ASSUME ReviewInv, RunsInv', Deliver
    PROVE  ReviewInv'
<1> DEFINE w == HandleEvent(View, Head(events))
<1>1. /\ events \in Seq(AgentEvents) /\ events # <<>> /\ SetView(w) /\ Stream(View, events)
      /\ UNCHANGED <<previews, pick>> /\ PreparesOnce(View)
  BY DEF Deliver, ReviewInv, RunsInv, TypeOK
<1>2. PreparesOnce(w) /\ ReviewMoves(View, w)
  BY <1>1, HandleReview
<1> HIDE DEF w
<1>3. PreparesOnce(View') /\ ReviewMoves(View, View')
  BY <1>1, <1>2 DEF PreparesOnce, ReviewMoves, Prepared, View, SetView
<1>. QED  BY <1>1, <1>3, EventsReview

LEMMA RegisteredReview ==
    ASSUME ReviewInv, RunsInv', NEW c \in Starts, Registered(c)
    PROVE  ReviewInv'
<1> DEFINE r == start[c].run
           v == Joining(c)
           K == {u \in Views : PreparesOnce(u) /\ ReviewMoves(View, u)}
<1>0. RunsInv /\ PreparesOnce(View) /\ Stream(View, events)
  BY DEF ReviewInv, RunsInv
<1>1. /\ r \in Runs /\ status[r] = "unknown" /\ v \in Views
      /\ v.review = review /\ v.prepares = prepares /\ v.status[r] = "running"
      /\ \A q \in Runs : q # r => v.status[q] = status[q] /\ v.base[q] = base[q]
      /\ View.status = status /\ View.base = base
      /\ View.review = review /\ View.prepares = prepares
      /\ UNCHANGED <<previews, pick>>
  BY <1>0, JoiningMeans
<1> HIDE DEF r, v
<1>2. v \in K
  <2>1. /\ \A p \in prepares : p.run \in Runs /\ p.run # r
        /\ review # None => review.run \in Runs /\ review.run # r
    BY <1>0, <1>1, BaseKnown
  <2>2. \A q \in Runs : Prepared(View, q) => Prepared(v, q)
    BY <1>1 DEF Prepared
  <2>3. PreparesOnce(v)
    BY <1>0, <1>1, <2>1, <2>2 DEF PreparesOnce
  <2>4. ReviewMoves(View, v)
    BY <1>1, <2>2 DEF ReviewMoves
  <2>. QED  BY <1>1, <2>3, <2>4
<1>3. ASSUME NEW u \in K, NEW coming \in Seq(AgentEvents), coming # <<>>,
             Head(coming).run = r, Stream(u, coming), u.status[r] # "unknown"
      PROVE  HandleEvent(u, Head(coming)) \in K
  <2> DEFINE w == HandleEvent(u, Head(coming))
  <2>1. PreparesOnce(w) /\ ReviewMoves(u, w) /\ ReviewMoves(View, u)
    BY <1>3, HandleReview
  <2>2. w \in Views
    BY <1>3, HandleFirst DEF Stream
  <2> HIDE DEF w
  <2>3. ReviewMoves(View, w)
    BY <2>1 DEF ReviewMoves
  <2>. QED  BY <2>1, <2>2, <2>3 DEF w
<1>4. View' \in K
  <2> HIDE DEF K
  <2>. QED  BY <1>0, <1>2, <1>3, Registering DEF r, v
<1>. QED  BY <1>1, <1>4, EventsReview

LEMMA PrepareReview ==
    ASSUME ReviewInv, RunsInv', NEW p \in prepares,
           PrepareFails(p) \/ \E irs \in Irs : PrepareDone(p, irs)
    PROVE  ReviewInv'
<1>1. /\ UNCHANGED <<status, base, pick>> /\ prepares' = prepares \ {p} /\ RunsInv
      /\ PreparesOnce(View) /\ p.run \in Runs /\ base[p.run] \in Sources
      /\ View.status = status /\ View.prepares = prepares /\ View.review = review
      /\ View'.status = status /\ View'.prepares = prepares' /\ View'.review = review'
  BY BaseKnown DEF PrepareFails, PrepareDone, ReviewInv, View
<1>2. /\ \A q \in prepares' : q.run # p.run
      /\ status[p.run] = "done" /\ Prepared(View', p.run)
      /\ \A r \in Runs : Prepared(View, r) => r # p.run /\ Prepared(View', r)
  BY <1>1 DEF PreparesOnce, Prepared
<1>3. CASE UNCHANGED <<review, previews>>
  BY <1>1, <1>3, ReviewStays
<1> DEFINE fresh == FreshReview(base[p.run], p.run, "ready")
           Rv(irs) == [fresh EXCEPT !.irs = irs, !.accepted = ChangesOf(irs), !.error = (irs = "none")]
<1>4. ASSUME review'.run = p.run
      PROVE  PreparesOnce(View)' /\ PicksFit'
  <2>1. PreparesOnce(View')
    BY <1>1, <1>2, <1>4 DEF PreparesOnce
  <2>2. \A q \in Picks : pick[q].at = "merge" => pick[q].run # p.run /\ Prepared(View', pick[q].run)
    <3>1. \A q \in Picks : pick[q].at = "merge" => pick[q].run \in Runs /\ Prepared(View, pick[q].run)
      BY <1>1, BaseKnown DEF ReviewInv, PicksFit
    <3>. QED  BY <1>2, <3>1
  <2>3. PicksFit'
    BY <1>1, <1>4, <2>2 DEF PicksFit
  <2>. QED  BY <2>1, <2>3
<1>5. CASE PrepareFails(p) /\ p.latest
  <2>1. review'.run = p.run /\ review'.status = "error"
    BY <1>5 DEF PrepareFails, FreshReview
  <2>2. PreviewFits' /\ VariantMatchesTicks'
    BY <2>1 DEF PreviewFits, VariantMatchesTicks
  <2>. QED  BY <1>4, <2>1, <2>2 DEF ReviewInv
<1>6. ASSUME NEW irs \in Irs, PrepareDone(p, irs), p.latest
      PROVE  ReviewInv'
  <2> DEFINE rv == Rv(irs)
  <2>1. /\ rv \in Reviews /\ rv.run = p.run /\ rv.irs = irs /\ rv.accepted = ChangesOf(irs)
        /\ rv.variant = With(base[p.run], p.run, Changes) /\ rv.error = (irs = "none")
        /\ rv.preview.status = "idle"
    <3>1. /\ fresh \in Reviews /\ fresh.run = p.run /\ fresh.preview.status = "idle"
          /\ fresh.variant = With(base[p.run], p.run, Changes)
      BY <1>1, FreshType DEF FreshReview, NoPreview
    <3>2. ChangesOf(irs) \in SUBSET Changes
      BY DEF ChangesOf
    <3> HIDE DEF fresh
    <3>. QED  BY <3>1, <3>2 DEF Reviews
  <2>2. rv.variant \in Sources
    BY <2>1 DEF Reviews
  <2>3. IF irs # "none" THEN EvaluatePreview(rv, rv.variant) ELSE review' = rv /\ UNCHANGED previews
    BY <1>6 DEF PrepareDone
  <2> HIDE DEF rv
  <2>4. /\ review'.run = p.run /\ review'.irs = irs /\ review'.accepted = ChangesOf(irs)
        /\ review'.variant = With(base[p.run], p.run, Changes) /\ review'.preview.status # "ready"
        /\ irs # "none" => \A q \in previews' : q.latest => q.of = review'.variant
    <3>1. CASE irs # "none"
      BY <1>1, <2>1, <2>2, <2>3, <3>1, EvaluateType, BaseKnown
    <3>2. CASE irs = "none"
      BY <2>1, <2>3, <3>2
    <3>. QED  BY <3>1, <3>2
  <2>5. PreviewFits'
    BY <2>4 DEF PreviewFits
  <2>6. VariantMatchesTicks'
    BY <1>1, <2>4 DEF VariantMatchesTicks, Variant, ChangesOf
  <2>. QED  BY <1>4, <2>4, <2>5, <2>6 DEF ReviewInv
<1>7. CASE ~p.latest
  BY <1>3, <1>7 DEF PrepareFails, PrepareDone
<1>. QED  BY <1>5, <1>6, <1>7

LEMMA PreviewReview ==
    ASSUME ReviewInv, RunsInv', NEW p \in previews, NEW st \in {"ready", "error"}, PreviewDone(p, st)
    PROVE  ReviewInv'
<1>1. /\ UNCHANGED <<status, base, pick, prepares>> /\ previews' = previews \ {p}
      /\ review' = IF p.latest /\ review # None
                   THEN [review EXCEPT !.preview = Shown(p, st)] ELSE review
      /\ review \in Reviews \cup {None}
  BY BaseKnown DEF PreviewDone, ReviewInv
<1>2. /\ review = None => review' = None
      /\ review # None =>
           /\ review'.run = review.run /\ review'.status = review.status
           /\ review'.irs = review.irs /\ review'.accepted = review.accepted
           /\ review'.variant = review.variant /\ review'.error = review.error
           /\ review'.preview = IF p.latest THEN Shown(p, st) ELSE review.preview
  BY <1>1 DEF Reviews
<1>3. PreparesOnce(View)'
  BY <1>1, <1>2 DEF ReviewInv, PreparesOnce, Prepared, View
<1>4. PicksFit'
  BY <1>1, <1>2 DEF ReviewInv, PicksFit, Prepared, View
<1>5. PreviewFits'
  BY <1>1, <1>2 DEF ReviewInv, PreviewFits, Shown
<1>6. VariantMatchesTicks'
  BY <1>1, <1>2 DEF ReviewInv, VariantMatchesTicks, PickIsCurrent, Variant
<1>. QED  BY <1>3, <1>4, <1>5, <1>6 DEF ReviewInv

LEMMA PickStartsReview ==
    ASSUME ReviewInv, RunsInv', NEW p \in Picks, NEW K \in SUBSET Changes, Pick(p, K)
    PROVE  ReviewInv'
<1>1. /\ UNCHANGED <<status, base, prepares, previews>> /\ ReadyReview
      /\ review' = [review EXCEPT !.accepted = K]
      /\ pick' = [pick EXCEPT ![p] =
                    [at |-> "merge", run |-> review.run, irs |-> review.irs, keys |-> K]]
      /\ review # None /\ review \in Reviews /\ review.status \in {"ready", "error"}
      /\ pick \in [Picks -> PickCalls] /\ PreparesOnce(View)
  BY BaseKnown DEF Pick, ReviewInv, ReadyReview, Unresolved
<1>2. /\ review'.run = review.run /\ review'.status = review.status
      /\ review'.irs = review.irs /\ review'.accepted = K
      /\ review'.variant = review.variant /\ review'.preview = review.preview
  BY <1>1 DEF Reviews
<1>3. /\ pick'[p].at = "merge" /\ pick'[p].run = review.run /\ pick'[p].irs = review.irs
      /\ pick'[p].keys = K
      /\ \A q \in Picks : q # p => pick'[q] = pick[q]
  BY <1>1
<1>4. PreparesOnce(View)'
  <2>1. /\ View'.status = View.status /\ View'.prepares = View.prepares
        /\ View'.review = review' /\ View.review = review
    BY <1>1 DEF View
  <2>2. /\ View.status[review.run] # "unknown"
        /\ review.status \in {"ready", "error"} => Prepared(View, review.run)
        /\ \A q \in View.prepares : View.status[q.run] = "done"
        /\ \A q, m \in View.prepares : q.run = m.run => q = m
    BY <1>1, <2>1 DEF PreparesOnce
  <2>3. \A r : Prepared(View', r) <=> Prepared(View, r)
    BY <2>1 DEF Prepared
  <2>4. PreparesOnce(View')
    BY <1>2, <2>1, <2>2, <2>3 DEF PreparesOnce
  <2>. QED  BY <2>4 DEF PreparesOnce, Prepared, View
<1>5. PicksFit'
  <2>1. Prepared(View, review.run)
    BY <1>1 DEF PreparesOnce, View
  <2>2. \A r : Prepared(View, r) => Prepared(View', r)
    BY <1>1 DEF Prepared, View
  <2> SUFFICES ASSUME NEW q \in Picks, pick'[q].at = "merge"
               PROVE  /\ Prepared(View', pick'[q].run)
                      /\ review' # None /\ review'.run = pick'[q].run
                         /\ review'.status \in {"ready", "error"} => pick'[q].irs = review'.irs
    BY DEF PicksFit
  <2>3. CASE q = p
    BY <1>2, <1>3, <2>1, <2>2, <2>3
  <2>4. CASE q # p
    BY <1>1, <1>2, <1>3, <2>2, <2>4 DEF ReviewInv, PicksFit
  <2>. QED  BY <2>3, <2>4
<1>6. PreviewFits'
  BY <1>1, <1>2 DEF ReviewInv, PreviewFits
<1>7. VariantMatchesTicks'
  BY <1>2, <1>3 DEF VariantMatchesTicks, PickIsCurrent
<1>. QED  BY <1>4, <1>5, <1>6, <1>7 DEF ReviewInv

LEMMA PickEndsReview ==
    ASSUME ReviewInv, RunsInv', NEW p \in Picks, PickDone(p) \/ PickFails(p)
    PROVE  ReviewInv'
<1>1. /\ UNCHANGED <<status, base, prepares>> /\ pick[p].at = "merge"
      /\ pick' = [pick EXCEPT ![p] = Off] /\ PreparesOnce(View)
      /\ review \in Reviews \cup {None} /\ pick \in [Picks -> PickCalls] /\ RunsInv
      /\ pick[p].irs \in Irs /\ pick[p].keys \in SUBSET Changes /\ pick[p].run \in Runs
      /\ base[pick[p].run] \in Sources
  BY BaseKnown DEF PickDone, PickFails, ReviewInv
<1>2. /\ pick'[p].at = "none"
      /\ \A q \in Picks : pick'[q].at # "none" => q # p /\ pick'[q] = pick[q]
  BY <1>1 DEF Off
(* What both leave. *)
<1> DEFINE Same == /\ review = None => review' = None
                   /\ review # None =>
                        /\ review'.run = review.run /\ review'.status = review.status
                        /\ review'.irs = review.irs /\ review'.accepted = review.accepted
<1>3. ASSUME Same
      PROVE  PreparesOnce(View)' /\ PicksFit'
  <2>1. PreparesOnce(View)'
    BY <1>1, <1>3 DEF PreparesOnce, Prepared, View
  <2>2. PicksFit'
    BY <1>1, <1>2, <1>3 DEF ReviewInv, PicksFit, Prepared, View
  <2>. QED  BY <2>1, <2>2
<1>4. CASE PickFails(p)
  <2>1. review' = (IF review = None THEN review ELSE [review EXCEPT !.error = TRUE])
        /\ previews' = previews
    BY <1>4 DEF PickFails
  <2>2. Same /\ (review # None => /\ review'.error /\ review'.variant = review.variant
                                  /\ review'.preview = review.preview)
    BY <1>1, <2>1 DEF Reviews
  <2>3. PreviewFits'
    BY <2>1, <2>2 DEF ReviewInv, PreviewFits
  <2>4. VariantMatchesTicks'
    BY <2>2 DEF VariantMatchesTicks
  <2>. QED  BY <1>3, <2>2, <2>3, <2>4 DEF ReviewInv
<1>5. CASE PickDone(p) /\ ~PickIsCurrent(p)
  <2>1. UNCHANGED <<review, previews>>
    BY <1>5 DEF PickDone
  <2>2. Same
    BY <2>1
  <2>3. PreviewFits'
    BY <2>1 DEF ReviewInv, PreviewFits
  <2>4. VariantMatchesTicks'
    <3> SUFFICES ASSUME review' # None, review'.status = "ready", ~review'.error,
                        \A q \in Picks : pick'[q].at # "none" => ~PickIsCurrent(q)'
                 PROVE  review'.variant = Variant(review.run, review.irs, review.accepted)'
      BY DEF VariantMatchesTicks
    <3>1. \A q \in Picks : pick[q].at # "none" => ~PickIsCurrent(q)
      <4> SUFFICES ASSUME NEW q \in Picks, pick[q].at # "none", PickIsCurrent(q)
                   PROVE  FALSE
        OBVIOUS
      <4>1. q # p
        BY <1>5
      <4>2. pick'[q] = pick[q]
        BY <1>1, <4>1
      <4>. QED  BY <2>1, <4>2 DEF PickIsCurrent
    <3>. QED  BY <1>1, <2>1, <3>1 DEF ReviewInv, VariantMatchesTicks, Variant
  <2>. QED  BY <1>3, <2>2, <2>3, <2>4 DEF ReviewInv
<1>6. CASE PickDone(p) /\ PickIsCurrent(p)
  <2> DEFINE v == Variant(pick[p].run, pick[p].irs, pick[p].keys)
             rv == [review EXCEPT !.variant = v, !.error = FALSE]
  <2>1. /\ review # None /\ review \in Reviews /\ review.run = pick[p].run
        /\ review.accepted = pick[p].keys
        /\ v \in Sources
        /\ IF pick[p].irs # "none" THEN EvaluatePreview(rv, v)
           ELSE review' = rv /\ UNCHANGED previews
    BY <1>1, <1>6, VariantType DEF PickDone, PickIsCurrent
  <2>2. review.status \in {"ready", "error"} => pick[p].irs = review.irs
    BY <1>1, <2>1 DEF ReviewInv, PicksFit
  <2> HIDE DEF v
  <2>4. /\ rv \in Reviews /\ rv.run = review.run /\ rv.status = review.status
        /\ rv.irs = review.irs /\ rv.accepted = review.accepted /\ rv.variant = v
        /\ rv.preview = review.preview
    BY <2>1 DEF Reviews
  <2> HIDE DEF rv
  <2>5. CASE pick[p].irs # "none"
    <3>1. /\ review' \in Reviews /\ Same /\ review'.variant = v
          /\ review'.preview.status = "evaluating"
          /\ \A q \in previews' : q.latest => q.of = v
      BY <1>1, <2>1, <2>4, <2>5, EvaluateType, BaseKnown
    <3>2. PreviewFits'
      BY <3>1 DEF PreviewFits
    <3>3. VariantMatchesTicks'
      <4>1. review'.status = "ready" => review'.variant = Variant(review'.run, review'.irs, review'.accepted)
        BY <2>1, <2>2, <3>1 DEF v
      <4>. QED  BY <1>1, <4>1 DEF VariantMatchesTicks, Variant
    <3>. QED  BY <1>3, <3>1, <3>2, <3>3 DEF ReviewInv
  <2>6. CASE pick[p].irs = "none"
    <3>1. review' = rv /\ Same /\ review'.variant = v
      BY <2>1, <2>4, <2>6
    <3>2. PreviewFits'
      BY <2>1, <2>2, <2>4, <2>6, <3>1 DEF PreviewFits
    <3>3. VariantMatchesTicks'
      <4>1. review'.status = "ready" => review'.variant = Variant(review'.run, review'.irs, review'.accepted)
        BY <2>1, <2>2, <3>1 DEF v
      <4>. QED  BY <1>1, <4>1 DEF VariantMatchesTicks, Variant
    <3>. QED  BY <1>3, <3>1, <3>2, <3>3 DEF ReviewInv
  <2>. QED  BY <2>5, <2>6
<1>. QED  BY <1>4, <1>5, <1>6

(* A review is resolved: it stays as it was but for its resolution. *)
LEMMA ResolvedReview ==
    ASSUME ReviewInv, RunsInv', NEW how \in {"accepted", "partial", "rejected"},
           review' = (IF review = None THEN review ELSE [review EXCEPT !.resolution = how]),
           UNCHANGED <<status, base, prepares, previews, pick>>
    PROVE  ReviewInv'
<1>1. review \in Reviews \cup {None}
  BY BaseKnown DEF ReviewInv
<1>. QED  BY <1>1, ReviewStays DEF Reviews

LEMMA NextReview ==
    ASSUME ReviewInv, [Next]_vars
    PROVE  ReviewInv'
<1>0. RunsInv'
  BY NextRuns DEF ReviewInv
<1>1. ASSUME UNCHANGED <<status, base, review, prepares, previews, pick>>
      PROVE  ReviewInv'
  BY <1>0, <1>1, ReviewStays
<1>2. ASSUME NEW c \in Starts, StartStep(c)
      PROVE  ReviewInv'
  <2>1. CASE Registered(c)
    BY <1>0, <2>1, RegisteredReview
  <2>2. CASE ~Registered(c)
    BY <1>1, <1>2, <2>2 DEF StartStep, Start, StartIdle, HostStarts, HostRefuses, Refused, appVars
  <2>. QED  BY <2>1, <2>2
<1>3. ASSUME NEW type \in {"draft", "changed", "unchanged", "error"}, HostSends(type)
      PROVE  ReviewInv'
  BY <1>1, <1>3 DEF HostSends, appVars
<1>4. CASE Deliver
  BY <1>0, <1>4, DeliverReview
<1>5. ASSUME NEW p \in prepares, PrepareStep(p)
      PROVE  ReviewInv'
  BY <1>0, <1>5, PrepareReview DEF PrepareStep
<1>6. ASSUME NEW p \in previews, PreviewStep(p)
      PROVE  ReviewInv'
  BY <1>0, <1>6, PreviewReview DEF PreviewStep
<1>7. ASSUME NEW p \in Picks, PickStep(p)
      PROVE  ReviewInv'
  BY <1>0, <1>7, PickEndsReview DEF PickStep
<1>8. ASSUME NEW a \in Accepts, AcceptStep(a)
      PROVE  ReviewInv'
  <2>1. CASE AcceptDone(a)
    <3> DEFINE how == IF accept[a].partial THEN "partial" ELSE "accepted"
    <3>1. /\ UNCHANGED <<status, base, prepares, previews, pick>>
          /\ review' = (IF review = None THEN review ELSE [review EXCEPT !.resolution = how])
          /\ how \in {"accepted", "partial", "rejected"}
      BY <2>1 DEF AcceptDone
    <3> HIDE DEF how
    <3>. QED  BY <1>0, <3>1, ResolvedReview
  <2>2. CASE ~AcceptDone(a)
    BY <1>1, <1>8, <2>2 DEF AcceptStep, AcceptIdle, AcceptMerged, AcceptFails, appVars
  <2>. QED  BY <2>1, <2>2
<1>9. CASE UserStep
  <2>1. ASSUME NEW p \in Picks, NEW K \in SUBSET Changes, Pick(p, K)
        PROVE  ReviewInv'
    BY <1>0, <2>1, PickStartsReview
  <2>2. ASSUME NEW a \in Accepts, NEW K \in SUBSET Changes, Accept(a, K)
        PROVE  ReviewInv'
    BY <1>1, <2>2 DEF Accept, appVars
  <2>3. CASE Reject
    BY <1>0, <2>3, ResolvedReview DEF Reject, ReadyReview, Unresolved
  <2>4. ASSUME NEW e \in Edits, Edit(e)
        PROVE  ReviewInv'
    BY <1>1, <2>4 DEF Edit, appVars
  <2>. QED  BY <1>9, <2>1, <2>2, <2>3, <2>4 DEF UserStep
<1>10. CASE UNCHANGED vars
  BY <1>1, <1>10 DEF vars, appVars
<1>. QED  BY <1>2, <1>3, <1>4, <1>5, <1>6, <1>7, <1>8, <1>9, <1>10 DEF Next

LEMMA InitReview ==
    ASSUME Init
    PROVE  ReviewInv
<1>1. RunsInv
  BY InitRuns
<1>. QED  BY <1>1 DEF ReviewInv, Init, PreparesOnce, PicksFit, PreviewFits, VariantMatchesTicks, View, Off

(* Every proposal is prepared once, and its ticks and its previews are about the
   review they are shown on. *)
THEOREM ReviewInvariant == Spec => []ReviewInv
BY InitReview, NextReview, PTL DEF Spec

(* The variant under review is that of the ticks, however many setAccepted calls
   are under way and in whatever order they are answered. *)
THEOREM TicksMatch == Spec => []VariantMatchesTicks
<1>1. ReviewInv => VariantMatchesTicks
  BY DEF ReviewInv
<1>. QED  BY <1>1, ReviewInvariant, PTL

(* The ghost shown is that of the variant under review, whatever the number of
   evaluations under way. *)
THEOREM GhostIsOfVariant == Spec => []PreviewShowsVariant
<1>1. ReviewInv => PreviewShowsVariant
  BY DEF ReviewInv, PreviewFits, PreviewShowsVariant
<1>. QED  BY <1>1, ReviewInvariant, PTL

-----------------------------------------------------------------------------
(* A proposal that waits for the user: who may still replace it. *)

(* What waits in v is still shown in w, or is replaced by a proposal being prepared. *)
Stays(v, w) ==
    Waits(v) => Waits(w) /\ (w.review.run = v.review.run \/ w.review.status = "preparing")

(* A proposal that is replaced at all is replaced by a finished one. *)
Kept(v, w) == Waits(v) => w.review = v.review \/ (Waits(w) /\ w.review.status = "preparing")

LEMMA HandleHeld ==
    ASSUME NEW v, NEW evs \in Seq(AgentEvents), evs # <<>>, Stream(v, evs), PreparesOnce(v), Held(v)
    PROVE  LET w == HandleEvent(v, Head(evs)) IN Held(w) /\ Kept(v, w)
<1> DEFINE e == Head(evs)
           w == HandleEvent(v, e)
           u == Reduce(v, e)
<1>1. /\ e \in AgentEvents /\ e.run \in Runs /\ v \in Views /\ Known(v)
      /\ e.type \in {"draft", "changed", "unchanged", "error"}
      /\ v.status \in [Runs -> Statuses] /\ v.prepares \subseteq PrepareCalls
      /\ v.review \in Reviews \cup {None}
  BY TakeFirst DEF Stream, AgentEvents, Views
<1>2. v.status[e.run] \in {"unknown", "running"}
  <2>1. RunOrder(v, evs, e.run) /\ Of(e.run, evs) # {}
    BY <1>1, TakeFirst DEF Stream
  <2>. QED  BY <1>1, <2>1 DEF RunOrder, Statuses
<1> HIDE DEF e
<1>3. CASE v.status[e.run] = "unknown"
  <2> DEFINE early == Append(v.pending[e.run], e)
  <2>1. early \in Seq(AgentEvents)
    BY <1>1 DEF Views
  <2>2. w = v \/ w = [v EXCEPT !.pending[e.run] = early]
    BY <1>3 DEF HandleEvent
  <2> HIDE DEF w, early
  <2>3. w.status = v.status /\ w.review = v.review /\ w.prepares = v.prepares
    <3>1. CASE w = v
      BY <3>1
    <3>2. CASE w = [v EXCEPT !.pending[e.run] = early]
      <4>1. e.run \in Runs /\ v \in Views
        BY <1>1
      <4>. QED  BY <2>1, <3>2, <4>1, PendingKept
    <3>. QED  BY <2>2, <3>1, <3>2
  <2>. QED  BY <2>3 DEF Held, Kept, Waits, w, e
<1>4. CASE v.status[e.run] = "running"
  <2>1. Waits(v) => v.review # None /\ v.review.run \in Runs /\ v.review.run # e.run
    BY <1>1, <1>4 DEF Held, Waits, Unresolved, Reviews
  <2>2. /\ w = Follow(u, e) /\ u \in Views /\ u.base = v.base /\ u.review = v.review
        /\ u.prepares = v.prepares
        /\ \A r \in Runs : r # e.run => u.status[r] = v.status[r]
        /\ IF e.type \in Terminal
           THEN u.status[e.run] = "done" <=> e.type # "error"
           ELSE u = v
    BY <1>1, <1>4, ReduceKeeps DEF HandleEvent
  <2>3. w.status = u.status
    <3>1. v.base[e.run] \in Sources
      BY <1>1, <1>4 DEF Known
    <3> HIDE DEF u, w
    <3>. QED  BY <1>1, <2>2, <3>1, FollowKeeps
  <2> HIDE DEF u, w
  <2>4. Waits(v) => w.status[v.review.run] = "done"
    BY <2>1, <2>2, <2>3 DEF Held
  <2>5. CASE e.type = "changed"
    <3> DEFINE new == [run |-> e.run, latest |-> TRUE]
               outdated == {[p EXCEPT !.latest = FALSE] : p \in v.prepares}
               rv == FreshReview(v.base[e.run], e.run, "preparing")
    <3>1. w.review = rv /\ w.prepares = outdated \cup {new} /\ w.status[e.run] = "done"
      BY <1>1, <2>2, <2>3, <2>5 DEF Follow, Prepare, Views, Terminal
    <3>2. rv.run = e.run /\ rv.status = "preparing" /\ rv.resolution = None
      BY DEF FreshReview
    <3>3. rv # None
      <4>1. v.base[e.run] \in Sources
        BY <1>1, <1>4 DEF Known
      <4>. QED  BY <1>1, <4>1, FreshType, NoneAssumption
    <3>4. \A q \in outdated : ~q.latest
      BY <1>1 DEF PrepareCalls
    <3>5. new.run = e.run
      OBVIOUS
    <3> HIDE DEF new, outdated, rv
    <3>6. Held(w)
      BY <3>1, <3>2, <3>4, <3>5 DEF Held
    <3>7. Waits(w)
      BY <3>1, <3>2, <3>3 DEF Waits, Unresolved
    <3>. QED  BY <3>1, <3>2, <3>6, <3>7 DEF Kept, w, e
  <2>6. CASE e.type # "changed"
    <3>1. /\ w.prepares = v.prepares
          /\ w.review = v.review \/ (~Waits(v) /\ ~Waits(w))
      <4>1. CASE e.type = "draft"
        <5> DEFINE rv == FreshReview(v.base[e.run], e.run, "draft")
        <5>1. w = OnDraft(v, e.run) /\ rv.status = "draft"
          BY <2>2, <4>1 DEF Follow, Terminal, FreshReview
        <5>2. CASE Waits(v)
          BY <2>1, <5>1, <5>2 DEF OnDraft, Waits
        <5>3. CASE w = [v EXCEPT !.review = rv] /\ ~Waits(v)
          BY <1>1, <5>1, <5>3 DEF Views, Waits
        <5>4. CASE w = v
          BY <5>4
        <5>. QED  BY <5>1, <5>2, <5>3, <5>4 DEF OnDraft
      <4>2. CASE e.type # "draft"
        <5>1. w = DropDraft(u, e.run)
          BY <1>1, <2>2, <2>6, <4>2 DEF Follow
        <5>2. CASE w = u
          BY <2>2, <5>2
        <5>3. CASE w # u
          <6>1. w = [u EXCEPT !.review = None] /\ v.review.status = "draft"
            BY <2>2, <5>1, <5>3 DEF DropDraft
          <6>2. w.review = None /\ w.prepares = v.prepares
            BY <2>2, <6>1 DEF Views
          <6>. QED  BY <6>1, <6>2 DEF Waits, Unresolved
        <5>. QED  BY <5>2, <5>3
      <4>. QED  BY <4>1, <4>2
    <3>2. Held(w)
      BY <2>4, <3>1 DEF Held, Waits
    <3>. QED  BY <3>1, <3>2 DEF Kept, w, e
  <2>. QED  BY <2>5, <2>6
<1>. QED  BY <1>2, <1>3, <1>4

(* Steps that leave the review that of the same run, and resolve it at most. *)
LEMMA HeldStays ==
    ASSUME HeldInv, UNCHANGED status, prepares' \subseteq prepares,
           review' # None => review # None,
           review' # None => /\ review'.run = review.run /\ review'.status = review.status
                             /\ review.resolution # None => review'.resolution # None
    PROVE  Held(View')
<1>1. Waits(View') => Waits(View) /\ View'.review.run = View.review.run
  BY DEF Waits, Unresolved, View
<1>. QED  BY <1>1 DEF HeldInv, Held, View

LEMMA EventsHeld ==
    ASSUME HeldInv, Deliver \/ \E c \in Starts : Registered(c)
    PROVE  Held(View') /\ Kept(View, View')
<1>0. RunsInv /\ PreparesOnce(View) /\ Stream(View, events)
  BY DEF HeldInv, ReviewInv, RunsInv
<1>1. CASE Deliver
  <2> DEFINE w == HandleEvent(View, Head(events))
  <2>1. events \in Seq(AgentEvents) /\ events # <<>> /\ SetView(w)
    BY <1>0, <1>1 DEF Deliver, RunsInv, TypeOK
  <2>2. Held(w) /\ Kept(View, w)
    BY <1>0, <2>1, HandleHeld DEF HeldInv
  <2> HIDE DEF w
  <2>3. w.status = View'.status /\ w.review = View'.review /\ w.prepares = View'.prepares
    BY <2>1 DEF SetView, View
  <2>. QED  BY <2>2, <2>3 DEF Held, Kept, Waits
<1>2. ASSUME NEW c \in Starts, Registered(c)
      PROVE  Held(View') /\ Kept(View, View')
  <2> DEFINE r == start[c].run
             v == Joining(c)
             K == {u \in Views : PreparesOnce(u) /\ Held(u) /\ Kept(View, u)}
  <2>1. /\ r \in Runs /\ status[r] = "unknown" /\ v \in Views
        /\ v.review = review /\ v.prepares = prepares /\ v.status[r] = "running"
        /\ \A q \in Runs : q # r => v.status[q] = status[q]
        /\ View.status = status /\ View.review = review /\ View.prepares = prepares
    BY <1>0, <1>2, JoiningMeans
  <2>2. /\ \A p \in prepares : p.run \in Runs /\ p.run # r
        /\ review # None => review.run \in Runs /\ review.run # r
    BY <1>0, <2>1, BaseKnown
  <2> HIDE DEF r, v
  <2>3. v \in K
    <3>1. \A q \in Runs : Prepared(View, q) => Prepared(v, q)
      BY <2>1 DEF Prepared
    <3>2. PreparesOnce(v)
      BY <1>0, <2>1, <2>2, <3>1 DEF PreparesOnce
    <3>3. Waits(v) = Waits(View) /\ (Waits(v) => review # None)
      BY <2>1 DEF Waits, Unresolved
    <3>4. Held(v)
      BY <2>1, <2>2, <3>3 DEF HeldInv, Held
    <3>5. Kept(View, v)
      BY <2>1 DEF Kept
    <3>. QED  BY <2>1, <3>2, <3>4, <3>5
  <2>4. ASSUME NEW u \in K, NEW coming \in Seq(AgentEvents), coming # <<>>,
               Head(coming).run = r, Stream(u, coming), u.status[r] # "unknown"
        PROVE  HandleEvent(u, Head(coming)) \in K
    <3> DEFINE w == HandleEvent(u, Head(coming))
    <3>1. PreparesOnce(w) /\ Held(w) /\ Kept(u, w) /\ Kept(View, u)
      BY <2>4, HandleReview, HandleHeld
    <3>2. w \in Views
      BY <2>4, HandleFirst DEF Stream
    <3> HIDE DEF w
    <3>3. Kept(View, w)
      BY <3>1 DEF Kept, Waits
    <3>. QED  BY <3>1, <3>2, <3>3 DEF w
  <2>5. View' \in K
    <3> HIDE DEF K
    <3>. QED  BY <1>0, <1>2, <2>3, <2>4, Registering DEF r, v
  <2>. QED  BY <2>5
<1>. QED  BY <1>1, <1>2

(* An answer to #prepareReview: an outdated one is dropped. *)
LEMMA PrepareHeld ==
    ASSUME HeldInv, NEW p \in prepares, PrepareFails(p) \/ \E irs \in Irs : PrepareDone(p, irs)
    PROVE  Held(View') /\ Stays(View, View')
<1>1. /\ UNCHANGED <<status, base>> /\ prepares' = prepares \ {p}
      /\ p.run \in Runs /\ base[p.run] \in Sources /\ RunsInv
      /\ View.status = status /\ View.prepares = prepares /\ View.review = review
      /\ View'.status = status /\ View'.prepares = prepares' /\ View'.review = review'
      /\ status[p.run] = "done"
  BY BaseKnown DEF PrepareFails, PrepareDone, HeldInv, ReviewInv, PreparesOnce, View
<1>2. CASE ~p.latest
  <2>1. review' = review
    BY <1>2 DEF PrepareFails, PrepareDone
  <2>. QED  BY <1>1, <2>1, HeldStays DEF Stays, Waits
<1>3. CASE p.latest
  <2>1. /\ \A q \in prepares' : ~q.latest
        /\ Waits(View) => review.run = p.run
    BY <1>1, <1>3 DEF HeldInv, Held
  <2>2. /\ review' \in Reviews /\ review'.run = p.run /\ review'.status \in {"ready", "error"}
        /\ review'.resolution = None
    <3>1. CASE PrepareFails(p)
      <4> DEFINE rv == FreshReview(base[p.run], p.run, "error")
      <4>1. rv \in Reviews /\ rv.run = p.run /\ rv.status = "error" /\ rv.resolution = None
        BY <1>1, FreshType DEF FreshReview
      <4>2. review' = [rv EXCEPT !.error = TRUE]
        BY <1>3, <3>1 DEF PrepareFails
      <4> HIDE DEF rv
      <4>. QED  BY <4>1, <4>2 DEF Reviews
    <3>2. ASSUME NEW irs \in Irs, PrepareDone(p, irs)
          PROVE  <2>2
      <4> DEFINE fresh == FreshReview(base[p.run], p.run, "ready")
                 rv == [fresh EXCEPT !.irs = irs, !.accepted = ChangesOf(irs), !.error = (irs = "none")]
      <4>1. /\ rv \in Reviews /\ rv.run = p.run /\ rv.variant \in Sources
            /\ rv.status = "ready" /\ rv.resolution = None
        <5>1. fresh \in Reviews /\ fresh.run = p.run /\ fresh.status = "ready" /\ fresh.resolution = None
          BY <1>1, FreshType DEF FreshReview
        <5>2. ChangesOf(irs) \in SUBSET Changes
          BY DEF ChangesOf
        <5> HIDE DEF fresh
        <5>. QED  BY <5>1, <5>2 DEF Reviews
      <4>2. IF irs # "none" THEN EvaluatePreview(rv, rv.variant) ELSE review' = rv
        BY <1>3, <3>2 DEF PrepareDone
      <4>3. previews \in SUBSET [of : Sources, latest : BOOLEAN]
        BY <1>1, BaseKnown
      <4> HIDE DEF rv
      <4>. QED  BY <4>1, <4>2, <4>3, EvaluateType
    <3>. QED  BY <3>1, <3>2
  <2>3. Waits(View')
    BY <1>1, <2>2, NoneAssumption DEF Waits, Unresolved
  <2>. QED  BY <1>1, <2>1, <2>2, <2>3 DEF Held, Stays
<1>. QED  BY <1>2, <1>3

(* Steps that keep the review but for what it shows. *)
LEMMA ShownStays ==
    ASSUME HeldInv, UNCHANGED <<status, prepares>>,
           review = None => review' = None,
           review # None => /\ review' # None
                            /\ review'.run = review.run /\ review'.status = review.status
                            /\ review'.resolution = review.resolution
    PROVE  Held(View') /\ Stays(View, View')
<1>1. Held(View')
  BY HeldStays
<1>2. Stays(View, View')
  BY DEF Stays, Waits, Unresolved, View
<1>. QED  BY <1>1, <1>2

LEMMA PreviewHeld ==
    ASSUME HeldInv, NEW p \in previews, NEW st \in {"ready", "error"}, PreviewDone(p, st)
    PROVE  Held(View') /\ Stays(View, View')
<1>1. /\ UNCHANGED <<status, prepares>>
      /\ review' = IF p.latest /\ review # None
                   THEN [review EXCEPT !.preview = Shown(p, st)] ELSE review
      /\ review \in Reviews \cup {None} /\ p.of \in Sources
  BY BaseKnown DEF PreviewDone, HeldInv, ReviewInv
<1>2. Shown(p, st) \in [status : {"idle", "evaluating", "ready", "error"}, of : Sources \cup {None}]
  BY <1>1 DEF Shown
<1>3. review # None => /\ [review EXCEPT !.preview = Shown(p, st)] \in Reviews
                       /\ [review EXCEPT !.preview = Shown(p, st)].run = review.run
                       /\ [review EXCEPT !.preview = Shown(p, st)].status = review.status
                       /\ [review EXCEPT !.preview = Shown(p, st)].resolution = review.resolution
  BY <1>1, <1>2 DEF Reviews
<1>. QED  BY <1>1, <1>3, ShownStays, NoneAssumption

LEMMA PickHeld ==
    ASSUME HeldInv, NEW p \in Picks,
           PickDone(p) \/ PickFails(p) \/ \E K \in SUBSET Changes : Pick(p, K)
    PROVE  Held(View') /\ Stays(View, View')
<1>1. UNCHANGED <<status, prepares>> /\ review \in Reviews \cup {None} /\ RunsInv
  BY BaseKnown DEF PickDone, PickFails, Pick, HeldInv, ReviewInv
<1> DEFINE Same == /\ review = None => review' = None
                   /\ review # None =>
                        /\ review' # None
                        /\ review'.run = review.run /\ review'.status = review.status
                        /\ review'.resolution = review.resolution
<1>2. ASSUME NEW K \in SUBSET Changes, Pick(p, K)
      PROVE  Same
  <2>1. review # None /\ review' = [review EXCEPT !.accepted = K]
    BY <1>2 DEF Pick, ReadyReview, Unresolved
  <2>2. review' \in Reviews
    BY <1>1, <2>1 DEF Reviews
  <2>. QED  BY <1>1, <2>1, <2>2, NoneAssumption DEF Reviews
<1>3. ASSUME PickFails(p)
      PROVE  Same
  <2>1. review' = IF review = None THEN review ELSE [review EXCEPT !.error = TRUE]
    BY <1>3 DEF PickFails
  <2>2. review # None => [review EXCEPT !.error = TRUE] \in Reviews
    BY <1>1 DEF Reviews
  <2>. QED  BY <1>1, <2>1, <2>2, NoneAssumption DEF Reviews
<1>4. ASSUME PickDone(p)
      PROVE  Same
  <2> DEFINE v == Variant(pick[p].run, pick[p].irs, pick[p].keys)
             rv == [review EXCEPT !.variant = v, !.error = FALSE]
  <2>1. /\ pick[p].at = "merge"
        /\ IF ~PickIsCurrent(p) THEN UNCHANGED <<review, previews>>
           ELSE IF pick[p].irs # "none" THEN EvaluatePreview(rv, v)
           ELSE review' = rv /\ UNCHANGED previews
    BY <1>4 DEF PickDone
  <2>2. v \in Sources /\ previews \in SUBSET [of : Sources, latest : BOOLEAN]
    BY <1>1, <2>1, BaseKnown, VariantType
  <2> HIDE DEF v
  <2>3. review # None => /\ rv \in Reviews /\ rv.run = review.run /\ rv.status = review.status
                         /\ rv.resolution = review.resolution
    BY <1>1, <2>2 DEF Reviews
  <2>4. PickIsCurrent(p) => review # None
    BY DEF PickIsCurrent
  <2> HIDE DEF rv
  <2>5. CASE ~PickIsCurrent(p)
    BY <2>1, <2>5
  <2>6. CASE PickIsCurrent(p) /\ pick[p].irs # "none"
    BY <2>1, <2>2, <2>3, <2>4, <2>6, EvaluateType, NoneAssumption
  <2>7. CASE PickIsCurrent(p) /\ pick[p].irs = "none"
    BY <2>1, <2>3, <2>4, <2>7, NoneAssumption
  <2>. QED  BY <2>5, <2>6, <2>7
<1>5. Same
  BY <1>2, <1>3, <1>4
<1> HIDE DEF Same
<1>. QED  BY <1>1, <1>5, ShownStays DEF Same

(* The step of a property: a waiting proposal is replaced by a finished one at most. *)
Pends == ReviewPending => /\ review' # None
                          /\ review'.run # review.run => review'.status = "preparing"

LEMMA StaysPends ==
    ASSUME Stays(View, View') \/ Kept(View, View')
    PROVE  Pends
BY DEF Stays, Kept, Waits, Unresolved, View, Pends, ReviewPending

(* A review is resolved by its accept or its reject. *)
LEMMA ResolvedHeld ==
    ASSUME HeldInv, NEW how \in {"accepted", "partial", "rejected"}, UNCHANGED <<status, prepares>>,
           review' = (IF review = None THEN review ELSE [review EXCEPT !.resolution = how])
    PROVE  Held(View') /\ Pends
<1>1. review \in Reviews \cup {None}
  BY BaseKnown DEF HeldInv, ReviewInv
<1>2. review # None => /\ review' \in Reviews /\ review'.run = review.run
                       /\ review'.status = review.status /\ review'.resolution = how
  BY <1>1 DEF Reviews
<1>3. review # None => review' # None /\ review'.resolution # None
  BY <1>2, NoneAssumption
<1>4. Held(View')
  BY <1>2, <1>3, HeldStays
<1>5. Pends
  BY <1>2, <1>3 DEF Pends, ReviewPending, Unresolved
<1>. QED  BY <1>4, <1>5

LEMMA NextHeld ==
    ASSUME HeldInv, [Next]_vars
    PROVE  HeldInv' /\ Pends
<1> DEFINE Goal == Held(View') /\ Pends
<1> SUFFICES Goal
  <2>1. ReviewInv'
    BY NextReview DEF HeldInv
  <2>. QED  BY <2>1 DEF HeldInv, View
<1>1. ASSUME UNCHANGED <<status, review, prepares>>
      PROVE  Goal
  <2>1. Held(View')
    BY <1>1, HeldStays
  <2>2. Pends
    BY <1>1 DEF Pends, ReviewPending, Unresolved
  <2>. QED  BY <2>1, <2>2
<1>2. ASSUME NEW c \in Starts, StartStep(c)
      PROVE  Goal
  <2>1. CASE Registered(c)
    BY <2>1, EventsHeld, StaysPends
  <2>2. CASE ~Registered(c)
    BY <1>1, <1>2, <2>2 DEF StartStep, Start, StartIdle, HostStarts, HostRefuses, Refused, appVars
  <2>. QED  BY <2>1, <2>2
<1>3. ASSUME NEW type \in {"draft", "changed", "unchanged", "error"}, HostSends(type)
      PROVE  Goal
  BY <1>1, <1>3 DEF HostSends, appVars
<1>4. CASE Deliver
  BY <1>4, EventsHeld, StaysPends
<1>5. ASSUME NEW p \in prepares, PrepareStep(p)
      PROVE  Goal
  BY <1>5, PrepareHeld, StaysPends DEF PrepareStep
<1>6. ASSUME NEW p \in previews, PreviewStep(p)
      PROVE  Goal
  BY <1>6, PreviewHeld, StaysPends DEF PreviewStep
<1>7. ASSUME NEW p \in Picks, PickStep(p)
      PROVE  Goal
  BY <1>7, PickHeld, StaysPends DEF PickStep
<1>8. ASSUME NEW a \in Accepts, AcceptStep(a)
      PROVE  Goal
  <2>1. CASE AcceptDone(a)
    <3> DEFINE how == IF accept[a].partial THEN "partial" ELSE "accepted"
    <3>1. /\ UNCHANGED <<status, prepares>>
          /\ review' = (IF review = None THEN review ELSE [review EXCEPT !.resolution = how])
          /\ how \in {"accepted", "partial", "rejected"}
      BY <2>1 DEF AcceptDone
    <3> HIDE DEF how
    <3>. QED  BY <3>1, ResolvedHeld
  <2>2. CASE ~AcceptDone(a)
    BY <1>1, <1>8, <2>2 DEF AcceptStep, AcceptIdle, AcceptMerged, AcceptFails, appVars
  <2>. QED  BY <2>1, <2>2
<1>9. CASE UserStep
  <2>1. ASSUME NEW p \in Picks, NEW K \in SUBSET Changes, Pick(p, K)
        PROVE  Goal
    BY <2>1, PickHeld, StaysPends
  <2>2. ASSUME NEW a \in Accepts, NEW K \in SUBSET Changes, Accept(a, K)
        PROVE  Goal
    BY <1>1, <2>2 DEF Accept, appVars
  <2>3. CASE Reject
    BY <2>3, ResolvedHeld DEF Reject, ReadyReview, Unresolved
  <2>4. ASSUME NEW e \in Edits, Edit(e)
        PROVE  Goal
    BY <1>1, <2>4 DEF Edit, appVars
  <2>. QED  BY <1>9, <2>1, <2>2, <2>3, <2>4 DEF UserStep
<1>10. CASE UNCHANGED vars
  BY <1>1, <1>10 DEF vars, appVars
<1>. QED  BY <1>2, <1>3, <1>4, <1>5, <1>6, <1>7, <1>8, <1>9, <1>10 DEF Next

LEMMA InitHeld ==
    ASSUME Init
    PROVE  HeldInv
<1>1. ReviewInv
  BY InitReview
<1>. QED  BY <1>1 DEF HeldInv, Init, Held, Waits, Unresolved, View

(* A proposal waits for its accept or reject, however many calls of start and accept
   are under way: no draft hides it, no other run's end drops it, and only the finished
   proposal of another run takes its place. *)
THEOREM PendingStays == Spec => PendingReviewStays
<1>1. Init => HeldInv
  BY InitHeld
<1>2. HeldInv /\ [Next]_vars => HeldInv'
  BY NextHeld
<1>3. HeldInv /\ [Next]_vars => [Pends]_vars
  BY NextHeld
<1>. QED  BY <1>1, <1>2, <1>3, PTL DEF Spec, PendingReviewStays, Pends

-----------------------------------------------------------------------------
(* What accepts write. *)

LEMMA IdleMerges ==
    ASSUME RunsInv, NEW a \in Accepts, AcceptIdle(a)
    PROVE  \E call : /\ accept' = [accept EXCEPT ![a] = call] /\ call.seen = doc
                     /\ call.at \in {"merge", "compile"} /\ Merges(call)
<1> DEFINE r == accept[a].run
           irs == accept[a].irs
           keys == accept[a].keys
           all == ChangesOf(irs) \subseteq keys
           same == doc = base[r]
           source == IF same THEN Variant(r, irs, keys) ELSE With(doc, r, keys)
           call == [at |-> IF same /\ all THEN "compile" ELSE "merge",
                    run |-> r, partial |-> ~all, seen |-> doc,
                    edited |-> FALSE, rejected |-> accept[a].rejected, source |-> source]
           K == IF irs = "both" THEN keys ELSE Changes
<1>1. /\ accept[a].at = "idle" /\ accept' = [accept EXCEPT ![a] = call]
      /\ (same \/ irs = "both") /\ accept \in [Accepts -> AcceptCalls]
  BY BaseKnown DEF AcceptIdle
<1>2. keys \in SUBSET Changes
  BY <1>1 DEF AcceptCalls
<1>3. K \in SUBSET Changes /\ source = With(doc, r, K) /\ (~all) = (K # Changes)
  <2>1. K \in SUBSET Changes
    BY <1>2
  <2>2. source = With(doc, r, K)
    BY <1>1 DEF Variant
  <2>3. all <=> K = Changes
    BY <1>2 DEF ChangesOf
  <2>. QED  BY <2>1, <2>2, <2>3
<1>4. /\ call.run = r /\ call.at \in {"merge", "compile"} /\ call.seen = doc
      /\ call.source = source /\ call.partial = ~all
  OBVIOUS
<1> HIDE DEF call, K, source, all
<1>5. Merges(call)
  BY <1>3, <1>4 DEF Merges
<1>. QED  BY <1>1, <1>4, <1>5

(* The document changes by an edit, or by the ticked changes of a proposal rebased on
   the document as it is, or as it was before the edits made during the last compile. *)
Merged ==
    \/ \E e \in Edits : doc' \in {doc \cup {e}, doc \ {e}}
    \/ \E a \in Compiling, K \in SUBSET Changes :
         /\ doc' = With(accept[a].seen, accept[a].run, K)
         /\ accept[a].seen = doc \/ accept[a].edited

LEMMA NextMerges ==
    ASSUME MergesInv, [Next]_vars
    PROVE  MergesInv' /\ (doc' # doc => Merged)
<1> DEFINE Goal == AcceptsMerge' /\ (doc' # doc => Merged)
<1> SUFFICES Goal
  <2>1. RunsInv'
    BY NextRuns DEF MergesInv
  <2>. QED  BY <2>1 DEF MergesInv
<1>1. ASSUME UNCHANGED <<doc, accept>>
      PROVE  Goal
  BY <1>1 DEF MergesInv, AcceptsMerge, Merges
<1>2. accept \in [Accepts -> AcceptCalls] /\ Edited \in [Accepts -> AcceptCalls]
  BY BaseKnown, EditedType DEF MergesInv
(* After an edit, as the accepts stay. *)
<1>3. \A a \in Accepts : /\ Edited[a].at \in {"merge", "compile"} => Merges(Edited[a])
                         /\ Edited[a].at = "compile" => Edited[a].edited
  <2> SUFFICES ASSUME NEW a \in Accepts, Edited[a].at \in {"merge", "compile"}
               PROVE  Merges(Edited[a]) /\ (Edited[a].at = "compile" => Edited[a].edited)
    OBVIOUS
  <2>1. Merges(accept[a])
    BY <1>2, EditedType DEF MergesInv, AcceptsMerge
  <2>2. CASE a \in Compiling
    BY <1>2, <2>1, <2>2, EditedType DEF Compiling, Merges
  <2>3. CASE a \notin Compiling
    BY <1>2, <2>1, <2>3, EditedType DEF Compiling
  <2>. QED  BY <2>2, <2>3
<1>4. ASSUME NEW a \in Accepts,
             AcceptStep(a) \/ \E K \in SUBSET Changes : Accept(a, K)
      PROVE  Goal
  <2>1. CASE AcceptDone(a)
    <3>1. /\ accept[a].at = "compile" /\ doc' = accept[a].source /\ a \in Compiling
          /\ accept' = [Edited EXCEPT ![a] = Off]
      BY <2>1 DEF AcceptDone, Compiling
    <3>2. Merged
      BY <3>1 DEF MergesInv, AcceptsMerge, Merges, Merged
    <3>3. \A b \in Accepts : b # a => accept'[b] = Edited[b]
      BY <1>2, <3>1
    <3>4. accept'[a].at = "none"
      BY <1>2, <3>1 DEF Off
    <3>5. AcceptsMerge'
      BY <1>3, <3>3, <3>4 DEF AcceptsMerge, Merges
    <3>. QED  BY <3>2, <3>5
  <2>2. ASSUME doc' = doc, NEW call, accept' = [accept EXCEPT ![a] = call],
               call.at \in {"merge", "compile"} => Merges(call),
               call.at = "compile" => call.seen = doc \/ call.edited
        PROVE  Goal
    <3>1. accept'[a] = call /\ \A b \in Accepts : b # a => accept'[b] = accept[b]
      BY <1>2, <2>2
    <3>2. AcceptsMerge'
      BY <2>2, <3>1 DEF MergesInv, AcceptsMerge, Merges
    <3>. QED  BY <2>2, <3>2
  <2>3. CASE AcceptIdle(a)
    <3>1. doc' = doc /\ RunsInv
      BY <2>3 DEF AcceptIdle, MergesInv
    <3>. QED  BY <2>2, <2>3, <3>1, IdleMerges
  <2>4. CASE AcceptMerged(a)
    <3> DEFINE call == [accept[a] EXCEPT !.at = "compile"]
    <3>1. /\ accept[a].at = "merge" /\ doc = accept[a].seen /\ doc' = doc
          /\ accept' = [accept EXCEPT ![a] = call] /\ accept[a] \in AcceptCalls
      BY <1>2, <2>4 DEF AcceptMerged
    <3>2. /\ call.run = accept[a].run /\ call.seen = accept[a].seen
          /\ call.source = accept[a].source /\ call.partial = accept[a].partial
      BY <3>1 DEF AcceptCalls
    <3> HIDE DEF call
    <3>3. Merges(call)
      BY <3>1, <3>2 DEF MergesInv, AcceptsMerge, Merges
    <3>. QED  BY <2>2, <3>1, <3>2, <3>3
  <2>5. CASE AcceptFails(a)
    BY <2>2, <2>5 DEF AcceptFails, Off
  <2>6. ASSUME NEW K \in SUBSET Changes, Accept(a, K)
        PROVE  Goal
    <3> DEFINE call == [at |-> "idle", run |-> review.run, irs |-> review.irs, keys |-> K,
                        rejected |-> FALSE]
    <3>1. doc' = doc /\ accept' = [accept EXCEPT ![a] = call] /\ call.at = "idle"
      BY <2>6 DEF Accept
    <3> HIDE DEF call
    <3>. QED  BY <2>2, <3>1
  <2>. QED  BY <1>4, <2>1, <2>3, <2>4, <2>5, <2>6 DEF AcceptStep
<1>5. CASE Reject
  <2> DEFINE Left(a) == [accept[a] EXCEPT !.rejected = TRUE]
  <2>1. doc' = doc /\ accept' = [a \in Accepts |-> IF a \in Accepting THEN Left(a) ELSE accept[a]]
    BY <1>5 DEF Reject
  <2>2. \A a \in Accepting : /\ Left(a).at = accept[a].at
                             /\ accept[a].at \in {"merge", "compile"} =>
                                  /\ Left(a).source = accept[a].source /\ Left(a).seen = accept[a].seen
                                  /\ Left(a).run = accept[a].run /\ Left(a).partial = accept[a].partial
                                  /\ Left(a).edited = accept[a].edited
    <3> SUFFICES ASSUME NEW a \in Accepting
                 PROVE  /\ Left(a).at = accept[a].at
                        /\ accept[a].at \in {"merge", "compile"} =>
                             /\ Left(a).source = accept[a].source /\ Left(a).seen = accept[a].seen
                             /\ Left(a).run = accept[a].run /\ Left(a).partial = accept[a].partial
                             /\ Left(a).edited = accept[a].edited
      OBVIOUS
    <3>1. accept[a] \in AcceptCalls /\ accept[a].at # "none"
      BY <1>2 DEF Accepting
    <3>2. CASE accept[a].at = "idle"
      BY <3>1, <3>2 DEF AcceptCalls
    <3>3. CASE accept[a].at # "idle"
      BY <3>1, <3>3 DEF AcceptCalls
    <3>. QED  BY <3>2, <3>3
  <2> HIDE DEF Left
  <2>3. AcceptsMerge'
    <3> SUFFICES ASSUME NEW a \in Accepts
                 PROVE  /\ accept'[a].at \in {"merge", "compile"} => Merges(accept'[a])
                        /\ accept'[a].at = "compile" => accept'[a].seen = doc \/ accept'[a].edited
      BY <2>1 DEF AcceptsMerge, Merges
    <3>1. /\ accept[a].at \in {"merge", "compile"} => Merges(accept[a])
          /\ accept[a].at = "compile" => accept[a].seen = doc \/ accept[a].edited
      BY DEF MergesInv, AcceptsMerge
    <3>2. CASE a \in Accepting
      BY <2>1, <2>2, <3>1, <3>2 DEF Merges
    <3>3. CASE a \notin Accepting
      BY <2>1, <3>1, <3>3
    <3>. QED  BY <3>2, <3>3
  <2>. QED  BY <2>1, <2>3
<1>6. ASSUME NEW e \in Edits, Edit(e)
      PROVE  Goal
  <2>1. accept' = Edited /\ doc' \in {doc \cup {e}, doc \ {e}}
    BY <1>6 DEF Edit
  <2>2. AcceptsMerge'
    BY <1>3, <2>1 DEF AcceptsMerge, Merges
  <2>. QED  BY <2>1, <2>2 DEF Merged
<1>7. ASSUME NEW c \in Starts, StartStep(c)
      PROVE  Goal
  BY <1>1, <1>7 DEF StartStep, Start, StartIdle, HostStarts, HostRefuses, Registered, Refused
<1>8. ASSUME NEW type \in {"draft", "changed", "unchanged", "error"}, HostSends(type)
      PROVE  Goal
  BY <1>1, <1>8 DEF HostSends
<1>9. CASE Deliver
  BY <1>1, <1>9 DEF Deliver
<1>10. ASSUME NEW p \in prepares, PrepareStep(p)
       PROVE  Goal
  BY <1>1, <1>10 DEF PrepareStep, PrepareDone, PrepareFails
<1>11. ASSUME NEW p \in previews, PreviewStep(p)
       PROVE  Goal
  BY <1>1, <1>11 DEF PreviewStep, PreviewDone
<1>12. ASSUME NEW p \in Picks, PickStep(p) \/ \E K \in SUBSET Changes : Pick(p, K)
       PROVE  Goal
  BY <1>1, <1>12 DEF PickStep, PickDone, PickFails, Pick
<1>13. CASE UNCHANGED vars
  BY <1>1, <1>13 DEF vars
<1>. QED  BY <1>4, <1>5, <1>6, <1>7, <1>8, <1>9, <1>10, <1>11, <1>12, <1>13 DEF Next, UserStep

LEMMA InitMerges ==
    ASSUME Init
    PROVE  MergesInv
<1>1. RunsInv
  BY InitRuns
<1>. QED  BY <1>1 DEF MergesInv, Init, AcceptsMerge, Off

(* However many accepts are under way, and whatever the user does meanwhile: the document
   changes by an edit, or by ticked changes rebased on the document as it is; of what is
   edited only what is edited during the last compile of an accept is overwritten. *)
THEOREM ChangesAreMerged == Spec => [][doc' # doc => Merged]_vars
<1>1. Init => MergesInv
  BY InitMerges
<1>2. MergesInv /\ [Next]_vars => MergesInv'
  BY NextMerges
<1>3. MergesInv /\ [Next]_vars => [doc' # doc => Merged]_vars
  BY NextMerges
<1>. QED  BY <1>1, <1>2, <1>3, PTL DEF Spec
=============================================================================
