----------------------------- MODULE References -----------------------------
(***************************************************************************)
(* A reference of a feature to faces of the part before it: how forge-refs *)
(* resolves it against the part as it is now (resolve.rs), and the three   *)
(* commands that rewrite it (forge-wasm, commands.rs).                     *)
(*                                                                         *)
(* A reference holds a query and a capture: what the query selected when   *)
(* it was written.  The part may be any of `Scopes` at each resolution: the*)
(* user edits sketches, suppresses features, undoes.  Resolution uses what *)
(* it can tell for certain, and fails with candidates otherwise; the user  *)
(* accepts one of them, as read from a report that may be old by then.     *)
(***************************************************************************)
EXTENDS RefQuery

CONSTANTS
    Scopes,      \* the parts the reference is resolved in
    Written,     \* the references as tools write them, without a capture
    MaxNesting   \* a bound on the queries that commands build

ASSUME MaxNestingAssumption == MaxNesting \in Nat

\* A part has finitely many faces; two of one body and key differ in their centroid.
WellFormed(sc) ==
    /\ IsFiniteSet(sc.faces)
    /\ \A f \in sc.faces :
        /\ f.key \in Int \X Int /\ f.body \in Int
        /\ f.carrier[2] \in Int /\ f.lo \in Int /\ f.hi \in Int /\ f.lo < f.hi
    /\ \A f, g \in sc.faces :
        f.key = g.key /\ f.body = g.body /\ Centroid(f) = Centroid(g) => f = g

Uncaptured(q, card) == [q |-> q, card |-> card, captured |-> FALSE, members |-> <<>>]

ASSUME ScopesAssumption == \A sc \in Scopes : WellFormed(sc)
ASSUME WrittenAssumption == \A r \in Written : r = Uncaptured(r.q, r.card)

VARIABLES
    scope,   \* the part now
    ref,     \* the reference in the document
    read     \* the candidate the user read in a report and has not accepted yet

refVars == <<scope, ref, read>>

\* Cardinalities: one is 1, some is 0, an integer n above one is n.
One == 1
Some == 0

MaxCandidates == 6
Keyless == <<0, 0>>
Nothing == <<>>

(***************************************************************************)
(* The builder.  used: the members with how they were found; consumed: the *)
(* faces captured members account for; dropped: how many captured members  *)
(* the query itself no longer selects.                                     *)
(***************************************************************************)
Empty == [used |-> {}, consumed |-> {}, fail |-> "none", unresolved |-> <<>>,
          split |-> FALSE, repaired |-> FALSE, splits |-> <<>>, dropped |-> 0,
          warnings |-> {}]

Put(used, f, via, status) ==
    {u \in used : u.face # f} \cup {[face |-> f, via |-> via, status |-> status]}

FirstOf(seq, n) == SubSeq(seq, 1, IF Len(seq) < n THEN Len(seq) ELSE n)

Unresolved(b, key, candidates, code) ==
    [b EXCEPT !.unresolved = Append(@, [key |-> key,
                                        candidates |-> FirstOf(candidates, MaxCandidates)]),
              !.fail = IF @ = "none" THEN code ELSE @]

Warn(b, code) == [b EXCEPT !.warnings = @ \cup {code}]

\* The face of hits most like the captured member, the first of those that tie.
Best(m, hits) ==
    CHOOSE f \in hits : \A g \in hits \ {f} :
        \/ Score(m, g) < Score(m, f)
        \/ Score(m, g) = Score(m, f) /\ Precedes(f, g)

\* The captured members of a capture found that way, their keys, and those with the
\* key of the i-th.
Via(ms, via) == {i \in DOMAIN ms : ms[i].via = via}
Named(ms) == Via(ms, "named")
KeysOf(ms, I) == {ms[i].key : i \in I}
SameKey(ms, i) == {j \in Named(ms) : ms[j].key = ms[i].key}
IsLeast(i, I) == \A j \in I : i <= j

\* Captured pieces of one key and faces, matched greedily: the pairs of what is not
\* matched yet, the best of them by score, and one pair more.
Open(pairs, I, hits) == {p \in I \X hits : \A o \in pairs : p[1] # o[1] /\ p[2] # o[2]}
Better(ms, p, o) ==
    LET sp == Score(ms[p[1]], p[2])
        so == Score(ms[o[1]], o[2])
    IN \/ so < sp
       \/ so = sp /\ p[1] < o[1]
       \/ so = sp /\ p[1] = o[1] /\ Precedes(p[2], o[2])
PairBest(ms, I, hits, pairs) ==
    LET open == Open(pairs, I, hits)
    IN IF open = {} THEN pairs
       ELSE pairs \cup {CHOOSE p \in open : \A o \in open \ {p} : Better(ms, p, o)}

Assign(ms, I, hits) ==
    LET pairs[n \in 0 .. Len(ms)] ==
            IF n = 0 THEN {} ELSE PairBest(ms, I, hits, pairs[n - 1])
    IN pairs[Len(ms)]

(***************************************************************************)
(* What each captured key goes through.  c is the context: the scope, the  *)
(* query, the cardinality, what the query selects (all, named), whether it *)
(* was rejected, and the faces captured keys designate (claimed).          *)
(***************************************************************************)

\* f carries the captured key, and the query's own choice dropped it.
DroppedPiece(c, m, f) == f \in Carrying(c.sc, m.key) /\ f \notin c.all

\* The pieces of a captured member that gained neighbours: the anchor and what
\* is connected to it inside the captured interval, nobody else's.
InsidePieces(c, m, anchor) ==
    {p \in Connected(c.sc, anchor) :
        p = anchor \/ (p \notin c.claimed /\ SameSupport(m, p) /\ Contained(m, p))}

NewKeyPieces(c, m, anchor) ==
    {p \in InsidePieces(c, m, anchor) : p = anchor \/ ~DroppedPiece(c, m, p)}

\* The anchor first, then by size.
PiecesInOrder(pieces, anchor) ==
    InOrder(pieces, LAMBDA p, q : \/ p = anchor /\ q # anchor
                                  \/ q # anchor /\ Size(p) > Size(q)
                                  \/ q # anchor /\ Size(p) = Size(q) /\ Precedes(p, q))

Split(b, m, anchor, pieces, card, captured) ==
    LET taken == [b EXCEPT !.split = TRUE, !.consumed = @ \cup pieces]
        kept == {u \in b.used : u.face \notin pieces}
        order == PiecesInOrder(pieces, anchor)
    IN IF card # One
       THEN [Warn(taken, "REF_SPLIT_ACCEPTED") EXCEPT
                !.used = kept \cup {[face |-> p, via |-> "named", status |-> "split"] : p \in pieces},
                !.splits = Append(@, [key |-> m.key, pieces |-> order, captured |-> captured])]
       ELSE Unresolved(taken, m.key, order, "REF_SPLIT")

\* Step 4: the key is gone.  What of the captured type is where it was?  Faces
\* that another captured member accounts for are not free.
Alike(c, m) == {f \in c.sc.faces : Type(f) = m.carrier[1]}
\* Mutant: faces that are accounted for are free too.
FreeAlways(c, b, m) == Alike(c, m)
FreeFaces(c, b, m) == Alike(c, m) \ (b.consumed \cup c.claimed)
Own(m, f) == FeatureOf(f.key) = FeatureOf(m.key)
IdenticalFree(c, b, m) == {f \in FreeFaces(c, b, m) : Identical(m, f)}
OwnPieces(c, b, m) ==
    {f \in FreeFaces(c, b, m) : Own(m, f) /\ SameSupport(m, f) /\ Contained(m, f)}

Suppressed(c, m) == c.sc.status[FeatureOf(m.key)] = "suppressed"

\* The free ones first, then by score.
Ranked(c, b, m) ==
    LET free == FreeFaces(c, b, m)
    IN InOrder(Alike(c, m), LAMBDA f, g :
                  \/ f \in free /\ g \notin free
                  \/ /\ (f \in free) = (g \in free)
                     /\ \/ Score(m, f) > Score(m, g)
                        \/ Score(m, f) = Score(m, g) /\ Precedes(f, g))

Likely(c, b, m) == SelectSeq(Ranked(c, b, m), LAMBDA f : Plausible(m, f))

\* Those within a tenth of the lead; free if the lead is.
Tied(c, b, m, lead) ==
    LET free == FreeFaces(c, b, m)
    IN SelectSeq(Ranked(c, b, m), LAMBDA f : /\ (f \in free) = (lead \in free)
                                            /\ 10 * Score(m, f) >= 9 * Score(m, lead))

Repair(c, b, m, f) ==
    IF c.rejected THEN Unresolved(b, m.key, <<f>>, "REF_UNCERTAIN")
    ELSE [Warn(b, "REF_REPAIRED") EXCEPT
            !.repaired = TRUE,
            !.used = Put(@, f, "named", "repaired"),
            !.consumed = @ \cup {f}]

\* What is like the member but not its geometry, of its own feature or not.
Resembling(c, b, m, elsewhere) ==
    LET likely == Likely(c, b, m)
        tied == Tied(c, b, m, likely[1])
    IN IF elsewhere # <<>> THEN Unresolved(b, m.key, elsewhere, "REF_UNCERTAIN")
       ELSE IF likely = <<>> THEN Unresolved(b, m.key, <<>>, "REF_MISSING")
       ELSE IF Len(tied) > 1 THEN Unresolved(b, m.key, tied, "REF_AMBIGUOUS")
       ELSE Unresolved(b, m.key, likely, "REF_UNCERTAIN")

FallbackTo(c, b, m, identical) ==
    LET own == Canonical({f \in identical : Own(m, f)})
        foreign == {f \in identical : ~Own(m, f)}
        inQuery == Canonical(foreign \cap c.all)
        elsewhere == Canonical(foreign \ c.all)
        pieces == InOrder(OwnPieces(c, b, m), LAMBDA p, q :
                            \/ Size(p) > Size(q)
                            \/ Size(p) = Size(q) /\ Precedes(p, q))
        others == SelectSeq(Likely(c, b, m), LAMBDA f : f # pieces[1])
    IN IF Suppressed(c, m) THEN Unresolved(b, m.key, <<>>, "REF_MISSING")
       ELSE IF Cardinality(identical) > 1
       THEN Unresolved(b, m.key, own \o inQuery \o elsewhere, "REF_AMBIGUOUS")
       ELSE IF own # <<>> THEN Repair(c, b, m, own[1])
       ELSE IF inQuery # <<>> THEN Unresolved(b, m.key, inQuery, "REF_UNCERTAIN")
       ELSE IF Len(pieces) > 1
       THEN [Unresolved(b, m.key, pieces, "REF_SPLIT") EXCEPT !.split = TRUE]
       ELSE IF Len(pieces) = 1
       THEN Unresolved(b, m.key, pieces \o others, "REF_UNCERTAIN")
       ELSE Resembling(c, b, m, elsewhere)

Fallback(c, b, m) == FallbackTo(c, b, m, IdenticalFree(c, b, m))

\* The scope has the key, the query does not: removed, unless its face was split
\* into pieces of new keys, which the query never saw.
DroppedMember(c, b, m) ==
    LET carriers == {f \in Carrying(c.sc, m.key) \ c.all :
                        /\ Neighbors(c.sc, f) > m.neighbors
                        /\ Cardinality(NewKeyPieces(c, m, f)) >= 2}
        anchor == Canonical(carriers)[1]
    IN IF carriers = {} THEN [b EXCEPT !.dropped = @ + 1]
       ELSE Split(b, m, anchor, NewKeyPieces(c, m, anchor), One, 1)

\* Step 3 for a member whose key one face carries.
Validated(c, b, m, f) ==
    LET merged == IF f.key # m.key THEN {"REF_MERGED"} ELSE {}
        changed == IF Type(f) # m.carrier[1] THEN {"REF_KIND_CHANGED"}
                   ELSE IF Neighbors(c.sc, f) < m.neighbors
                   THEN {"REF_NEIGHBORHOOD_CHANGED"} ELSE {}
        status == IF "REF_KIND_CHANGED" \in changed THEN "kind_changed"
                  ELSE IF changed # {} THEN "neighborhood_changed"
                  ELSE IF merged # {} THEN "merged" ELSE "exact"
        told == [b EXCEPT !.warnings = @ \cup merged \cup changed]
    IN IF \E u \in b.used : u.face = f /\ u.status \in {"repaired", "split"}
       THEN Unresolved(told, m.key, <<f>>, "REF_AMBIGUOUS")
       ELSE [told EXCEPT !.used = Put(@, f, "named", status),
                         !.consumed = @ \cup {f}]

\* Mutant: what gained neighbours is looked at for a cardinality of one only.
ValidateByCard(c, b, m, f) ==
    IF Neighbors(c.sc, f) > m.neighbors /\ c.card = One
    THEN Split(b, m, f, NewKeyPieces(c, m, f), One, 1)
    ELSE Validated(c, b, m, f)

ValidateOne(c, b, m, f) ==
    LET inside == InsidePieces(c, m, f)
        pieces == NewKeyPieces(c, m, f)
        unseen == pieces # inside \/ Chooses(c.q)
        around == {p \in Connected(c.sc, f) :
                     p = f \/ (p \notin c.claimed /\ ~DroppedPiece(c, m, p))}
    IN IF Neighbors(c.sc, f) <= m.neighbors THEN Validated(c, b, m, f)
       ELSE IF Cardinality(pieces) >= 2
       THEN Split(b, m, f, pieces, IF unseen THEN One ELSE c.card, 1)
       ELSE IF pieces # inside THEN Split(b, m, f, pieces, c.card, 1)
       ELSE IF ~Identical(m, f) THEN Split(b, m, f, around, One, 1)
       ELSE Validated(c, b, m, f)

\* A captured member that no face of the result carries.
Absent(c, b, m) ==
    IF Carrying(c.sc, m.key) \ c.all # {} THEN DroppedMember(c, b, m)
    ELSE Fallback(c, b, m)

ValidateMember(c, b, m, found) ==
    IF found = {} THEN Absent(c, b, m) ELSE ValidateOne(c, b, m, CHOOSE f \in found : TRUE)

OneByOne(c, b, ms, I, pairs) ==
    LET built[i \in 0 .. Len(ms)] ==
            IF i = 0 THEN b
            ELSE IF i \notin I THEN built[i - 1]
            ELSE ValidateMember(c, built[i - 1], ms[i], {f \in c.all : <<i, f>> \in pairs})
    IN built[Len(ms)]

\* All captured members of the key of the i-th.
ValidateKey(c, b, ms, i) ==
    LET I == SameKey(ms, i)
        hits == c.all \cap Carrying(c.sc, ms[i].key)
    IN IF Cardinality(hits) > Cardinality(I)
       THEN Split(b, ms[i], Best(ms[i], hits), hits, c.card, Cardinality(I))
       ELSE OneByOne(c, b, ms, I, Assign(ms, I, hits))

\* One key at a time, in the order of their first members.
ThroughKeys(c, ms) ==
    LET built[i \in 0 .. Len(ms)] ==
            IF i = 0 THEN Empty
            ELSE IF i \notin Named(ms) \/ ~IsLeast(i, SameKey(ms, i)) THEN built[i - 1]
            ELSE ValidateKey(c, built[i - 1], ms, i)
    IN built[Len(ms)]

(***************************************************************************)
(* resolve_with.                                                           *)
(***************************************************************************)
Faces(used) == {u.face : u \in used}

ContextOf(r, sc, rejected, got) ==
    [sc |-> sc, q |-> r.q, card |-> r.card, rejected |-> rejected,
     all |-> got.all, named |-> got.named,
     claimed |-> got.all \cap
        UNION {Carrying(sc, k) : k \in KeysOf(r.members, Named(r.members))}]

Context(r, sc, rejected) ==
    ContextOf(r, sc, rejected,
              IF rejected THEN [all |-> {}, named |-> {}] ELSE Eval(sc, r.q))

\* What the query selects and no captured member accounts for is used too.
Rest(c, b) ==
    [b EXCEPT !.used = @ \cup
        {[face |-> f, via |-> IF f \in c.named THEN "named" ELSE "broad", status |-> "exact"] :
            f \in c.all \ (b.consumed \cup Faces(b.used))}]

\* Whether the result has other members than the capture: how many carry each
\* key, leaving out those of captured names, and what the query dropped.
SetChanged(c, b, ms) ==
    LET names == KeysOf(ms, Named(ms))
        broad == Via(ms, "broad")
        now == {f \in c.all \ b.consumed : f \notin c.named \/ f.key \notin names}
        Now(k) == Cardinality({f \in now : f.key = k})
        Then(k) == Cardinality({i \in broad : ms[i].key = k})
    IN \/ b.dropped > 0
       \/ \E k \in {f.key : f \in now} \cup KeysOf(ms, broad) : Now(k) # Then(k)

Missing(c, b) ==
    LET gone == {f \in {SourceFeature(s) : s \in Sources(c.q)} : c.sc.status[f] = "suppressed"}
        told == [i \in 1..Cardinality(gone) |-> [key |-> Keyless, candidates |-> <<>>]]
    IN [b EXCEPT !.fail = "REF_MISSING",
                 !.unresolved = IF @ = <<>> THEN told ELSE @]

\* The splits that gave more pieces than were captured, how many more, and what is told.
Larger(splits) == SelectSeq(splits, LAMBDA s : Len(s.pieces) > s.captured)

Extra(splits) ==
    LET larger == Larger(splits)
        sum[n \in 0 .. Len(larger)] ==
            IF n = 0 THEN 0 ELSE sum[n - 1] + Len(larger[n].pieces) - larger[n].captured
    IN sum[Len(larger)]

TellSplits(b) ==
    LET larger == Larger(b.splits)
    IN [b EXCEPT !.fail = "REF_SPLIT",
                 !.unresolved = @ \o [i \in DOMAIN larger |->
                    [key |-> larger[i].key,
                     candidates |-> FirstOf(larger[i].pieces, MaxCandidates)]]]

\* Step 5: the cardinality of the whole set, unless a member failed.
CheckCard(c, b) ==
    LET n == Cardinality(b.used)
        all == InOrder(Faces(b.used), LAMBDA f, g :
                  \/ f \in b.consumed /\ g \notin b.consumed
                  \/ (f \in b.consumed) = (g \in b.consumed) /\ Precedes(f, g))
    IN IF b.fail # "none" THEN b
       ELSE IF n = 0 /\ c.card \in {One, Some} THEN Missing(c, b)
       ELSE IF n > 1 /\ c.card = One
       THEN Unresolved(b, Keyless, all, IF b.split THEN "REF_SPLIT" ELSE "REF_AMBIGUOUS")
       ELSE IF c.card > One /\ n # c.card
       THEN IF Extra(b.splits) > 0 /\ n - Extra(b.splits) = c.card
            THEN TellSplits(b)
            ELSE [b EXCEPT !.fail = "REF_CARDINALITY"]
       ELSE b

Fingerprint(sc, u) ==
    [key |-> u.face.key, via |-> u.via, carrier |-> u.face.carrier,
     lo |-> u.face.lo, hi |-> u.face.hi, neighbors |-> Neighbors(sc, u.face)]

\* A fresh capture of a resolved set.
Capture(sc, used) ==
    LET order == Canonical(Faces(used))
    IN [i \in DOMAIN order |->
            Fingerprint(sc, CHOOSE u \in used : u.face = order[i])]

ReplaceEmptyLeaves(sc, q, patch) ==
    LET empty(p) == p.op = "side" /\ Evaluates(sc, p) /\ Selected(sc, p) = {}
        patched[p \in Parts(q)] ==
            CASE p.op = "union"   -> Union(patched[p.a], patched[p.b])
              [] p.op = "minus"   -> Minus(patched[p.a], patched[p.b])
              [] p.op = "extreme" -> Extreme(patched[p.of], p.dir)
              [] OTHER            -> IF empty(p) THEN patch ELSE p
    IN patched[q]

UnionOf(qs) ==
    LET from[i \in DOMAIN qs] == IF i = Len(qs) THEN qs[i] ELSE Union(qs[i], from[i + 1])
    IN from[1]

\* rewrite_for: a query that selects the repaired set, if one verifies: one for the
\* only face, or the old one with the repaired faces in place of what selects nothing.
FirstSelecting(sc, qs, faces, q) ==
    LET good == {i \in DOMAIN qs : Selects(sc, qs[i], faces)}
    IN IF good = {} THEN q ELSE qs[CHOOSE i \in good : \A j \in good : i <= j]

Patched(sc, q, faces, found) ==
    IF found = <<>> THEN q
    ELSE FirstSelecting(sc, <<ReplaceEmptyLeaves(sc, q, UnionOf(found)),
                              Union(q, UnionOf(found))>>, faces, q)

OnlyQuery(sc, faces, q) ==
    IF Cardinality(faces) = 1 THEN Synthesize(sc, CHOOSE f \in faces : TRUE, <<q>>)
    ELSE NoQuery

RepairQueries(sc, used) ==
    LET repaired == Canonical(Faces({u \in used : u.status = "repaired"}))
    IN [i \in DOMAIN repaired |-> Synthesize(sc, repaired[i], <<>>)]

RewriteBy(sc, q, used, only, queries) ==
    IF only # NoQuery THEN only
    ELSE Patched(sc, q, Faces(used), SelectSeq(queries, LAMBDA x : x # NoQuery))

Rewrite(sc, q, used) ==
    RewriteBy(sc, q, used, OnlyQuery(sc, Faces(used), q), RepairQueries(sc, used))

Failed(code, shown, unresolved) ==
    [status |-> "failed", code |-> code, used |-> {}, shown |-> shown,
     unresolved |-> unresolved, changed |-> FALSE, dropped |-> 0, proposal |-> Nothing]

\* The query names a curve that is gone: candidates for what was captured.
Offers(c, ms) ==
    LET told[i \in 0 .. Len(ms)] ==
            IF i = 0 THEN Empty
            ELSE IF i \notin Named(ms) THEN told[i - 1] ELSE Fallback(c, told[i - 1], ms[i])
    IN told[Len(ms)].unresolved

Members(r, c) ==
    IF r.captured
    THEN Rest(c, ThroughKeys(c, r.members))
    ELSE Rest(c, Empty)

\* proposal_ref: the reference with what it gives now as its capture.
Proposal(r, c, b) ==
    [r EXCEPT !.captured = TRUE, !.members = Capture(c.sc, b.used),
              !.q = IF b.repaired THEN Rewrite(c.sc, r.q, b.used) ELSE r.q]

Outcome(r, c, b, changed) ==
    IF b.fail # "none" THEN Failed(b.fail, b.used, b.unresolved)
    ELSE [status |-> IF b.warnings = {} /\ ~changed THEN "exact" ELSE "accepted",
          code |-> "none", used |-> b.used, shown |-> b.used,
          unresolved |-> b.unresolved, changed |-> changed, dropped |-> b.dropped,
          proposal |-> IF changed \/ b.repaired THEN <<Proposal(r, c, b)>> ELSE Nothing]

Told(r, c, b) == Outcome(r, c, b, r.captured /\ SetChanged(c, b, r.members))
Checked(r, c) == Told(r, c, CheckCard(c, Members(r, c)))

Resolve(r, sc) ==
    IF UnknownCurve(sc, r.q)
    THEN Failed("QUERY_UNKNOWN_CURVE", {},
                Offers(Context(r, sc, TRUE), r.members))
    ELSE IF BlockedSource(sc, r.q) THEN Failed("DEPENDENCY_FAILED", {}, <<>>)
    ELSE Checked(r, Context(r, sc, FALSE))

(***************************************************************************)
(* The commands.  Each answers with a refusal, which changes nothing, or   *)
(* with a document whose reference it has resolved once more.              *)
(***************************************************************************)
Repaired(res) == \E u \in res.used : u.status = "repaired"

\* check_resolves_to: as captured, in order, with nothing repaired.
ResolvesTo(res, members) ==
    LET order == Canonical(Faces(res.used))
    IN /\ res.status # "failed"
       /\ ~res.changed
       /\ ~Repaired(res)
       /\ [i \in DOMAIN order |-> order[i].key] = [i \in DOMAIN members |-> members[i].key]

\* fresh_capture: the resolver's own capture, read through an empty one.
ReadFresh(r) == Resolve([r EXCEPT !.captured = TRUE, !.members = <<>>], scope)
Recaptured(r, fresh) == [r EXCEPT !.captured = TRUE, !.members = Capture(scope, fresh.used)]

CaptureRef ==
    \E cur \in {Resolve(ref, scope)}, fresh \in {ReadFresh(ref)} :
        /\ cur.status # "failed"
        /\ ~Repaired(cur)
        /\ fresh.status # "failed"
        /\ Faces(fresh.used) = Faces(cur.used)
        /\ ref' = Recaptured(ref, fresh)
        /\ \E res \in {Resolve(ref', scope)} :
            /\ ResolvesTo(res, ref'.members)
            /\ Faces(res.used) = Faces(cur.used)
        /\ UNCHANGED <<scope, read>>

AcceptRefProposal ==
    \E cur \in {Resolve(ref, scope)} :
        /\ cur.proposal # Nothing
        /\ cur.proposal[1].q.nesting <= MaxNesting
        /\ ref' = cur.proposal[1]
        /\ ResolvesTo(Resolve(ref', scope), ref'.members)
        /\ UNCHANGED <<scope, read>>

\* Each candidate of a report, by the places of its member and of itself.
Spots(res) ==
    UNION {{i} \X DOMAIN res.unresolved[i].candidates : i \in DOMAIN res.unresolved}

\* Mutant: a candidate named with its place is taken from that place.
HitsByPlace(res, sel) ==
    {h \in Spots(res) :
        LET u == res.unresolved[h[1]]
        IN /\ u.key = sel.member
           /\ u.candidates[h[2]].key = sel.key
           /\ sel.index \in {0, h[2]}
           /\ sel.index = 0 /\ sel.probe # Nothing => sel.probe = <<Centroid(u.candidates[h[2]])>>}

\* The candidates of the report that a call designates: of its member, with its key, at
\* its place if one is given, and with the point of its probe if one is given.
Hits(res, sel) ==
    {h \in Spots(res) :
        LET u == res.unresolved[h[1]]
        IN /\ u.key = sel.member
           /\ u.candidates[h[2]].key = sel.key
           /\ sel.index \in {0, h[2]}
           /\ sel.probe # Nothing => sel.probe = <<Centroid(u.candidates[h[2]])>>}

\* The members the reference would keep: not the candidate, nor what its entry
\* stands for.
Others(res, u, cand) ==
    {f \in Faces(res.shown) :
        /\ f # cand
        /\ ~(u.key \in {Keyless, f.key} /\ f \in SetOf(u.candidates))}

AcceptRefCandidate ==
    /\ read # Nothing
    /\ \E cur \in {Resolve(ref, scope)} : \E hits \in {Hits(cur, read[1])} :
      \E hit \in hits :
        /\ hits = {hit}
        /\ \E u \in {cur.unresolved[hit[1]]} : \E cand \in {u.candidates[hit[2]]} :
            /\ Len(cur.unresolved) = 1
            /\ Others(cur, u, cand) = {}
            /\ \E q \in {Synthesize(scope, cand, <<ref.q>>)} :
                /\ q # NoQuery
                /\ q.nesting <= MaxNesting
                /\ \E fresh \in {ReadFresh(Uncaptured(q, ref.card))} :
                    /\ fresh.status # "failed"
                    /\ ref' = Recaptured(Uncaptured(q, ref.card), fresh)
            /\ \E res \in {Resolve(ref', scope)} :
                /\ ResolvesTo(res, <<cand>>)
                /\ Faces(res.used) = {cand}
    /\ read' = Nothing
    /\ UNCHANGED scope

\* The user reads a candidate in the report: it is named by its key, with its place or
\* without, with its probe or without.
ReadCandidate ==
    /\ read = Nothing
    /\ \E res \in {Resolve(ref, scope)} :
        \E u \in SetOf(res.unresolved) : \E j \in DOMAIN u.candidates :
            \E index \in {0, j}, probe \in {Nothing, <<Centroid(u.candidates[j])>>} :
                read' = <<[member |-> u.key, key |-> u.candidates[j].key,
                           index |-> index, probe |-> probe]>>
    /\ UNCHANGED <<scope, ref>>

\* The user leaves the report.
Forget == read # Nothing /\ read' = Nothing /\ UNCHANGED <<scope, ref>>

\* An edit, an undo or a suppression changes the part before the feature.
Edit == scope' \in Scopes \ {scope} /\ UNCHANGED <<ref, read>>

RefInit ==
    /\ scope \in Scopes
    /\ ref \in Written
    /\ read = Nothing

RefNext ==
    \/ Edit
    \/ CaptureRef
    \/ AcceptRefProposal
    \/ ReadCandidate
    \/ AcceptRefCandidate
    \/ Forget

RefSpec == RefInit /\ [][RefNext]_refVars

(***************************************************************************)
(* Properties.                                                             *)
(***************************************************************************)

\* A face that can account for a captured member without a word to the user, or
\* with the word that it was repaired, whatever pieces it was found among since.
Stands(m, u) ==
    \/ u.face.key = m.key
    \/ u.status \in {"repaired", "split"} /\ Own(m, u.face) /\ Identical(m, u.face)

\* Captured members never collapse silently: when a reference is used, each named
\* member of its capture has a face of its own there, one with its key or the one
\* that took its very place, but for those whose key was merged away and those
\* told as removed (validate_key, fallback and the claimed set of resolve.rs).
MembersAreAccounted ==
    LET ms == ref.members
        alive == {i \in Named(ms) : ms[i].key \notin DOMAIN scope.aliases}
    IN \A res \in {Resolve(ref, scope)} : res.status # "failed" =>
        \E kept \in SUBSET alive :
            /\ Cardinality(alive \ kept) <= res.dropped
            /\ \E face \in [kept -> res.used] :
                /\ \A i \in kept : Stands(ms[i], face[i])
                /\ \A i, j \in kept : face[i] = face[j] => i = j

\* The pieces a captured member is split into, beside the face f that has its key:
\* connected to f, within what was captured, and not designated by a captured key.
PiecesBeside(m, f) ==
    LET keys == KeysOf(ref.members, DOMAIN ref.members)
    IN {p \in Connected(scope, f) \ UNION {Carrying(scope, k) : k \in keys} :
            SameSupport(m, p) /\ Contained(m, p)}

\* The faces with its key that gained neighbours are used with their pieces.
UsedWhole(m, res) ==
    \A f \in Faces(res.used) \cap Carrying(scope, m.key) :
        Neighbors(scope, f) > m.neighbors => PiecesBeside(m, f) \subseteq Faces(res.used)

\* A key that one face carries is never used by that face alone when what was
\* captured is split into it and pieces of new keys, whatever the query and the
\* other members; of several members with the key, the one the face is matched
\* with says what was captured (validate_key, validate_one, dropped_member and
\* new_key_pieces of resolve.rs).
AnchorIsNotAlone ==
    LET ms == ref.members
    IN \A res \in {Resolve(ref, scope)} : res.status # "failed" =>
        \A k \in KeysOf(ms, Named(ms)) : Cardinality(Carrying(scope, k)) = 1 =>
            \E i \in Named(ms) : ms[i].key = k /\ UsedWhole(ms[i], res)

\* A reference whose target was split takes every piece or fails: also when some
\* pieces share the key and others have new ones (validate_key of resolve.rs).
SplitsAreWhole ==
    \A res \in {Resolve(ref, scope)} : res.status # "failed" =>
        \A i \in Named(ref.members) : UsedWhole(ref.members[i], res)

\* No face still has a key that was merged into another's.
MergedAway == \A f \in scope.faces : f.key \notin DOMAIN scope.aliases

\* What the report res offers for the member, key and place that sel names.
Offered(res, sel) ==
    {f \in UNION {SetOf(u.candidates) : u \in SetOf(res.unresolved)} :
        /\ f.key = sel.key
        /\ \E u \in SetOf(res.unresolved) :
            /\ u.key = sel.member
            /\ \E j \in DOMAIN u.candidates : u.candidates[j] = f /\ sel.index \in {0, j}}

\* A command that rewrites a reference leaves one that resolves; if it gave nothing
\* before, to a face offered now: the very one whose probe the user read, whatever
\* happened to the part since, and without a probe the only one that the key, and the
\* place if given, can mean now; and, unless a face still has a merged key, with nothing
\* to tell and to the faces it gave before (capture_ref, accept_ref_proposal and
\* accept_ref_candidate of commands.rs).
CommandsAreExact ==
    [][ref' # ref =>
        \A before \in {Resolve(ref, scope)}, after \in {Resolve(ref', scope')} :
            /\ after.status # "failed"
            /\ before.status = "failed" =>
                /\ read # Nothing
                /\ Faces(after.used) \subseteq Offered(before, read[1])
                /\ IF read[1].probe # Nothing
                   THEN \A f \in Faces(after.used) : read[1].probe = <<Centroid(f)>>
                   ELSE Offered(before, read[1]) = Faces(after.used)
            /\ MergedAway =>
                /\ after.status = "exact"
                /\ before.status # "failed" => Faces(after.used) = Faces(before.used)]_refVars
=============================================================================
